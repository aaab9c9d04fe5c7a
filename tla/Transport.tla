------------------------------ MODULE Transport ------------------------------
(***************************************************************************)
(* Transport.RoundTrip (transport.go): the retry loop that takes a request *)
(* from peer to peer.  It runs on top of the contract of the balancers     *)
(* (Picker), so what is shown here holds for every algorithm.              *)
(*                                                                         *)
(* A member of Pickers is one call of RoundTrip.  What a call does between *)
(* two points where others can interfere (the balancer's lock, the round   *)
(* trip, a look at the caller's context) is one action; the underlying     *)
(* http.RoundTripper and the caller are the environment.                   *)
(***************************************************************************)
EXTENDS Picker, Sequences

\* What the underlying RoundTripper may return: a response (of status 403 or 404:
\* "denied", of a status that may be configured for retries: "bad"), an error,
\* or one of the ways to break its contract: response and error, neither of
\* them, a response without a body.
Results == {"ok", "denied", "bad", "error", "both", "neither", "nobody"}

CONSTANTS
    Configs,      \* the Transports that are considered
    RequestKinds  \* the requests that are considered

\* standard: the RoundTripper is an *http.Transport; timeout: WithTimeout was
\* given; nextUpstream: the results for which the retry condition is true.
ASSUME ConfigsAssumption ==
    Configs \subseteq [standard : BOOLEAN, timeout : BOOLEAN,
                       retryNonIdempotent : BOOLEAN, nextUpstream : SUBSET Results]

\* target: the URL matches an upstream, or no upstream, or nothing is sent at all
\* (the configuration is broken, the URL is nil); idempotent: the method is not
\* POST, LOCK or PATCH; body: what the request's Body and GetBody are.
Requests == [target : {"upstream", "other", "refused"}, idempotent : BOOLEAN,
             body : {"none", "GetBody", "seekable", "stream"}]

ASSUME RequestsAssumption == RequestKinds \subseteq Requests

ASSUME PeersAssumption == IsFiniteSet(Peers) /\ NoPeer \notin Peers

VARIABLES
    config,     \* the options of the Transport; never change
    pc,         \* where the call is
    request,    \* what the caller passed
    ctxDone,    \* the caller's context is canceled or past its deadline
    mode,       \* how prepareBody makes the body available
    source,     \* the caller's request body: "none", "open" or "closed"
    tempFile,   \* a temporary file of this call exists
    drained,    \* some of a body that is streamed through was consumed
    attempts,   \* the attempts so far: the peer, and whether it got the request
    verdicts,   \* what was reported to the balancer about each of them
    openBodies, \* the attempts whose response body is not closed
    openCtxs,   \* the attempts whose context is not canceled
    lastResp,   \* the attempt held in lastResp, 0 for nil
    lastErr,    \* the attempt whose error is held in lastErr, 0 for nil
    result,     \* what RoundTrip returned
    lateStarts  \* auxiliary: attempts started after the caller gave up

bodyVars == <<mode, source, tempFile, drained>>
respVars == <<openBodies, openCtxs, lastResp, lastErr>>
vars == <<pickerVars, config, pc, request, ctxDone, bodyVars, attempts, verdicts,
          respVars, result, lateStarts>>

Attempt  == [peer : Peers, sent : BOOLEAN]
Verdicts == {"ok", "failed", "neutral"}
\* resp: the attempt that is returned, 0 for nil.  err: an attempt's error, the
\* context's, a failure of the body, ErrNoPeerAvailable, or nil.
NoResult == [resp |-> 0, err |-> "nil"]

TypeOK ==
    /\ PickerTypeOK
    /\ config \in Configs
    /\ pc \in [Pickers -> {"idle", "start", "passing", "prepare", "loop", "pick", "picked",
                           "inflight", "returned", "done"}]
    /\ request \in [Pickers -> Requests]
    /\ ctxDone \in [Pickers -> BOOLEAN]
    /\ mode \in [Pickers -> {"none", "GetBody", "seek", "empty", "stream", "memory", "file"}]
    /\ source \in [Pickers -> {"none", "open", "closed"}]
    /\ tempFile \in [Pickers -> BOOLEAN]
    /\ drained \in [Pickers -> BOOLEAN]
    /\ attempts \in [Pickers -> Seq(Attempt)]
    /\ \A g \in Pickers : Len(attempts[g]) <= Cardinality({p \in Peers : ~Down(p)})
    /\ verdicts \in [Pickers -> Seq(Verdicts)]
    /\ openBodies \in [Pickers -> SUBSET Nat]
    /\ openCtxs \in [Pickers -> SUBSET Nat]
    /\ lastResp \in [Pickers -> Nat]
    /\ lastErr \in [Pickers -> Nat]
    /\ result \in [Pickers -> [resp : Nat, err : {"nil", "attempt", "context", "body", "nopeer", "config"}]]
    /\ lateStarts \in [Pickers -> Nat]

Init ==
    /\ PickerInit
    /\ config \in Configs
    /\ pc = [g \in Pickers |-> "idle"]
    /\ request = [g \in Pickers |-> [target |-> "upstream", idempotent |-> TRUE, body |-> "none"]]
    /\ ctxDone = [g \in Pickers |-> FALSE]
    /\ mode = [g \in Pickers |-> "none"]
    /\ source = [g \in Pickers |-> "none"]
    /\ tempFile = [g \in Pickers |-> FALSE]
    /\ drained = [g \in Pickers |-> FALSE]
    /\ attempts = [g \in Pickers |-> <<>>]
    /\ verdicts = [g \in Pickers |-> <<>>]
    /\ openBodies = [g \in Pickers |-> {}]
    /\ openCtxs = [g \in Pickers |-> {}]
    /\ lastResp = [g \in Pickers |-> 0]
    /\ lastErr = [g \in Pickers |-> 0]
    /\ result = [g \in Pickers |-> NoResult]
    /\ lateStarts = [g \in Pickers |-> 0]

goto(g, l) == pc' = [pc EXCEPT ![g] = l]

-------------------------------------------------------------------------------
(* Results of an attempt, as roundTrip hands them on. *)

HasResponse(r)     == r \in {"ok", "denied", "bad", "both"}
HasError(r)        == r \in {"error", "both", "neither", "nobody"}
isRoundTripperContractError(r) == r \in {"neither", "nobody"}

shouldRetry(r) == r \in config.nextUpstream

\* Mutant of requestWasSent: every RoundTripper is trusted to trace its writes.
requestWasTraced(r, sent) == HasResponse(r) \/ (config.standard /\ sent)

\* sent is what really happened.  The trace of an *http.Transport shows it; an
\* error of any other RoundTripper counts as sent.
requestWasSent(r, sent) ==
    \/ HasResponse(r)
    \/ config.standard /\ sent
    \/ ~config.standard

blockedNonIdempotent(g, r, sent) ==
    /\ requestWasSent(r, sent)
    /\ ~request[g].idempotent
    /\ ~config.retryNonIdempotent

\* decideAttempt.
retries(g, r, sent) == shouldRetry(r) /\ ~blockedNonIdempotent(g, r, sent)

verdict(g, r, sent) ==
    IF isRoundTripperContractError(r) THEN "neutral"
    ELSE IF ~shouldRetry(r) THEN "ok"
    ELSE IF HasError(r) THEN "failed"
    ELSE IF r = "denied" \/ blockedNonIdempotent(g, r, sent) THEN "ok"
    ELSE "failed"

-------------------------------------------------------------------------------
(* The request body. *)

Usable == {p \in Peers : ~Down(p)}
multipleUsablePeers == Cardinality(Usable) > 1

\* Mutant of requestBodyMayNeedReplay: WithNonIdempotentRetries is not considered.
replayIdempotentOnly(g) == multipleUsablePeers /\ request[g].idempotent

requestBodyMayNeedReplay(g) ==
    /\ multipleUsablePeers
    /\ request[g].idempotent \/ config.retryNonIdempotent

closeSource(g) == source' = [source EXCEPT ![g] = IF @ = "open" THEN "closed" ELSE @]

\* Mutant of cleanup: the temporary file stays.
cleanupSourceOnly(g) == closeSource(g) /\ UNCHANGED tempFile

\* The deferred cleanup: closes the caller's body unless buffering did it before,
\* closes and removes the temporary file.
cleanup(g) ==
    /\ closeSource(g)
    /\ tempFile' = [tempFile EXCEPT ![g] = FALSE]

\* RoundTrip returns.
return(g, resp, err) ==
    /\ result' = [result EXCEPT ![g] = [resp |-> resp, err |-> err]]
    /\ goto(g, "returned")

-------------------------------------------------------------------------------
(* The caller. *)

Begin(g) ==
    /\ pc[g] = "idle"
    /\ \E r \in RequestKinds :
          /\ request' = [request EXCEPT ![g] = r]
          /\ source' = [source EXCEPT ![g] = IF r.body = "none" THEN "none" ELSE "open"]
    /\ goto(g, "start")
    /\ UNCHANGED <<pickerVars, config, ctxDone, mode, tempFile, drained, attempts,
                   verdicts, respVars, result, lateStarts>>

Cancel(g) ==
    /\ pc[g] # "done" /\ ~ctxDone[g]
    /\ ctxDone' = [ctxDone EXCEPT ![g] = TRUE]
    /\ UNCHANGED <<pickerVars, config, pc, request, bodyVars, attempts, verdicts,
                   respVars, result, lateStarts>>

\* The caller is done with the result; it closes the response body, and the
\* cancelCloser around it cancels the context of the attempt.
CallerCloses(g) ==
    /\ pc[g] = "returned"
    /\ openBodies' = [openBodies EXCEPT ![g] = @ \ {result[g].resp}]
    /\ openCtxs' = [openCtxs EXCEPT ![g] = @ \ {result[g].resp}]
    /\ goto(g, "done")
    /\ UNCHANGED <<pickerVars, config, request, ctxDone, bodyVars, attempts, verdicts,
                   lastResp, lastErr, result, lateStarts>>

-------------------------------------------------------------------------------
(* RoundTrip. *)

failRoundTrip(g, err) == closeSource(g) /\ return(g, 0, err)

\* The checks before anything is prepared.
Start(g) ==
    /\ pc[g] = "start"
    /\ \/ request[g].target = "refused" /\ failRoundTrip(g, "config")
       \/ request[g].target # "refused" /\ ctxDone[g] /\ failRoundTrip(g, "context")
       \/ /\ request[g].target # "refused" /\ ~ctxDone[g]
          /\ goto(g, IF request[g].target = "upstream" THEN "prepare" ELSE "passing")
          /\ UNCHANGED <<source, result>>
    /\ UNCHANGED <<pickerVars, config, request, ctxDone, mode, tempFile, drained,
                   attempts, verdicts, respVars, lateStarts>>

\* A request that matches no upstream goes to the RoundTripper as it is, which
\* closes its body, and what comes back is returned.
PassThrough(g, r) ==
    LET resp == IF HasResponse(r) THEN 1 ELSE 0 IN
    /\ pc[g] = "passing"
    /\ closeSource(g)
    /\ openBodies' = [openBodies EXCEPT ![g] = {resp} \ {0}]
    /\ return(g, resp, IF HasError(r) THEN "attempt" ELSE "nil")
    /\ UNCHANGED <<pickerVars, config, request, ctxDone, mode, tempFile, drained, attempts,
                   verdicts, openCtxs, lastResp, lastErr, lateStarts>>

\* What prepareBody may come to for a body: the mode, whether the caller's body
\* is closed by then and whether there is a temporary file.
prepared(g) ==
    CASE request[g].body = "none"     -> {<<"none", FALSE, FALSE>>}
      [] request[g].body = "GetBody"  -> {<<"GetBody", FALSE, FALSE>>}
      [] request[g].body = "seekable" -> {<<"seek", FALSE, FALSE>>, <<"empty", FALSE, FALSE>>}
      [] request[g].body = "stream"   ->
            IF requestBodyMayNeedReplay(g)
            THEN {<<"memory", TRUE, FALSE>>, <<"file", TRUE, TRUE>>}
            ELSE {<<"stream", FALSE, FALSE>>}

prepareBody(g) ==
    /\ pc[g] = "prepare"
    /\ \E m \in prepared(g) :
          /\ mode' = [mode EXCEPT ![g] = m[1]]
          /\ source' = [source EXCEPT ![g] = IF m[2] THEN "closed" ELSE @]
          /\ tempFile' = [tempFile EXCEPT ![g] = m[3]]
    /\ goto(g, "loop")
    /\ UNCHANGED <<pickerVars, config, request, ctxDone, drained, attempts, verdicts,
                   respVars, result, lateStarts>>

\* Seeking, reading or spilling fails: the body is closed, a temporary file that
\* was already created is closed and removed, and RoundTrip returns the error.
prepareBodyFails(g) ==
    /\ pc[g] = "prepare"
    /\ \/ request[g].body = "seekable"
       \/ request[g].body = "stream" /\ requestBodyMayNeedReplay(g)
    /\ source' = [source EXCEPT ![g] = "closed"]
    /\ return(g, 0, "body")
    /\ UNCHANGED <<pickerVars, config, request, ctxDone, mode, tempFile, drained,
                   attempts, verdicts, respVars, lateStarts>>

\* Mutant of closeLast: the variable is reset and the body stays open.
dropLast(g) ==
    /\ lastResp' = [lastResp EXCEPT ![g] = 0]
    /\ UNCHANGED <<openBodies, openCtxs>>

\* Closes the response of the previous attempt, and with it the attempt's context
\* (a response that came with an error is not wrapped, its context is canceled).
closeLast(g) ==
    /\ openBodies' = [openBodies EXCEPT ![g] = @ \ {lastResp[g]}]
    /\ openCtxs' = [openCtxs EXCEPT ![g] = @ \ {lastResp[g]}]
    /\ lastResp' = [lastResp EXCEPT ![g] = 0]

\* Mutant of CheckContext: only an error makes RoundTrip look at the context.
ContextUnchecked(g) ==
    /\ pc[g] = "loop"
    /\ goto(g, "pick")
    /\ UNCHANGED <<pickerVars, config, request, ctxDone, bodyVars, attempts, verdicts,
                   respVars, result, lateStarts>>

\* The head of the loop.
CheckContext(g) ==
    /\ pc[g] = "loop"
    /\ \/ /\ ~ctxDone[g]
          /\ goto(g, "pick")
          /\ UNCHANGED <<source, tempFile, respVars, result>>
       \/ /\ ctxDone[g]
          /\ closeLast(g)
          /\ return(g, 0, "context")
          /\ cleanup(g)
          /\ UNCHANGED lastErr
    /\ UNCHANGED <<pickerVars, config, request, ctxDone, mode, drained, attempts,
                   verdicts, lateStarts>>

PickPeer(g) ==
    /\ pc[g] = "pick"
    /\ \E p \in Peers : Pick(g, p)
    /\ goto(g, "picked")
    /\ UNCHANGED <<config, request, ctxDone, bodyVars, attempts, verdicts, respVars,
                   result, lateStarts>>

\* Mutant of NoPeerLeft: the last attempt is forgotten.
NoPeerLeftForgetful(g) ==
    /\ pc[g] = "pick"
    /\ return(g, 0, "nopeer")
    /\ cleanup(g)
    /\ UNCHANGED <<pickerVars, config, request, ctxDone, mode, drained, attempts,
                   verdicts, respVars, lateStarts>>

\* Mutant of NoPeerLeft: the loop tries again until a peer is free.
NoPeerLeftWaits(g) ==
    /\ pc[g] = "pick"
    /\ goto(g, "loop")
    /\ UNCHANGED <<pickerVars, config, request, ctxDone, bodyVars, attempts, verdicts,
                   respVars, result, lateStarts>>

\* Pick returned nil.
NoPeerLeft(g) ==
    /\ pc[g] = "pick"
    /\ IF lastResp[g] # 0 \/ lastErr[g] # 0
       THEN return(g, lastResp[g], IF lastErr[g] # 0 THEN "attempt" ELSE "nil")
       ELSE return(g, 0, "nopeer")
    /\ cleanup(g)
    /\ UNCHANGED <<pickerVars, config, request, ctxDone, mode, drained, attempts,
                   verdicts, respVars, lateStarts>>

\* The previous attempt is dropped for good, the body is rewound and the request
\* goes to the RoundTripper.
StartAttempt(g) ==
    LET n == Len(attempts[g]) + 1 IN
    /\ pc[g] = "picked"
    /\ openBodies' = [openBodies EXCEPT ![g] = @ \ {lastResp[g]}]
    /\ openCtxs' = [openCtxs EXCEPT ![g] =
           (@ \ {lastResp[g]}) \cup IF config.timeout THEN {n} ELSE {}]
    /\ lastResp' = [lastResp EXCEPT ![g] = 0]
    /\ lastErr' = [lastErr EXCEPT ![g] = 0]
    /\ attempts' = [attempts EXCEPT ![g] = Append(@, [peer |-> holding[g], sent |-> FALSE])]
    /\ lateStarts' = [lateStarts EXCEPT ![g] = IF ctxDone[g] THEN @ + 1 ELSE @]
    /\ goto(g, "inflight")
    /\ UNCHANGED <<pickerVars, config, request, ctxDone, bodyVars, verdicts, result>>

\* Mutant of ReplayFails: the peer is not released.
ReplayFailsHolding(g) ==
    /\ pc[g] = "picked"
    /\ mode[g] \in {"GetBody", "seek", "file"}
    /\ closeLast(g)
    /\ lastErr' = [lastErr EXCEPT ![g] = 0]
    /\ return(g, 0, "body")
    /\ cleanup(g)
    /\ UNCHANGED <<pickerVars, config, request, ctxDone, mode, drained, attempts, verdicts,
                   lateStarts>>

\* GetBody or the seek to the start fails: the peer is released neutrally.
ReplayFails(g) ==
    /\ pc[g] = "picked"
    /\ mode[g] \in {"GetBody", "seek", "file"}
    /\ Release(g)
    /\ closeLast(g)
    /\ lastErr' = [lastErr EXCEPT ![g] = 0]
    /\ return(g, 0, "body")
    /\ cleanup(g)
    /\ UNCHANGED <<config, request, ctxDone, mode, drained, attempts, verdicts, lateStarts>>

\* External: what the RoundTripper may come back with, and whether the peer got
\* anything of the request.
roundTripOutcomes ==
    IF config.standard
    THEN {<<"error", FALSE>>} \cup ({"ok", "denied", "bad", "error"} \X {TRUE})
    ELSE Results \X BOOLEAN

\* The round trip of attempt n is over; after an error its context is canceled.
settle(g, n, r, sent) ==
    /\ attempts' = [attempts EXCEPT ![g][n].sent = sent]
    /\ drained' = [drained EXCEPT ![g] = @ \/ (mode[g] = "stream" /\ sent)]
    /\ openCtxs' = [openCtxs EXCEPT ![g] = IF HasError(r) THEN @ \ {n} ELSE @]

\* The RoundTripper returns r, the attempt is judged and the peer released.
FinishAttempt(g, r, sent) ==
    LET n == Len(attempts[g])
        withResp == IF HasResponse(r) THEN {n} ELSE {}
    IN
    /\ pc[g] = "inflight"
    /\ settle(g, n, r, sent)
    /\ Release(g)
    /\ \/ /\ HasError(r) /\ ctxDone[g]  \* the caller gave up
          /\ verdicts' = [verdicts EXCEPT ![g] = Append(@, "neutral")]
          /\ return(g, 0, "context")
          /\ cleanup(g)
          /\ UNCHANGED <<openBodies, lastResp, lastErr>>
       \/ /\ ~(HasError(r) /\ ctxDone[g])
          /\ verdicts' = [verdicts EXCEPT ![g] = Append(@, verdict(g, r, sent))]
          /\ openBodies' = [openBodies EXCEPT ![g] = @ \cup withResp]
          /\ IF retries(g, r, sent)
             THEN /\ lastResp' = [lastResp EXCEPT ![g] = IF HasResponse(r) THEN n ELSE 0]
                  /\ lastErr' = [lastErr EXCEPT ![g] = IF HasError(r) THEN n ELSE 0]
                  /\ goto(g, "loop")
                  /\ UNCHANGED <<source, tempFile, result>>
             ELSE /\ return(g, IF HasResponse(r) THEN n ELSE 0,
                               IF HasError(r) THEN "attempt" ELSE "nil")
                  /\ cleanup(g)
                  /\ UNCHANGED <<lastResp, lastErr>>
    /\ UNCHANGED <<config, request, ctxDone, mode, lateStarts>>

Step(g) ==
    \/ Start(g)
    \/ \E o \in roundTripOutcomes : PassThrough(g, o[1])
    \/ prepareBody(g)
    \/ prepareBodyFails(g)
    \/ CheckContext(g)
    \/ PickPeer(g)
    \/ NoPeerLeft(g)
    \/ StartAttempt(g)
    \/ ReplayFails(g)
    \/ \E o \in roundTripOutcomes : FinishAttempt(g, o[1], o[2])

\* Every call has returned and the callers are done with the results.
AllDone == (\A g \in Pickers : pc[g] = "done") /\ UNCHANGED vars

Next ==
    \/ \E g \in Pickers : Begin(g) \/ Cancel(g) \/ CallerCloses(g) \/ Step(g)
    \/ AllDone

Spec == Init /\ [][Next]_vars

\* A call that has begun keeps going: there is nothing in it to wait for but the
\* balancer's lock and the round trip, which ends at its deadline at the latest.
FairSpec == Spec /\ \A g \in Pickers : WF_vars(Step(g))

-------------------------------------------------------------------------------
(* Properties. *)

\* A peer is held exactly from Pick to the end of the attempt: every way out of
\* the loop, the error paths included, has released it, and the balancer got one
\* verdict for each attempt that is over.
PeerHeldDuringAttempt ==
    \A g \in Pickers :
        /\ (holding[g] # NoPeer) <=> (pc[g] \in {"picked", "inflight"})
        /\ Len(verdicts[g]) + (IF pc[g] = "inflight" THEN 1 ELSE 0) = Len(attempts[g])

\* Response bodies and attempt contexts never pile up.  Between attempts at most
\* the last response is open; when RoundTrip has returned, exactly the response
\* it returned is open and no context outlives it; when the caller has closed
\* that one, nothing is left (closeLast, cancelCloser, the error paths).
NothingLeaks ==
    \A g \in Pickers :
        /\ pc[g] \in {"loop", "pick", "picked"} => openBodies[g] \subseteq {lastResp[g]}
        /\ pc[g] = "inflight" => openBodies[g] = {}
        /\ pc[g] = "returned" => openBodies[g] = {result[g].resp} \ {0}
        /\ pc[g] \in {"loop", "pick", "picked", "returned"} => openCtxs[g] \subseteq openBodies[g]
        /\ pc[g] = "done" => openBodies[g] = {} /\ openCtxs[g] = {}

\* When RoundTrip has returned, the request body was closed, whether the call
\* sent, replayed, buffered or never looked at it, and no temporary file is left;
\* until then the body of an attempt is not taken away from it.
RequestBodyReleased ==
    \A g \in Pickers :
        /\ pc[g] \in {"returned", "done"} => source[g] # "open" /\ ~tempFile[g]
        /\ pc[g] = "inflight" /\ mode[g] \in {"seek", "stream"} => source[g] = "open"
        /\ pc[g] = "inflight" /\ mode[g] = "file" => tempFile[g]

\* Without WithNonIdempotentRetries at most one peer ever receives a POST, LOCK
\* or PATCH, whatever the RoundTripper is and however its attempts fail
\* (decideAttempt, requestWasSent).
NonIdempotentSentOnce ==
    \A g \in Pickers :
        ~request[g].idempotent /\ ~config.retryNonIdempotent
        => \A m, n \in DOMAIN attempts[g] :
              attempts[g][m].sent /\ attempts[g][n].sent => m = n

\* A body that is streamed through without a copy is never needed again after
\* some of it was consumed (the argument in prepareBody's comment: it relies on
\* the peer count, the method gate and the request-sent trace together).
StreamNeverReplayed ==
    \A g \in Pickers :
        pc[g] = "inflight" /\ mode[g] = "stream" => ~drained[g]

\* RoundTrip returns what the most recent attempt produced: a response and an
\* error of an earlier attempt are never returned ("whatever was last").
LastAttemptReturned ==
    \A g \in Pickers :
        /\ pc[g] \in {"returned", "done"} /\ result[g].resp # 0 /\ request[g].target = "upstream"
           => result[g].resp = Len(attempts[g])
        /\ pc[g] \in {"returned", "done"} /\ result[g].err = "nopeer"
           => attempts[g] = <<>>
        /\ pc[g] \in {"loop", "pick"} /\ attempts[g] # <<>>
           => /\ {lastResp[g], lastErr[g]} \subseteq {0, Len(attempts[g])}
              /\ {lastResp[g], lastErr[g]} # {0}

\* Once the caller's context is done at most one further attempt is started, the
\* one that had already passed the check at the head of the loop: a canceled
\* request is not fanned out across the remaining peers.
NoFanOutAfterCancel == \A g \in Pickers : lateStarts[g] <= 1

\* Open connections to a peer: round trips in progress and response bodies that
\* are still being read.
Connections(p) ==
    {g \in Pickers : pc[g] = "inflight" /\ holding[g] = p} \cup
    {g \in Pickers : \E n \in openBodies[g] \cap DOMAIN attempts[g] : attempts[g][n].peer = p}

\* max_conns bounds the concurrent connections to a server ("MaxConns sets the
\* maximum concurrent connections to a server", transport.go).
MaxConnsBoundsConnections ==
    \A p \in Peers : MaxConns(p) > 0 => Cardinality(Connections(p)) <= MaxConns(p)

\* Every call of RoundTrip returns: the peers run out.
RoundTripReturns ==
    \A g \in Pickers : pc[g] = "start" ~> pc[g] \in {"returned", "done"}

===============================================================================
