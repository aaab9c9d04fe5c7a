--------------------------- MODULE BalancedTransport ---------------------------
(***************************************************************************)
(* RoundTrip on top of the round-robin picker: what happens to the health  *)
(* of the peers when the retry loop (Transport) reports its verdicts to    *)
(* the balancer (RoundRobin).  A step is a step of both, or of the         *)
(* Transport alone; the Transport's peer in hand is the picker's.          *)
(***************************************************************************)
EXTENDS RoundRobin, Sequences

CONSTANTS Configs, RequestKinds     \* as in Transport

VARIABLES
    \* The variables of Transport; step is its pc.
    config, step, request, ctxDone, mode, source, tempFile, drained, attempts, verdicts,
    openBodies, openCtxs, lastResp, lastErr, result, lateStarts, givenTo,
    \* Auxiliary, read by properties only: how often and when last an attempt ended
    \* that tells against the peer.
    failures, failedAt

T == INSTANCE Transport WITH pc <- step, holding <- peerOf, given <- givenTo

callVars == <<config, step, request, ctxDone, mode, source, tempFile, drained, attempts,
              verdicts, openBodies, openCtxs, lastResp, lastErr, result, lateStarts, givenTo>>
evidence == <<failures, failedAt>>
balancedVars == <<vars, callVars, evidence>>

BalancedInit ==
    /\ Init
    /\ T!Init
    /\ failures = [p \in Peers |-> 0]
    /\ failedAt = [p \in Peers |-> 0]

-------------------------------------------------------------------------------
(* Steps of the Transport that do not touch the balancer. *)
Local(g) ==
    /\ \/ T!Begin(g)
       \/ T!Cancel(g)
       \/ \E o \in T!roundTripOutcomes : T!PassThrough(g, o[1])
       \/ T!prepareBody(g)
       \/ T!prepareBodyFails(g)
       \/ T!CheckContext(g)
       \/ T!StartAttempt(g)
    /\ UNCHANGED <<vars, evidence>>

\* A picker is made before the body is prepared.
StartCall(g) ==
    /\ T!Start(g)
    /\ IF step'[g] = "prepare" THEN NewPicker(g) ELSE UNCHANGED vars
    /\ UNCHANGED evidence

\* Pick returns a peer.
PickPeer(g) ==
    /\ PickPrimary(g) \/ PickBackup(g)
    /\ T!PickPeer(g)
    /\ UNCHANGED evidence

\* Pick is between the two groups.
TurnToBackups(g) ==
    /\ step[g] = "pick"
    /\ PrimaryExhausted(g) /\ pc'[g] = "backup"
    /\ UNCHANGED <<callVars, evidence>>

\* Pick returns nil.
PickNothing(g) ==
    /\ PrimaryExhausted(g) \/ BackupExhausted(g)
    /\ pc'[g] = "none"
    /\ T!NoPeerLeft(g)
    /\ UNCHANGED evidence

\* Mutant of ReplayFails: the peer is blamed for the caller's body.
ReplayFailsBlaming(g) ==
    /\ T!ReplayFails(g)
    /\ Done(g, "failed")
    /\ UNCHANGED evidence

ReplayFails(g) ==
    /\ T!ReplayFails(g)
    /\ Done(g, "neutral")
    /\ UNCHANGED evidence

\* Auxiliary: the result r of an attempt tells against the peer.  The caller was
\* still there, the RoundTripper kept its contract, the condition asks for another
\* peer, and it was an error or, unless the method forbids a retry, a status other
\* than 403/404.
blamed(g, r) ==
    /\ r \in config.nextUpstream
    /\ \/ r \in {"error", "both"} /\ ~ctxDone[g]
       \/ r \in {"ok", "bad"} /\ (request[g].idempotent \/ config.retryNonIdempotent)

\* The attempt is over and the balancer learns the verdict.
FinishAttempt(g, r, sent) ==
    /\ T!FinishAttempt(g, r, sent)
    /\ Done(g, verdicts'[g][Len(verdicts'[g])])
    /\ IF blamed(g, r)
       THEN /\ failures' = [failures EXCEPT ![peerOf[g]] = @ + 1]
            /\ failedAt' = [failedAt EXCEPT ![peerOf[g]] = now]
       ELSE UNCHANGED evidence

\* The call is over; with it the picker becomes garbage if it is still there.
CallerCloses(g) ==
    /\ T!CallerCloses(g)
    /\ IF pc[g] = "ready" THEN dismiss(g) ELSE UNCHANGED vars
    /\ UNCHANGED evidence

BalancedStep(g) ==
    \/ Local(g)
    \/ StartCall(g)
    \/ PickPeer(g)
    \/ TurnToBackups(g)
    \/ PickNothing(g)
    \/ ReplayFails(g)
    \/ \E o \in T!roundTripOutcomes : FinishAttempt(g, o[1], o[2])
    \/ CallerCloses(g)

\* All calls are done.
Quiet == (\A g \in Pickers : step[g] = "done") /\ UNCHANGED balancedVars

BalancedNext ==
    \/ \E g \in Pickers : BalancedStep(g)
    \/ Tick /\ UNCHANGED <<callVars, evidence>>
    \/ Quiet

BalancedSpec == BalancedInit /\ [][BalancedNext]_balancedVars

-------------------------------------------------------------------------------
(* Properties. *)

\* The health of a peer follows from what it did: the last failure the balancer
\* knows of is the last one that happened, it never counts more than there were,
\* and a weight is only reduced after one.  Cancellations, broken RoundTrippers,
\* bodies that cannot be replayed, 403/404 and blocked retries leave no trace, and
\* nothing does where there is but one server
\* (decideAttempt, doneNeutral, RRPicker.done).
HealthFollowsOutcomes ==
    \A p \in Peers :
        /\ accessed[p] = IF single THEN 0 ELSE failedAt[p]
        /\ fails[p] <= failures[p]
        /\ effectiveWeight[p] < Weight(p) => failures[p] > 0

\* The calls that are between Pick and Done with peer p.
inUse(p) == {h \in Pickers : step[h] \in {"picked", "inflight"} /\ peerOf[h] = p}

\* A call is refused a peer it did not have yet only for what other calls did, never
\* for what the balancer was left with: the peer is down, or failed max_fails times
\* and the last failure, or a probe still in flight, is at most fail_timeout old, or
\* there are max_conns calls at it now.  So it is with the primaries when Pick turns
\* to the backups, and with the last group when it returns nil, for which RoundTrip
\* gives up with ErrNoPeerAvailable or the last attempt's result (RRPicker.Pick; Done
\* and doneNeutral on every exit of RoundTrip).
RefusalsExplained ==
    [][\A g \in Pickers :
          step[g] = "pick" /\ pc'[g] \in {"backup", "none"} /\ pc'[g] # pc[g]
          => \A p \in (IF backupPhase[g] THEN Backup ELSE Primary) \ picked[g] :
                \/ Down(p)
                \/ /\ MaxFails(p) > 0 /\ failures[p] >= MaxFails(p)
                   /\ \/ now - failedAt[p] <= FailTimeout(p)
                      \/ \E h \in inUse(p) : now - pickedAt[h] <= FailTimeout(p)
                \/ MaxConns(p) > 0 /\ Cardinality(inUse(p)) >= MaxConns(p)]_balancedVars
===============================================================================
