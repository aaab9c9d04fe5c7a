----------------------- MODULE BalancedTransportProofs -----------------------
(***************************************************************************)
(* Proofs about RoundTrip on top of the round-robin picker                 *)
(* (BalancedTransport): what the balancer knows about its peers is what    *)
(* happened in the round trips, for every upstream, every Transport and    *)
(* any number of concurrent calls.                                         *)
(***************************************************************************)
EXTENDS BalancedTransport, RoundRobinProofs

-------------------------------------------------------------------------------
(* The verdict of an attempt. *)

results == {"ok", "denied", "bad", "error", "both", "neither", "nobody"}

\* What a RoundTripper may come back with.
LEMMA OutcomeResults ==
    ASSUME NEW o \in T!roundTripOutcomes
    PROVE  o[1] \in results /\ o[2] \in BOOLEAN
  <1>1. CASE o = <<"error", FALSE>>  BY <1>1 DEF results
  <1>2. CASE o \in {"ok", "denied", "bad", "error"} \X {TRUE}  BY <1>2 DEF results
  <1>3. CASE o \in T!Results \X BOOLEAN  BY <1>3 DEF T!Results, results
  <1> QED  BY <1>1, <1>2, <1>3 DEF T!roundTripOutcomes

\* The balancer is told of a failure exactly when the result tells against the peer.
LEMMA VerdictBlames ==
    ASSUME NEW g \in Pickers, NEW r \in results, NEW sent, T!FinishAttempt(g, r, sent),
           verdicts \in [Pickers -> Seq(Outcomes)]
    PROVE  \E v \in Outcomes : /\ verdicts' = [verdicts EXCEPT ![g] = Append(@, v)]
                               /\ verdicts'[g][Len(verdicts'[g])] = v
                               /\ v = "failed" <=> blamed(g, r)
  <1>1. PICK v \in Outcomes : /\ verdicts' = [verdicts EXCEPT ![g] = Append(verdicts[g], v)]
                              /\ v = "failed" <=> blamed(g, r)
    <2>1. CASE T!HasError(r) /\ ctxDone[g]
      <3>1. verdicts' = [verdicts EXCEPT ![g] = Append(verdicts[g], "neutral")]
        BY <2>1 DEF T!FinishAttempt
      <3>2. ~blamed(g, r)  BY <2>1 DEF blamed, T!HasError
      <3> QED  BY <3>1, <3>2 DEF Outcomes
    <2>2. CASE ~(T!HasError(r) /\ ctxDone[g])
      <3> DEFINE v == T!verdict(g, r, sent)
      <3>1. verdicts' = [verdicts EXCEPT ![g] = Append(verdicts[g], v)]
        BY <2>2 DEF T!FinishAttempt
      <3>2. v \in Outcomes  BY DEF T!verdict, Outcomes
      <3>3. v = "failed" <=> blamed(g, r)
        BY <2>2 DEF results, T!verdict, blamed, T!HasError, T!HasResponse, T!shouldRetry,
                    T!isRoundTripperContractError, T!blockedNonIdempotent, T!requestWasSent
      <3> QED  BY <3>1, <3>2, <3>3
    <2> QED  BY <2>1, <2>2
  <1>2. verdicts'[g] = Append(verdicts[g], v) /\ verdicts[g] \in Seq(Outcomes)  BY <1>1
  <1>3. verdicts'[g][Len(verdicts'[g])] = v  BY <1>2
  <1> QED  BY <1>1, <1>3

-------------------------------------------------------------------------------
(* Each step is one of the picker and one of the Transport. *)

\* A step of BalancedTransport is a step of the round-robin picker.
LEMMA PickerStep ==
    ASSUME verdicts \in [Pickers -> Seq(Outcomes)], [BalancedNext]_balancedVars
    PROVE  [Next]_vars
  <1>1. ASSUME NEW g \in Pickers, BalancedStep(g) PROVE [Next]_vars
    <2>1. CASE Local(g)  BY <2>1 DEF Local
    <2>2. CASE StartCall(g)  BY <2>2 DEF StartCall, Next
    <2>3. CASE PickPeer(g)  BY <2>3 DEF PickPeer, Next, Step
    <2>4. CASE TurnToBackups(g)  BY <2>4 DEF TurnToBackups, Next, Step
    <2>5. CASE PickNothing(g)  BY <2>5 DEF PickNothing, Next, Step
    <2>6. CASE ReplayFails(g)  BY <2>6 DEF ReplayFails, Next, Step, Outcomes
    <2>7. ASSUME NEW o \in T!roundTripOutcomes, FinishAttempt(g, o[1], o[2]) PROVE [Next]_vars
      <3>1. o[1] \in results /\ T!FinishAttempt(g, o[1], o[2])
        BY <2>7, OutcomeResults DEF FinishAttempt
      <3>2. verdicts'[g][Len(verdicts'[g])] \in Outcomes  BY <3>1, VerdictBlames
      <3> QED  BY <2>7, <3>2 DEF FinishAttempt, Next, Step
    <2>8. CASE CallerCloses(g)  BY <2>8 DEF CallerCloses, Next, Finish
    <2> QED  BY <1>1, <2>1, <2>2, <2>3, <2>4, <2>5, <2>6, <2>7, <2>8 DEF BalancedStep
  <1>2. CASE Tick  BY <1>2 DEF Next
  <1>3. CASE UNCHANGED balancedVars  BY <1>3 DEF balancedVars
  <1> QED  BY <1>1, <1>2, <1>3 DEF BalancedNext, Quiet

\* And it is a step of the Transport, for which the picker is any that keeps the
\* contract.
LEMMA TransportStep ==
    ASSUME [BalancedNext]_balancedVars PROVE [T!Next]_(T!vars)
  <1> DEFINE same == UNCHANGED <<config, step, request, ctxDone, mode, source, tempFile, drained,
                                 attempts, verdicts, openBodies, openCtxs, lastResp, lastErr,
                                 result, lateStarts, givenTo, peerOf>>
  <1>0. same => UNCHANGED T!vars
    BY DEF T!vars, T!pickerVars, T!bodyVars, T!respVars
  <1> HIDE DEF same
  <1>1. ASSUME NEW g \in Pickers, BalancedStep(g) PROVE [T!Next]_(T!vars)
    <2>1. CASE Local(g)  BY <2>1 DEF Local, T!Next, T!Step
    <2>2. CASE StartCall(g)  BY <2>2 DEF StartCall, T!Next, T!Step
    <2>3. CASE PickPeer(g)  BY <2>3 DEF PickPeer, T!Next, T!Step
    <2>4. CASE TurnToBackups(g)
      <3>1. UNCHANGED peerOf  BY <2>4 DEF TurnToBackups, PrimaryExhausted, dismiss
      <3>2. same  BY <2>4, <3>1 DEF TurnToBackups, callVars, same
      <3> QED  BY <1>0, <3>2
    <2>5. CASE PickNothing(g)  BY <2>5 DEF PickNothing, T!Next, T!Step
    <2>6. CASE ReplayFails(g)  BY <2>6 DEF ReplayFails, T!Next, T!Step
    <2>7. ASSUME NEW o \in T!roundTripOutcomes, FinishAttempt(g, o[1], o[2])
          PROVE  [T!Next]_(T!vars)
      BY <2>7 DEF FinishAttempt, T!Next, T!Step
    <2>8. CASE CallerCloses(g)  BY <2>8 DEF CallerCloses, T!Next
    <2> QED  BY <1>1, <2>1, <2>2, <2>3, <2>4, <2>5, <2>6, <2>7, <2>8 DEF BalancedStep
  <1>2. CASE Tick /\ UNCHANGED callVars
    <2>1. same  BY <1>2 DEF Tick, callVars, same
    <2> QED  BY <1>0, <2>1
  <1>3. CASE UNCHANGED balancedVars
    <2>1. same  BY <1>3 DEF balancedVars, vars, callVars, same
    <2> QED  BY <1>0, <2>1
  <1> QED  BY <1>1, <1>2, <1>3 DEF BalancedNext, Quiet

-------------------------------------------------------------------------------
(* The inductive invariant. *)

steps == {"idle", "start", "passing", "prepare", "loop", "pick", "picked", "inflight",
          "returned", "done"}

\* Where the calls are, and the verdicts so far.
CallTypes == step \in [Pickers -> steps] /\ verdicts \in [Pickers -> Seq(Outcomes)]

\* The picker has tried what it gave out and nothing else, and a peer is in hand
\* only between Pick and Done.
CallPart(g) ==
    /\ tried[g] = picked[g]
    /\ peerOf[g] # NoPeer => step[g] \in {"picked", "inflight"}

EvidenceTypes == failures \in [Peers -> Nat] /\ failedAt \in [Peers -> Nat]

BInv ==
    /\ Inv
    /\ CallTypes
    /\ \A g \in Pickers : CallPart(g)
    /\ EvidenceTypes
    /\ HealthFollowsOutcomes

\* The combined invariant holds initially.
LEMMA CombinedInit == BalancedInit => BInv
  <1> SUFFICES ASSUME BalancedInit PROVE BInv  OBVIOUS
  <1>1. Inv  BY InitInv DEF BalancedInit
  <1>2. CallTypes  BY DEF BalancedInit, T!Init, CallTypes, steps
  <1>3. ASSUME NEW g \in Pickers PROVE CallPart(g)
    BY DEF BalancedInit, Init, T!Init, CallPart
  <1>4. EvidenceTypes  BY DEF BalancedInit, EvidenceTypes
  <1>5. HealthFollowsOutcomes
    BY ConfigTypes DEF BalancedInit, Init, HealthFollowsOutcomes
  <1> QED  BY <1>1, <1>2, <1>3, <1>4, <1>5 DEF BInv

-------------------------------------------------------------------------------
(* The health of the peers. *)

\* A step without a Done records nothing; it may only restore weights.
LEMMA PickerHealth ==
    ASSUME TypeOK, HoldInv,
           \/ Passive
           \/ \E g \in Pickers : PickPrimary(g) \/ PickBackup(g)
    PROVE  /\ UNCHANGED <<fails, accessed>>
           /\ \A p \in Peers : effectiveWeight[p] <= effectiveWeight'[p]
  <1>0. \A p \in Peers : effectiveWeight[p] \in Nat  BY DEF TypeOK
  <1>1. CASE Passive
    <2>1. UNCHANGED <<fails, accessed, effectiveWeight>>
      BY <1>1 DEF Passive, NewPicker, Finish, PrimaryExhausted, BackupExhausted, dismiss, Tick,
                  vars, weightVars, healthVars
    <2> QED  BY <1>0, <2>1
  <1>2. ASSUME NEW g \in Pickers, PickPrimary(g) \/ PickBackup(g)
        PROVE  /\ UNCHANGED <<fails, accessed>>
               /\ \A p \in Peers : effectiveWeight[p] <= effectiveWeight'[p]
    <2>1. PICK G \in {Primary, Backup} : pickFromGroup(g, G)
      BY <1>2 DEF PickPrimary, PickBackup
    <2>2. UNCHANGED <<fails, accessed>>
      BY <2>1 DEF pickFromGroup, healthVars, commitPeer
    <2>3. \/ effectiveWeight' = effectiveWeight
          \/ \E E : effectiveWeight' =
                [p \in Peers |-> IF p \in E /\ effectiveWeight[p] < Weight(p)
                                 THEN effectiveWeight[p] + 1 ELSE effectiveWeight[p]]
      BY <2>1 DEF pickFromGroup, weightVars, smoothWeightedPeer
    <2> QED  BY <1>0, <2>2, <2>3
  <1> QED  BY <1>1, <1>2

\* A Done records at most one failure, of the peer that is released, and only for
\* the verdict "failed" in a group that has more than one peer.
LEMMA DoneHealth ==
    ASSUME TypeOK, HoldInv, NEW g \in Pickers, NEW outcome \in Outcomes, Done(g, outcome)
    PROVE  /\ peerOf[g] \in Peers
           /\ \A q \in Peers : fails'[q] \in Nat
           /\ outcome = "failed" /\ ~single =>
                 /\ accessed' = [accessed EXCEPT ![peerOf[g]] = now]
                 /\ fails' = [fails EXCEPT ![peerOf[g]] = @ + 1]
                 /\ \A q \in Peers \ {peerOf[g]} : effectiveWeight'[q] = effectiveWeight[q]
           /\ outcome # "failed" \/ single =>
                 /\ UNCHANGED <<accessed, effectiveWeight>>
                 /\ \A q \in Peers : fails'[q] <= fails[q]
  <1> DEFINE p == peerOf[g]
  <1>1. p \in Peers  BY DEF Done, TypeOK, HoldInv
  <1>2. fails \in [Peers -> Nat] /\ accessed \in [Peers -> Nat] /\ effectiveWeight \in [Peers -> Nat]
    BY DEF TypeOK
  <1> HIDE DEF p
  <1>3. CASE single
    <2>1. fails' = [fails EXCEPT ![p] = 0] /\ UNCHANGED <<accessed, effectiveWeight>>
      BY <1>3 DEF Done, weightVars, p
    <2> QED  BY <1>1, <1>2, <1>3, <2>1 DEF p
  <1>4. CASE ~single /\ outcome = "failed"
    <2>1. recordFailure(p)  BY <1>4 DEF Done, p
    <2>2. \A q \in Peers \ {p} : effectiveWeight'[q] = effectiveWeight[q]
      BY <1>2, <2>1 DEF recordFailure
    <2>3. fails' = [fails EXCEPT ![p] = @ + 1] /\ accessed' = [accessed EXCEPT ![p] = now]
      BY <2>1 DEF recordFailure
    <2> QED  BY <1>1, <1>2, <1>4, <2>2, <2>3 DEF p
  <1>5. CASE ~single /\ outcome # "failed"
    <2>1. recordSuccess(p) \/ recordNothing(g, p)  BY <1>5 DEF Done, p
    <2>2. UNCHANGED <<accessed, effectiveWeight>> /\ fails' \in {fails, [fails EXCEPT ![p] = 0]}
      BY <2>1 DEF recordSuccess, recordNothing, weightVars
    <2> QED  BY <1>1, <1>2, <1>5, <2>2 DEF p
  <1> QED  BY <1>3, <1>4, <1>5

\* What was known stays true when nothing is recorded.
LEMMA HealthKept ==
    ASSUME TypeOK, HealthFollowsOutcomes, EvidenceTypes, UNCHANGED <<accessed, evidence>>,
           \A p \in Peers : /\ fails'[p] \in Nat /\ fails'[p] <= fails[p]
                            /\ effectiveWeight'[p] \in Nat
                            /\ effectiveWeight[p] <= effectiveWeight'[p]
    PROVE  HealthFollowsOutcomes'
  <1> SUFFICES ASSUME NEW p \in Peers
               PROVE  /\ accessed'[p] = IF single THEN 0 ELSE failedAt'[p]
                      /\ fails'[p] <= failures'[p]
                      /\ effectiveWeight'[p] < Weight(p) => failures'[p] > 0
    BY DEF HealthFollowsOutcomes
  <1>1. fails[p] \in Nat /\ effectiveWeight[p] \in Nat /\ failures[p] \in Nat /\ Weight(p) \in Nat
    BY ConfigTypes DEF TypeOK, EvidenceTypes
  <1>2. UNCHANGED <<failures, failedAt>>  BY DEF evidence
  <1>3. /\ accessed[p] = IF single THEN 0 ELSE failedAt[p]
        /\ fails[p] <= failures[p]
        /\ effectiveWeight[p] < Weight(p) => failures[p] > 0
    BY DEF HealthFollowsOutcomes
  <1> QED  BY <1>1, <1>2, <1>3

\* The end of an attempt: what is recorded is the evidence.
LEMMA HealthFinish ==
    ASSUME BInv, TypeOK', NEW g \in Pickers, NEW r \in results, NEW sent, FinishAttempt(g, r, sent)
    PROVE  HealthFollowsOutcomes' /\ EvidenceTypes'
  <1> DEFINE p == peerOf[g]
  <1>1. TypeOK /\ HoldInv /\ verdicts \in [Pickers -> Seq(Outcomes)]  BY DEF BInv, Inv, CallTypes
  <1>2. PICK v \in Outcomes : Done(g, v) /\ (v = "failed" <=> blamed(g, r))
    <2>1. PICK v \in Outcomes : /\ verdicts'[g][Len(verdicts'[g])] = v
                                /\ v = "failed" <=> blamed(g, r)
      BY <1>1, VerdictBlames DEF FinishAttempt
    <2>2. Done(g, v)  BY <2>1 DEF FinishAttempt
    <2> QED  BY <2>1, <2>2
  <1>3. p \in Peers /\ \A q \in Peers : fails'[q] \in Nat /\ fails[q] \in Nat
    BY <1>1, <1>2, DoneHealth DEF TypeOK
  <1>4. \A q \in Peers : effectiveWeight[q] \in Nat /\ effectiveWeight'[q] \in Nat /\ Weight(q) \in Nat
    BY <1>1, ConfigTypes DEF TypeOK
  <1>5. \A q \in Peers : /\ failures[q] \in Nat
                         /\ accessed[q] = IF single THEN 0 ELSE failedAt[q]
                         /\ fails[q] <= failures[q]
                         /\ effectiveWeight[q] < Weight(q) => failures[q] > 0
    BY DEF BInv, EvidenceTypes, HealthFollowsOutcomes
  <1>6. CASE ~blamed(g, r)
    <2>1. UNCHANGED evidence  BY <1>6 DEF FinishAttempt
    <2>2. UNCHANGED <<accessed, effectiveWeight>> /\ \A q \in Peers : fails'[q] <= fails[q]
      BY <1>1, <1>2, <1>6, DoneHealth
    <2>3. HealthFollowsOutcomes'  BY <1>1, <1>3, <1>4, <2>1, <2>2, HealthKept DEF BInv
    <2> QED  BY <2>1, <2>3 DEF BInv, EvidenceTypes, evidence
  <1>7. CASE blamed(g, r)
    <2>1. /\ failures' = [failures EXCEPT ![p] = @ + 1]
          /\ failedAt' = [failedAt EXCEPT ![p] = now]
      BY <1>7 DEF FinishAttempt
    <2>2. EvidenceTypes'
      <3>1. now \in Nat  BY <1>1 DEF TypeOK
      <3> HIDE DEF p
      <3>2. failures[p] + 1 \in Nat  BY <1>3, <1>5
      <3> QED  BY <1>3, <2>1, <3>1, <3>2 DEF BInv, EvidenceTypes
    <2>3. /\ failures'[p] = failures[p] + 1 /\ failedAt'[p] = now
          /\ \A q \in Peers \ {p} : failures'[q] = failures[q] /\ failedAt'[q] = failedAt[q]
      BY <1>3, <2>1 DEF BInv, EvidenceTypes
    <2>4. CASE single
      <3>1. UNCHANGED <<accessed, effectiveWeight>> /\ \A q \in Peers : fails'[q] <= fails[q]
        BY <1>1, <1>2, <2>4, DoneHealth
      <3>2. ASSUME NEW q \in Peers
            PROVE  /\ accessed'[q] = 0 /\ fails'[q] <= failures'[q]
                   /\ effectiveWeight'[q] < Weight(q) => failures'[q] > 0
        BY <1>3, <1>4, <1>5, <2>3, <2>4, <3>1
      <3> QED  BY <2>2, <2>4, <3>2 DEF HealthFollowsOutcomes
    <2>5. CASE ~single
      <3>1. /\ accessed' = [accessed EXCEPT ![p] = now]
            /\ fails' = [fails EXCEPT ![p] = @ + 1]
            /\ \A q \in Peers \ {p} : effectiveWeight'[q] = effectiveWeight[q]
        BY <1>1, <1>2, <1>7, <2>5, DoneHealth
      <3>2. /\ accessed'[p] = now /\ fails'[p] = fails[p] + 1
            /\ \A q \in Peers \ {p} : accessed'[q] = accessed[q] /\ fails'[q] = fails[q]
        BY <1>1, <1>3, <3>1 DEF TypeOK
      <3> HIDE DEF p
      <3>3. ASSUME NEW q \in Peers
            PROVE  /\ accessed'[q] = failedAt'[q] /\ fails'[q] <= failures'[q]
                   /\ effectiveWeight'[q] < Weight(q) => failures'[q] > 0
        <4>1. CASE q = p  BY <1>3, <1>5, <2>3, <3>2, <4>1
        <4>2. CASE q # p  BY <1>5, <2>3, <2>5, <3>1, <3>2, <4>2
        <4> QED  BY <4>1, <4>2
      <3> QED  BY <2>2, <2>5, <3>3 DEF HealthFollowsOutcomes
    <2> QED  BY <2>4, <2>5
  <1> QED  BY <1>6, <1>7

-------------------------------------------------------------------------------
(* The calls. *)

\* A call moves on: what the other calls have is left alone.
LEMMA MoveCall ==
    ASSUME BInv, NEW g \in Pickers, NEW l \in steps,
           step' = [step EXCEPT ![g] = l],
           verdicts' \in [Pickers -> Seq(Outcomes)],
           tried'[g] = picked'[g],
           peerOf'[g] # NoPeer => l \in {"picked", "inflight"},
           \A h \in Pickers \ {g} : /\ tried'[h] = tried[h] /\ picked'[h] = picked[h]
                                    /\ peerOf'[h] = peerOf[h]
    PROVE  CallTypes' /\ \A h \in Pickers : CallPart(h)'
  <1>1. CallTypes'  BY DEF BInv, CallTypes
  <1>2. step'[g] = l /\ \A h \in Pickers \ {g} : step'[h] = step[h]  BY DEF BInv, CallTypes
  <1>3. ASSUME NEW h \in Pickers \ {g} PROVE CallPart(h)'  BY <1>2 DEF BInv, CallPart
  <1>4. CallPart(g)'  BY <1>2 DEF CallPart
  <1> QED  BY <1>1, <1>3, <1>4

\* The steps that leave the balancer alone: of those only the start of an attempt
\* is between Pick and Done.
LEMMA LocalCalls ==
    ASSUME BInv, NEW g \in Pickers, Local(g)
    PROVE  CallTypes' /\ \A h \in Pickers : CallPart(h)'
  <1>1. UNCHANGED <<tried, picked, peerOf, verdicts>>
    BY DEF Local, vars, auxVars, T!Begin, T!Cancel, T!PassThrough, T!prepareBody,
           T!prepareBodyFails, T!CheckContext, T!StartAttempt
  <1>2. CallTypes /\ CallPart(g)  BY DEF BInv
  <1>3. \/ UNCHANGED step
        \/ \E l \in steps : /\ step' = [step EXCEPT ![g] = l]
                            /\ l = "inflight" \/ step[g] \notin {"picked", "inflight"}
    <2> USE DEF T!goto, T!return, steps
    <2>1. CASE T!Begin(g)  BY <2>1 DEF T!Begin
    <2>2. CASE T!Cancel(g)  BY <2>2 DEF T!Cancel
    <2>3. ASSUME NEW r, T!PassThrough(g, r)
          PROVE  step[g] = "passing" /\ step' = [step EXCEPT ![g] = "returned"]
      BY <2>3 DEF T!PassThrough
    <2>4. CASE T!prepareBody(g)  BY <2>4 DEF T!prepareBody
    <2>5. CASE T!prepareBodyFails(g)  BY <2>5 DEF T!prepareBodyFails
    <2>6. CASE T!CheckContext(g)  BY <2>6 DEF T!CheckContext
    <2>7. CASE T!StartAttempt(g)  BY <2>7 DEF T!StartAttempt
    <2> QED  BY <2>1, <2>2, <2>3, <2>4, <2>5, <2>6, <2>7 DEF Local
  <1>4. CASE UNCHANGED step  BY <1>1, <1>4 DEF BInv, CallTypes, CallPart
  <1>5. ASSUME NEW l \in steps, step' = [step EXCEPT ![g] = l],
               l = "inflight" \/ step[g] \notin {"picked", "inflight"}
        PROVE  CallTypes' /\ \A h \in Pickers : CallPart(h)'
    <2>1. peerOf'[g] # NoPeer => l \in {"picked", "inflight"}  BY <1>1, <1>2, <1>5 DEF CallPart
    <2>2. tried'[g] = picked'[g]  BY <1>1, <1>2 DEF CallPart
    <2> QED  BY <1>1, <1>2, <1>5, <2>1, <2>2, MoveCall DEF CallTypes
  <1> QED  BY <1>3, <1>4, <1>5

\* A call that starts has no peer in hand.
LEMMA StartCalls ==
    ASSUME BInv, NEW g \in Pickers, StartCall(g)
    PROVE  CallTypes' /\ \A h \in Pickers : CallPart(h)'
  <1>1. UNCHANGED <<tried, picked, peerOf, verdicts>> /\ step[g] = "start"
    BY DEF StartCall, T!Start, NewPicker, vars, auxVars
  <1>2. PICK l \in steps : step' = [step EXCEPT ![g] = l]
    BY DEF StartCall, T!Start, T!failRoundTrip, T!return, T!goto, steps
  <1>3. tried[g] = picked[g] /\ peerOf[g] = NoPeer /\ verdicts \in [Pickers -> Seq(Outcomes)]
    BY <1>1 DEF BInv, CallPart, CallTypes
  <1> QED  BY <1>1, <1>2, <1>3, MoveCall

\* Pick marks the peer it returns as tried.
LEMMA PickCalls ==
    ASSUME BInv, NEW g \in Pickers, PickPeer(g)
    PROVE  CallTypes' /\ \A h \in Pickers : CallPart(h)'
  <1>1. PICK p \in Peers : take(g, p)  BY PickCases DEF PickPeer, BInv, Inv
  <1>2. step' = [step EXCEPT ![g] = "picked"] /\ UNCHANGED verdicts
    BY DEF PickPeer, T!PickPeer, T!goto
  <1>3. /\ tried'[g] = tried[g] \cup {p} /\ picked'[g] = picked[g] \cup {p}
        /\ \A h \in Pickers \ {g} : /\ tried'[h] = tried[h] /\ picked'[h] = picked[h]
                                    /\ peerOf'[h] = peerOf[h]
    BY <1>1 DEF take, BInv, Inv, TypeOK
  <1>4. tried'[g] = picked'[g]  BY <1>3 DEF BInv, CallPart
  <1>5. "picked" \in steps /\ verdicts \in [Pickers -> Seq(Outcomes)]
    BY DEF BInv, CallTypes, steps
  <1> QED  BY <1>2, <1>3, <1>4, <1>5, MoveCall

\* Going to the backups clears only their marks, and none has any yet.
LEMMA TurnCalls ==
    ASSUME BInv, NEW g \in Pickers, TurnToBackups(g)
    PROVE  CallTypes' /\ \A h \in Pickers : CallPart(h)'
  <1>1. UNCHANGED <<step, verdicts>>  BY DEF TurnToBackups, callVars
  <1>2. /\ ~backupPhase[g] /\ UNCHANGED <<picked, peerOf>>
        /\ tried' = [tried EXCEPT ![g] = @ \ Backup]
    <2>1. pc'[g] = "backup" /\ PrimaryExhausted(g)  BY DEF TurnToBackups
    <2>2. Backup # {}
      <3> SUFFICES ASSUME Backup = {} PROVE FALSE  OBVIOUS
      <3>1. pc'[g] = "none"  BY <2>1 DEF PrimaryExhausted, dismiss, BInv, Inv, TypeOK
      <3> QED  BY <2>1, <3>1
    <2> QED  BY <2>1, <2>2 DEF PrimaryExhausted, auxVars
  <1>3. picked[g] \cap Backup = {} /\ tried[g] = picked[g]  BY <1>2 DEF BInv, Inv, HoldInv, CallPart
  <1>4. \A h \in Pickers : tried'[h] = tried[h]  BY <1>2, <1>3 DEF BInv, Inv, TypeOK
  <1> QED  BY <1>1, <1>2, <1>4 DEF BInv, CallTypes, CallPart

\* What dismiss does to tried, picked and the peer in hand.
LEMMA DismissCalls ==
    ASSUME TypeOK, NEW g \in Pickers, dismiss(g)
    PROVE  /\ tried'[g] = {} /\ picked'[g] = {} /\ UNCHANGED peerOf
           /\ \A h \in Pickers \ {g} : tried'[h] = tried[h] /\ picked'[h] = picked[h]
  BY DEF TypeOK, dismiss

\* A call that gets no peer drops its picker.
LEMMA NothingDismisses ==
    ASSUME TypeOK, NEW g \in Pickers, PickNothing(g)
    PROVE  dismiss(g)
  <1>1. CASE BackupExhausted(g)  BY <1>1 DEF BackupExhausted
  <1>2. CASE PrimaryExhausted(g)
    <2>1. Backup # {} => pc'[g] = "backup"  BY <1>2 DEF PrimaryExhausted, TypeOK
    <2>2. Backup = {}  BY <2>1 DEF PickNothing
    <2> QED  BY <1>2, <2>2 DEF PrimaryExhausted
  <1> QED  BY <1>1, <1>2 DEF PickNothing

\* A call that gets no peer has none in hand.
LEMMA NothingCalls ==
    ASSUME BInv, NEW g \in Pickers, PickNothing(g)
    PROVE  CallTypes' /\ \A h \in Pickers : CallPart(h)'
  <1>1. dismiss(g) /\ TypeOK  BY NothingDismisses DEF BInv, Inv
  <1>2. /\ step[g] = "pick" /\ UNCHANGED verdicts
        /\ step' = [step EXCEPT ![g] = "returned"]
    BY DEF PickNothing, T!NoPeerLeft, T!return, T!goto
  <1>3. peerOf[g] = NoPeer /\ verdicts \in [Pickers -> Seq(Outcomes)] /\ "returned" \in steps
    BY <1>2 DEF BInv, CallPart, CallTypes, steps
  <1> QED  BY <1>1, <1>2, <1>3, DismissCalls, MoveCall

\* Done takes the peer out of the call's hand.
LEMMA DoneCalls ==
    ASSUME BInv, NEW g \in Pickers, NEW v, Done(g, v), NEW l \in steps,
           step' = [step EXCEPT ![g] = l], verdicts' \in [Pickers -> Seq(Outcomes)]
    PROVE  CallTypes' /\ \A h \in Pickers : CallPart(h)'
  <1>1. UNCHANGED <<tried, picked>> /\ peerOf' = [peerOf EXCEPT ![g] = NoPeer]  BY DEF Done
  <1>2. tried[g] = picked[g] /\ peerOf \in [Pickers -> Peers \cup {NoPeer}]
    BY DEF BInv, CallPart, Inv, TypeOK
  <1> QED  BY <1>1, <1>2, MoveCall

\* So it is when the body cannot be replayed.
LEMMA ReplayCalls ==
    ASSUME BInv, NEW g \in Pickers, ReplayFails(g)
    PROVE  CallTypes' /\ \A h \in Pickers : CallPart(h)'
  <1>1. Done(g, "neutral") /\ UNCHANGED verdicts /\ step' = [step EXCEPT ![g] = "returned"]
    BY DEF ReplayFails, T!ReplayFails, T!return, T!goto
  <1>2. verdicts \in [Pickers -> Seq(Outcomes)] /\ "returned" \in steps
    BY DEF BInv, CallTypes, steps
  <1> QED  BY <1>1, <1>2, DoneCalls

\* And when an attempt is over, whether the call returns or goes on.
LEMMA FinishCalls ==
    ASSUME BInv, NEW g \in Pickers, NEW o \in T!roundTripOutcomes, FinishAttempt(g, o[1], o[2])
    PROVE  CallTypes' /\ \A h \in Pickers : CallPart(h)'
  <1> DEFINE r == o[1]
  <1>0. /\ T!FinishAttempt(g, r, o[2]) /\ r \in results
        /\ verdicts \in [Pickers -> Seq(Outcomes)]
    BY OutcomeResults DEF FinishAttempt, BInv, CallTypes
  <1> HIDE DEF r
  <1>1. PICK outcome : Done(g, outcome)  BY DEF FinishAttempt
  <1>2. verdicts' \in [Pickers -> Seq(Outcomes)]
    <2>1. PICK v \in Outcomes : verdicts' = [verdicts EXCEPT ![g] = Append(verdicts[g], v)]
      BY <1>0, VerdictBlames
    <2>2. Append(verdicts[g], v) \in Seq(Outcomes)  BY <1>0
    <2> QED  BY <1>0, <2>1, <2>2
  <1>3. PICK l \in {"returned", "loop"} : step' = [step EXCEPT ![g] = l]
    BY <1>0 DEF T!FinishAttempt, T!return, T!goto
  <1> QED  BY <1>1, <1>2, <1>3, DoneCalls DEF steps

\* A call that is over has no peer in hand.
LEMMA CloseCalls ==
    ASSUME BInv, NEW g \in Pickers, CallerCloses(g)
    PROVE  CallTypes' /\ \A h \in Pickers : CallPart(h)'
  <1>1. /\ step[g] = "returned" /\ UNCHANGED verdicts
        /\ step' = [step EXCEPT ![g] = "done"]
    BY DEF CallerCloses, T!CallerCloses, T!goto
  <1>2. /\ TypeOK /\ tried[g] = picked[g] /\ peerOf[g] = NoPeer
        /\ verdicts \in [Pickers -> Seq(Outcomes)] /\ "done" \in steps
    BY <1>1 DEF BInv, Inv, CallPart, CallTypes, steps
  <1>3. /\ tried'[g] = picked'[g] /\ UNCHANGED peerOf
        /\ \A h \in Pickers \ {g} : tried'[h] = tried[h] /\ picked'[h] = picked[h]
    <2>1. CASE dismiss(g)  BY <1>2, <2>1, DismissCalls
    <2>2. CASE UNCHANGED vars  BY <1>2, <2>2 DEF vars, auxVars
    <2> QED  BY <2>1, <2>2 DEF CallerCloses
  <1> QED  BY <1>1, <1>2, <1>3, MoveCall

-------------------------------------------------------------------------------
(* Every step. *)

\* Every step keeps the parts of all calls.
LEMMA CallStep ==
    ASSUME BInv, [BalancedNext]_balancedVars
    PROVE  CallTypes' /\ \A h \in Pickers : CallPart(h)'
  <1>1. ASSUME NEW g \in Pickers, BalancedStep(g)
        PROVE  CallTypes' /\ \A h \in Pickers : CallPart(h)'
    BY <1>1, LocalCalls, StartCalls, PickCalls, TurnCalls, NothingCalls, ReplayCalls, FinishCalls,
       CloseCalls DEF BalancedStep
  <1>2. CASE UNCHANGED <<tried, picked, peerOf, step, verdicts>>
    BY <1>2 DEF BInv, CallTypes, CallPart
  <1>3. Tick /\ UNCHANGED <<callVars, evidence>>
        => UNCHANGED <<tried, picked, peerOf, step, verdicts>>
    BY DEF Tick, callVars, auxVars
  <1>4. UNCHANGED balancedVars
        => UNCHANGED <<tried, picked, peerOf, step, verdicts>>
    BY DEF balancedVars, callVars, vars, auxVars
  <1> QED  BY <1>1, <1>2, <1>3, <1>4 DEF BalancedNext, Quiet

\* Every step keeps the health of the peers in accordance with the verdicts.
LEMMA OutcomeStep ==
    ASSUME BInv, TypeOK', [BalancedNext]_balancedVars
    PROVE  HealthFollowsOutcomes' /\ EvidenceTypes'
  <1>0. /\ TypeOK /\ HoldInv /\ HealthFollowsOutcomes /\ EvidenceTypes
        /\ \A p \in Peers : /\ fails[p] \in Nat /\ fails'[p] \in Nat
                            /\ effectiveWeight[p] \in Nat /\ effectiveWeight'[p] \in Nat
    BY DEF BInv, Inv, TypeOK
  <1>1. CASE UNCHANGED evidence /\ \/ Passive
                                   \/ \E g \in Pickers : PickPrimary(g) \/ PickBackup(g)
    <2>1. /\ UNCHANGED <<fails, accessed>>
          /\ \A p \in Peers : effectiveWeight[p] <= effectiveWeight'[p]
      BY <1>0, <1>1, PickerHealth
    <2>2. HealthFollowsOutcomes'  BY <1>0, <1>1, <2>1, HealthKept
    <2> QED  BY <1>0, <1>1, <2>2 DEF EvidenceTypes, evidence
  <1>2. ASSUME NEW g \in Pickers, ReplayFails(g) PROVE HealthFollowsOutcomes' /\ EvidenceTypes'
    <2>1. Done(g, "neutral") /\ UNCHANGED evidence  BY <1>2 DEF ReplayFails
    <2>2. UNCHANGED <<accessed, effectiveWeight>> /\ \A p \in Peers : fails'[p] <= fails[p]
      BY <1>0, <2>1, DoneHealth DEF Outcomes
    <2>3. HealthFollowsOutcomes'  BY <1>0, <2>1, <2>2, HealthKept
    <2> QED  BY <1>0, <2>1, <2>3 DEF EvidenceTypes, evidence
  <1>3. ASSUME NEW g \in Pickers, NEW o \in T!roundTripOutcomes, FinishAttempt(g, o[1], o[2])
        PROVE  HealthFollowsOutcomes' /\ EvidenceTypes'
    BY <1>3, HealthFinish, OutcomeResults
  <1>4. ASSUME NEW g \in Pickers, BalancedStep(g), ~ReplayFails(g),
               ~\E o \in T!roundTripOutcomes : FinishAttempt(g, o[1], o[2])
        PROVE  UNCHANGED evidence /\ (Passive \/ PickPrimary(g) \/ PickBackup(g))
    <2>1. CASE Local(g)  BY <2>1 DEF Local, Passive
    <2>2. CASE StartCall(g)  BY <2>2 DEF StartCall, Passive
    <2>3. CASE PickPeer(g)  BY <2>3 DEF PickPeer
    <2>4. CASE TurnToBackups(g)  BY <2>4 DEF TurnToBackups, Passive
    <2>5. CASE PickNothing(g)  BY <2>5 DEF PickNothing, Passive
    <2>6. CASE CallerCloses(g)  BY <2>6 DEF CallerCloses, Passive, Finish
    <2> QED  BY <1>4, <2>1, <2>2, <2>3, <2>4, <2>5, <2>6 DEF BalancedStep
  <1>5. (Tick /\ UNCHANGED <<callVars, evidence>>) \/ UNCHANGED balancedVars
        => UNCHANGED evidence /\ Passive
    BY DEF Passive, balancedVars
  <1> QED  BY <1>1, <1>2, <1>3, <1>4, <1>5 DEF BalancedNext, Quiet

\* Every reachable state of BalancedTransport satisfies BInv.
THEOREM CombinedInvariance == BalancedSpec => []BInv
  <1>1. BInv /\ [BalancedNext]_balancedVars => BInv'
    <2> SUFFICES ASSUME BInv, [BalancedNext]_balancedVars PROVE BInv'  OBVIOUS
    <2>1. [Next]_vars  BY PickerStep DEF BInv, CallTypes
    <2>2. Inv'  BY <2>1, TypeStep, HoldStep, RecoveryStep DEF BInv, Inv
    <2>3. HealthFollowsOutcomes' /\ EvidenceTypes'  BY <2>2, OutcomeStep DEF Inv
    <2> QED  BY <2>2, <2>3, CallStep DEF BInv
  <1> QED  BY CombinedInit, <1>1, PTL DEF BalancedSpec

\* The health the balancer attributes to a peer is what its attempts did
\* (decideAttempt, doneNeutral, RRPicker.done).
THEOREM OutcomesDecideHealth == BalancedSpec => []HealthFollowsOutcomes
  <1>1. BInv => HealthFollowsOutcomes  BY DEF BInv
  <1> QED  BY <1>1, CombinedInvariance, PTL

\* The composition is the round-robin picker and the Transport: each of its
\* behaviours is one of either, so that all that is proved of them holds together
\* (RoundTrip uses no more of a Picker than Pick and Done).
THEOREM Composition == BalancedSpec => Spec /\ T!Spec
  <1>1. BInv /\ [BalancedNext]_balancedVars => [Next]_vars
    BY PickerStep DEF BInv, CallTypes
  <1>2. [BalancedNext]_balancedVars => [T!Next]_(T!vars)  BY TransportStep
  <1>3. BalancedInit => Init /\ T!Init  BY DEF BalancedInit
  <1> QED  BY <1>1, <1>2, <1>3, CombinedInvariance, PTL DEF BalancedSpec, Spec, T!Spec

-------------------------------------------------------------------------------
(* Refusals. *)

\* The calls at a peer are the requests that hold it.
LEMMA InUseHolds == ASSUME BInv, NEW p \in Peers PROVE inUse(p) = Holders(p)
  <1>1. \A h \in Pickers : peerOf[h] = p => pc[h] = "busy" /\ step[h] \in {"picked", "inflight"}
    BY PeersNat DEF BInv, Inv, HoldInv, CallPart
  <1> QED  BY <1>1 DEF inUse, Holders

\* What keeps a peer from a call that did not have it yet: it is down, or suspended
\* for a failure or a call in flight, or taken by as many calls as it allows.
LEMMA PeerRefused ==
    ASSUME BInv, ConnsMatchHolders, NEW g \in Pickers, NEW G \in SUBSET Peers,
           Selectable(g, G, now) = {}, NEW p \in G \ picked[g]
    PROVE  \/ Down(p)
           \/ /\ MaxFails(p) > 0 /\ failures[p] >= MaxFails(p)
              /\ \/ now - failedAt[p] <= FailTimeout(p)
                 \/ \E h \in inUse(p) : now - pickedAt[h] <= FailTimeout(p)
           \/ MaxConns(p) > 0 /\ Cardinality(inUse(p)) >= MaxConns(p)
  <1>1. p \notin tried[g] /\ inUse(p) = Holders(p) /\ conns[p] = Cardinality(inUse(p))
    BY InUseHolds DEF BInv, CallPart, ConnsMatchHolders
  <1>2. \/ Down(p)
        \/ ~HasRoom(p)
        \/ ~single /\ Quarantined(p, now)
    BY <1>1 DEF Selectable, peerAvailable
  <1>3. ASSUME ~HasRoom(p) PROVE MaxConns(p) > 0 /\ Cardinality(inUse(p)) >= MaxConns(p)
    <2>1. conns[p] \in Int /\ MaxConns(p) \in Int  BY ConfigTypes DEF BInv, Inv, TypeOK
    <2> QED  BY <1>1, <1>3, <2>1 DEF HasRoom
  <1>4. ASSUME ~single, Quarantined(p, now)
        PROVE  /\ MaxFails(p) > 0 /\ failures[p] >= MaxFails(p)
               /\ \/ now - failedAt[p] <= FailTimeout(p)
                  \/ \E h \in inUse(p) : now - pickedAt[h] <= FailTimeout(p)
    <2>1. NoOrphanQuarantine  BY Explained DEF BInv, Inv, Recovery
    <2>2. \/ now - accessed[p] <= FailTimeout(p)
          \/ \E h \in inUse(p) : now - pickedAt[h] <= FailTimeout(p)
      BY <1>1, <1>4, <2>1 DEF NoOrphanQuarantine
    <2>3. accessed[p] = failedAt[p] /\ fails[p] <= failures[p]
      BY <1>4 DEF BInv, HealthFollowsOutcomes
    <2>4. MaxFails(p) \in Int /\ fails[p] \in Nat /\ failures[p] \in Nat
      BY ConfigTypes DEF BInv, Inv, TypeOK, EvidenceTypes
    <2>5. MaxFails(p) > 0 /\ fails[p] >= MaxFails(p)  BY <1>4 DEF Quarantined
    <2> QED  BY <2>2, <2>3, <2>4, <2>5
  <1> QED  BY <1>2, <1>3, <1>4

\* A Pick that gives up a group found nothing in it, in one critical section.
LEMMA GroupGivenUp ==
    ASSUME BInv, [BalancedNext]_balancedVars, NEW g \in Pickers,
           step[g] = "pick", pc'[g] \in {"backup", "none"}, pc'[g] # pc[g]
    PROVE  Selectable(g, IF backupPhase[g] THEN Backup ELSE Primary, now) = {}
  <1>0. TypeOK /\ HoldInv /\ CallTypes  BY DEF BInv, Inv
  <1>1. ASSUME NEW h \in Pickers, BalancedStep(h), h # g PROVE FALSE
    <2>1. UNCHANGED pc \/ \E x : pc' = [pc EXCEPT ![h] = x]
      <3>1. CASE Local(h)  BY <3>1 DEF Local, vars
      <3>2. CASE StartCall(h)  BY <3>2 DEF StartCall, NewPicker, vars
      <3>3. CASE PickPeer(h)
        <4>1. PICK p \in Peers : take(h, p)  BY <1>0, <3>3, PickCases DEF PickPeer
        <4> QED  BY <4>1 DEF take
      <3>4. CASE TurnToBackups(h)  BY <3>4 DEF TurnToBackups, PrimaryExhausted, dismiss
      <3>5. CASE PickNothing(h)  BY <1>0, <3>5, NothingDismisses DEF dismiss
      <3>6. CASE ReplayFails(h)  BY <3>6 DEF ReplayFails, Done
      <3>7. ASSUME NEW o \in T!roundTripOutcomes, FinishAttempt(h, o[1], o[2])
            PROVE  \E x : pc' = [pc EXCEPT ![h] = x]
        BY <3>7 DEF FinishAttempt, Done
      <3>8. CASE CallerCloses(h)  BY <3>8 DEF CallerCloses, dismiss, vars
      <3> QED  BY <1>1, <3>1, <3>2, <3>3, <3>4, <3>5, <3>6, <3>7, <3>8 DEF BalancedStep
    <2> QED  BY <1>0, <1>1, <2>1 DEF TypeOK
  <1>2. ASSUME BalancedStep(g) PROVE TurnToBackups(g) \/ PickNothing(g)
    <2>1. CASE Local(g)  BY <2>1 DEF Local, vars
    <2>2. CASE StartCall(g)  BY <2>2 DEF StartCall, T!Start
    <2>3. CASE PickPeer(g)
      <3>1. PICK p \in Peers : take(g, p)  BY <1>0, <2>3, PickCases DEF PickPeer
      <3>2. pc'[g] = "busy"  BY <1>0, <3>1 DEF take, TypeOK
      <3> QED  BY <3>2
    <2>4. CASE ReplayFails(g)  BY <2>4 DEF ReplayFails, T!ReplayFails
    <2>5. ASSUME NEW o \in T!roundTripOutcomes, FinishAttempt(g, o[1], o[2]) PROVE FALSE
      BY <2>5 DEF FinishAttempt, T!FinishAttempt
    <2>6. CASE CallerCloses(g)  BY <2>6 DEF CallerCloses, T!CallerCloses
    <2> QED  BY <1>2, <2>1, <2>2, <2>3, <2>4, <2>5, <2>6 DEF BalancedStep
  <1>3. ASSUME TurnToBackups(g) \/ PickNothing(g)
        PROVE  Selectable(g, IF backupPhase[g] THEN Backup ELSE Primary, now) = {}
    <2>1. PrimaryExhausted(g) \/ BackupExhausted(g)  BY <1>3 DEF TurnToBackups, PickNothing
    <2>2. CASE PrimaryExhausted(g)  BY <2>2 DEF PrimaryExhausted
    <2>3. CASE BackupExhausted(g)
      <3>1. backupPhase[g] /\ Selectable(g, Backup, now) = {}
        BY <1>0, <2>3 DEF BackupExhausted, inBackupPhase, HoldInv
      <3> QED  BY <3>1
    <2> QED  BY <2>1, <2>2, <2>3
  <1>4. ~Tick /\ ~UNCHANGED balancedVars  BY DEF Tick, balancedVars, vars
  <1> QED  BY <1>1, <1>2, <1>3, <1>4 DEF BalancedNext, Quiet

\* A call is refused a peer only for what the other calls did and do: nothing is
\* left behind by calls that are over, on whatever path (RRPicker.Pick, RoundTrip).
THEOREM RefusalsTruthful == BalancedSpec => RefusalsExplained
  <1> DEFINE A == \A g \in Pickers :
                     step[g] = "pick" /\ pc'[g] \in {"backup", "none"} /\ pc'[g] # pc[g]
                     => \A p \in (IF backupPhase[g] THEN Backup ELSE Primary) \ picked[g] :
                           \/ Down(p)
                           \/ /\ MaxFails(p) > 0 /\ failures[p] >= MaxFails(p)
                              /\ \/ now - failedAt[p] <= FailTimeout(p)
                                 \/ \E h \in inUse(p) : now - pickedAt[h] <= FailTimeout(p)
                           \/ MaxConns(p) > 0 /\ Cardinality(inUse(p)) >= MaxConns(p)
  <1>1. ASSUME BInv, ConnsMatchHolders, [BalancedNext]_balancedVars PROVE A
    <2>1. Primary \in SUBSET Peers /\ Backup \in SUBSET Peers  BY DEF Primary, Backup
    <2> SUFFICES ASSUME NEW g \in Pickers,
                        step[g] = "pick", pc'[g] \in {"backup", "none"}, pc'[g] # pc[g],
                        NEW p \in (IF backupPhase[g] THEN Backup ELSE Primary) \ picked[g]
                 PROVE  \/ Down(p)
                        \/ /\ MaxFails(p) > 0 /\ failures[p] >= MaxFails(p)
                           /\ \/ now - failedAt[p] <= FailTimeout(p)
                              \/ \E h \in inUse(p) : now - pickedAt[h] <= FailTimeout(p)
                        \/ MaxConns(p) > 0 /\ Cardinality(inUse(p)) >= MaxConns(p)
      OBVIOUS
    <2>2. Selectable(g, IF backupPhase[g] THEN Backup ELSE Primary, now) = {}
      BY <1>1, GroupGivenUp
    <2> QED  BY <1>1, <2>1, <2>2, PeerRefused
  <1>2. BInv /\ ConnsMatchHolders /\ [BalancedNext]_balancedVars => [A]_balancedVars  BY <1>1
  <1> QED
    BY <1>2, CombinedInvariance, Composition, ConnsExact, PTL DEF BalancedSpec, RefusalsExplained

===============================================================================
