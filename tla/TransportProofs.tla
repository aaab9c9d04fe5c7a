---------------------------- MODULE TransportProofs ----------------------------
(***************************************************************************)
(* Proofs about RoundTrip (Transport), for every balancer that keeps the   *)
(* contract of Picker, every upstream, every set of options and any number *)
(* of concurrent calls.                                                    *)
(***************************************************************************)
EXTENDS Transport, FiniteSetTheorems, SequenceTheorems, TLAPS

-------------------------------------------------------------------------------
(* The inductive invariant.  Calls meet only in the peers they hold, so each *)
(* part speaks of one call.                                                  *)

before  == {"idle", "start", "passing", "prepare"}   \* no attempt yet
between == {"loop", "pick", "picked"}                \* no attempt in flight
over    == {"returned", "done"}

\* The fields keep their types.
Types ==
    /\ PickerTypeOK
    /\ config \in Configs
    /\ pc \in [Pickers -> before \cup between \cup over \cup {"inflight"}]
    /\ request \in [Pickers -> Requests]
    /\ ctxDone \in [Pickers -> BOOLEAN]
    /\ mode \in [Pickers -> {"none", "GetBody", "seek", "empty", "stream", "memory", "file"}]
    /\ source \in [Pickers -> {"none", "open", "closed"}]
    /\ tempFile \in [Pickers -> BOOLEAN]
    /\ drained \in [Pickers -> BOOLEAN]
    /\ attempts \in [Pickers -> Seq(Attempt)]
    /\ verdicts \in [Pickers -> Seq(Verdicts)]
    /\ openBodies \in [Pickers -> SUBSET Nat]
    /\ openCtxs \in [Pickers -> SUBSET Nat]
    /\ lastResp \in [Pickers -> Nat]
    /\ lastErr \in [Pickers -> Nat]
    /\ result \in [Pickers -> [resp : Nat, err : {"nil", "attempt", "context", "body", "nopeer", "config"}]]
    /\ lateStarts \in [Pickers -> Nat]

\* A call holds a peer while it is on its way to it or there, has reported all
\* other attempts, and never had more attempts than it was given usable peers.
HoldPart(g) ==
    /\ (holding[g] # NoPeer) <=> (pc[g] \in {"picked", "inflight"})
    /\ Len(verdicts[g]) + (IF pc[g] = "inflight" THEN 1 ELSE 0) = Len(attempts[g])
    /\ given[g] \subseteq Usable
    /\ Len(attempts[g]) + (IF pc[g] = "picked" THEN 1 ELSE 0) <= Cardinality(given[g])
    /\ pc[g] \in before => attempts[g] = <<>>
    /\ pc[g] = "inflight" => attempts[g] # <<>>
    /\ pc[g] = "passing" => request[g].target # "upstream"

\* Between attempts exactly the response in lastResp is open, in flight none, at
\* the end the one that is returned; a context lives as long as its response, or
\* its attempt.
LeakPart(g) ==
    /\ pc[g] \in before => openBodies[g] = {} /\ openCtxs[g] = {} /\ lastResp[g] = 0
    /\ pc[g] \in between => openBodies[g] = {lastResp[g]} \ {0} /\ openCtxs[g] \subseteq openBodies[g]
    /\ pc[g] = "inflight" => openBodies[g] = {} /\ openCtxs[g] \subseteq {Len(attempts[g])}
    /\ pc[g] = "returned" => openBodies[g] = {result[g].resp} \ {0} /\ openCtxs[g] \subseteq openBodies[g]
    /\ pc[g] = "done" => openBodies[g] = {} /\ openCtxs[g] = {}

\* The caller's body is open as long as an attempt may read from it.
BodyPart(g) ==
    /\ pc[g] \in before => ~tempFile[g]
    /\ pc[g] \in between \cup {"inflight"} /\ mode[g] \in {"seek", "stream"} => source[g] = "open"
    /\ pc[g] \in between \cup {"inflight"} /\ mode[g] = "file" => tempFile[g]
    /\ pc[g] \in {"start", "passing", "prepare"} =>
          source[g] = IF request[g].body = "none" THEN "none" ELSE "open"
    /\ pc[g] \in over => source[g] # "open" /\ ~tempFile[g]

\* The request may be sent a second time.
mayRepeat(g) == request[g].idempotent \/ config.retryNonIdempotent

\* Of a request that must not be repeated nothing was sent by any attempt that is
\* followed by another one.
SentPart(g) ==
    ~mayRepeat(g) =>
        /\ pc[g] \in between \cup {"inflight"} => \A n \in DOMAIN attempts[g] : ~attempts[g][n].sent
        /\ \A n \in DOMAIN attempts[g] : attempts[g][n].sent => n = Len(attempts[g])

\* A stream is only passed through when no second attempt can need it: the request
\* must not be repeated, and then nothing of it was consumed yet, or there is only
\* one peer, and then there is no second attempt.
StreamPart(g) ==
    /\ pc[g] \in before => ~drained[g]
    /\ pc[g] \in between \cup {"inflight"} /\ mode[g] = "stream"
       => ~(multipleUsablePeers /\ mayRepeat(g))
    /\ pc[g] \in between /\ drained[g]
       => mode[g] = "stream" /\ attempts[g] # <<>> /\ ~multipleUsablePeers
    /\ pc[g] = "inflight" => ~drained[g]

\* lastResp and lastErr, and the result, are those of the last attempt.
LastPart(g) ==
    /\ pc[g] \in before => lastResp[g] = 0 /\ lastErr[g] = 0
    /\ pc[g] \in {"loop", "pick"} => /\ {lastResp[g], lastErr[g]} \subseteq {0, Len(attempts[g])}
                                     /\ attempts[g] # <<>> => {lastResp[g], lastErr[g]} # {0}
    /\ pc[g] \in over /\ result[g].resp # 0 /\ request[g].target = "upstream"
       => result[g].resp = Len(attempts[g])
    /\ pc[g] \in over /\ result[g].err = "nopeer" => attempts[g] = <<>>

\* Only the attempt that was already past the check can be late.
LatePart(g) ==
    /\ lateStarts[g] <= 1
    /\ ~ctxDone[g] \/ pc[g] \in {"pick", "picked"} => lateStarts[g] = 0

CallInv(g) ==
    /\ HoldPart(g) /\ LeakPart(g) /\ BodyPart(g) /\ SentPart(g)
    /\ StreamPart(g) /\ LastPart(g) /\ LatePart(g)

Inv == Types /\ \A g \in Pickers : CallInv(g)

-------------------------------------------------------------------------------
(* What a step does to the other calls. *)

Steps(g) ==
    \/ Begin(g) \/ Cancel(g) \/ CallerCloses(g) \/ Step(g)

\* Everything a part of the invariant reads of call h.
View(h) ==
    <<holding[h], given[h], pc[h], request[h], ctxDone[h], mode[h], source[h], tempFile[h],
      drained[h], attempts[h], verdicts[h], openBodies[h], openCtxs[h], lastResp[h],
      lastErr[h], result[h], lateStarts[h]>>

\* Every step is a step of one call, or none at all.
LEMMA NextCases ==
    ASSUME [Next]_vars
    PROVE  (\E g \in Pickers : Steps(g)) \/ UNCHANGED vars
  BY DEF Next, Steps, AllDone

\* A step of one call changes no field of another one and not the options.
LEMMA OtherCalls ==
    ASSUME Types, NEW g \in Pickers, Steps(g), NEW h \in Pickers \ {g}
    PROVE  View(h)' = View(h) /\ config' = config
<1> USE DEF Types, PickerTypeOK, View, goto, return, closeSource, bodyVars, respVars, pickerVars
<1>1. CASE Begin(g) \/ Cancel(g) \/ CallerCloses(g)
  BY <1>1 DEF Begin, Cancel, CallerCloses
<1>2. CASE Start(g) \/ prepareBody(g) \/ prepareBodyFails(g)
  BY <1>2 DEF Start, failRoundTrip, prepareBody, prepareBodyFails
<1>3. ASSUME NEW o \in roundTripOutcomes, PassThrough(g, o[1])
      PROVE  View(h)' = View(h) /\ config' = config
  BY <1>3 DEF PassThrough
<1>4. CASE CheckContext(g) \/ NoPeerLeft(g)
  BY <1>4 DEF CheckContext, NoPeerLeft, closeLast, cleanup
<1>5. CASE PickPeer(g)
  BY <1>5 DEF PickPeer, Pick
<1>6. CASE StartAttempt(g)
  BY <1>6 DEF StartAttempt
<1>7. CASE ReplayFails(g)
  BY <1>7 DEF ReplayFails, Release, closeLast, cleanup
<1>8. ASSUME NEW o \in roundTripOutcomes, FinishAttempt(g, o[1], o[2])
      PROVE  View(h)' = View(h) /\ config' = config
  <2>1. attempts'[h] = attempts[h] /\ drained'[h] = drained[h] /\ openCtxs'[h] = openCtxs[h]
    BY <1>8 DEF FinishAttempt, settle
  <2>2. holding'[h] = holding[h] /\ given' = given
    BY <1>8 DEF FinishAttempt, Release
  <2>3. /\ pc'[h] = pc[h] /\ verdicts'[h] = verdicts[h] /\ openBodies'[h] = openBodies[h]
        /\ lastResp'[h] = lastResp[h] /\ lastErr'[h] = lastErr[h] /\ result'[h] = result[h]
        /\ source'[h] = source[h] /\ tempFile'[h] = tempFile[h]
    BY <1>8 DEF FinishAttempt, cleanup
  <2>4. UNCHANGED <<config, request, ctxDone, mode, lateStarts>>
    BY <1>8 DEF FinishAttempt
  <2> QED
    BY <2>1, <2>2, <2>3, <2>4
<1> QED
  BY <1>1, <1>2, <1>3, <1>4, <1>5, <1>6, <1>7, <1>8 DEF Steps, Step

\* The invariant of a call depends on its own fields and the options only.
LEMMA ViewInv ==
    ASSUME NEW h \in Pickers, CallInv(h), View(h)' = View(h), config' = config
    PROVE  CallInv(h)'
<1>1. /\ holding'[h] = holding[h] /\ given'[h] = given[h] /\ pc'[h] = pc[h]
      /\ request'[h] = request[h] /\ ctxDone'[h] = ctxDone[h] /\ mode'[h] = mode[h]
      /\ source'[h] = source[h] /\ tempFile'[h] = tempFile[h] /\ drained'[h] = drained[h]
      /\ attempts'[h] = attempts[h] /\ verdicts'[h] = verdicts[h]
      /\ openBodies'[h] = openBodies[h] /\ openCtxs'[h] = openCtxs[h]
      /\ lastResp'[h] = lastResp[h] /\ lastErr'[h] = lastErr[h] /\ result'[h] = result[h]
      /\ lateStarts'[h] = lateStarts[h]
  BY DEF View
<1>2. HoldPart(h)' /\ LeakPart(h)'
  BY <1>1 DEF CallInv, HoldPart, LeakPart
<1>3. BodyPart(h)' /\ LastPart(h)' /\ LatePart(h)'
  BY <1>1 DEF CallInv, BodyPart, LastPart, LatePart
<1>4. SentPart(h)' /\ StreamPart(h)'
  BY <1>1 DEF CallInv, SentPart, StreamPart, mayRepeat
<1> QED
  BY <1>2, <1>3, <1>4 DEF CallInv

-------------------------------------------------------------------------------
(* What a step does to the call that takes it. *)

\* The caller passes a request, cancels it, or closes the response it got.
LEMMA CallerStep ==
    ASSUME Inv, NEW g \in Pickers, Begin(g) \/ Cancel(g) \/ CallerCloses(g)
    PROVE  Types' /\ CallInv(g)'
<1> USE DEF goto, bodyVars, respVars, pickerVars
<1>0. Types /\ CallInv(g)
  BY DEF Inv
<1>1. CASE Begin(g)
  <2>1. PICK r \in RequestKinds : request' = [request EXCEPT ![g] = r]
                    /\ source' = [source EXCEPT ![g] = IF r.body = "none" THEN "none" ELSE "open"]
    BY <1>1 DEF Begin
  <2>2. r \in Requests
    BY RequestsAssumption
  <2>3. Types'
    BY <1>0, <1>1, <2>1, <2>2 DEF Types, PickerTypeOK, Begin, before, between, over
  <2>4. /\ pc[g] = "idle" /\ pc'[g] = "start" /\ request'[g] = r
        /\ source'[g] = IF r.body = "none" THEN "none" ELSE "open"
        /\ UNCHANGED <<pickerVars, config, ctxDone, mode, tempFile, drained, attempts,
                       verdicts, respVars, result, lateStarts>>
    BY <1>0, <1>1, <2>1 DEF Types, Begin
  <2>5. HoldPart(g)' /\ LeakPart(g)' /\ BodyPart(g)'
    BY <1>0, <2>4 DEF CallInv, HoldPart, LeakPart, BodyPart, before, between, over
  <2>6. StreamPart(g)' /\ LastPart(g)' /\ LatePart(g)'
    BY <1>0, <2>4 DEF CallInv, StreamPart, LastPart, LatePart, before, between, over
  <2>7. SentPart(g)'
    BY <1>0, <2>4 DEF CallInv, HoldPart, SentPart, before, between
  <2> QED
    BY <2>3, <2>5, <2>6, <2>7 DEF CallInv
<1>2. CASE Cancel(g)
  <2>1. Types'
    BY <1>0, <1>2 DEF Types, PickerTypeOK, Cancel
  <2>2. /\ ctxDone'[g] /\ UNCHANGED <<pickerVars, config, pc, request, bodyVars, attempts,
                                      verdicts, respVars, result, lateStarts>>
    BY <1>0, <1>2 DEF Types, Cancel
  <2>3. HoldPart(g)' /\ LeakPart(g)' /\ BodyPart(g)'
    BY <1>0, <2>2 DEF CallInv, HoldPart, LeakPart, BodyPart
  <2>4. SentPart(g)' /\ StreamPart(g)' /\ LastPart(g)'
    BY <1>0, <2>2 DEF CallInv, SentPart, StreamPart, LastPart, mayRepeat
  <2>5. LatePart(g)'
    BY <1>0, <2>2 DEF CallInv, LatePart, Types
  <2> QED
    BY <2>1, <2>3, <2>4, <2>5 DEF CallInv
<1>3. CASE CallerCloses(g)
  <2>1. Types'
    BY <1>0, <1>3 DEF Types, PickerTypeOK, CallerCloses, before, between, over
  <2>2. /\ pc[g] = "returned" /\ pc'[g] = "done"
        /\ openBodies'[g] = openBodies[g] \ {result[g].resp}
        /\ openCtxs'[g] = openCtxs[g] \ {result[g].resp}
        /\ UNCHANGED <<pickerVars, config, request, ctxDone, bodyVars, attempts, verdicts,
                       lastResp, lastErr, result, lateStarts>>
    BY <1>0, <1>3 DEF Types, CallerCloses
  <2>3. HoldPart(g)' /\ LeakPart(g)' /\ BodyPart(g)'
    BY <1>0, <2>2 DEF CallInv, HoldPart, LeakPart, BodyPart, before, between, over
  <2>4. SentPart(g)' /\ StreamPart(g)' /\ LastPart(g)' /\ LatePart(g)'
    BY <1>0, <2>2 DEF CallInv, SentPart, StreamPart, LastPart, LatePart, mayRepeat,
       before, between, over
  <2> QED
    BY <2>1, <2>3, <2>4 DEF CallInv
<1> QED
  BY <1>1, <1>2, <1>3

\* The checks before the loop, and a request that matches no upstream.
LEMMA EntryStep ==
    ASSUME Inv, NEW g \in Pickers,
           Start(g) \/ \E o \in roundTripOutcomes : PassThrough(g, o[1])
    PROVE  Types' /\ CallInv(g)'
<1> USE DEF goto, return, closeSource, bodyVars, respVars, pickerVars
<1>0. Types /\ CallInv(g)
  BY DEF Inv
<1>1. CASE Start(g)
  <2>0. /\ pc' \in [Pickers -> before \cup between \cup over \cup {"inflight"}]
        /\ source' \in [Pickers -> {"none", "open", "closed"}]
        /\ result' \in [Pickers -> [resp : Nat, err : {"nil", "attempt", "context", "body", "nopeer", "config"}]]
    <3>1. CASE failRoundTrip(g, "config")
      BY <1>0, <3>1 DEF Types, failRoundTrip, before, between, over
    <3>2. CASE failRoundTrip(g, "context")
      BY <1>0, <3>2 DEF Types, failRoundTrip, before, between, over
    <3>3. CASE UNCHANGED <<source, result>>
               /\ pc' = [pc EXCEPT ![g] = IF request[g].target = "upstream" THEN "prepare" ELSE "passing"]
      BY <1>0, <3>3 DEF Types, before, between, over
    <3> QED
      BY <1>1, <3>1, <3>2, <3>3 DEF Start
  <2>1. Types'
    BY <1>0, <1>1, <2>0 DEF Types, PickerTypeOK, Start
  <2>2. UNCHANGED <<pickerVars, config, request, ctxDone, mode, tempFile, drained,
                    attempts, verdicts, respVars, lateStarts>>
    BY <1>1 DEF Start
  <2>3. /\ pc[g] = "start"
        /\ \/ /\ pc'[g] = "returned" /\ source'[g] # "open"
              /\ result'[g].resp = 0 /\ result'[g].err \in {"config", "context"}
           \/ /\ source'[g] = source[g] /\ result'[g] = result[g]
              /\ \/ pc'[g] = "prepare"
                 \/ pc'[g] = "passing" /\ request[g].target # "upstream"
    BY <1>0, <1>1 DEF Types, Start, failRoundTrip
  <2>4. HoldPart(g)' /\ LeakPart(g)' /\ BodyPart(g)'
    BY <1>0, <2>2, <2>3 DEF CallInv, HoldPart, LeakPart, BodyPart, before, between, over
  <2>5. SentPart(g)' /\ StreamPart(g)' /\ LastPart(g)' /\ LatePart(g)'
    BY <1>0, <2>2, <2>3 DEF CallInv, HoldPart, SentPart, StreamPart, LastPart, LatePart, mayRepeat,
       before, between, over
  <2> QED
    BY <2>1, <2>4, <2>5 DEF CallInv
<1>2. ASSUME NEW o \in roundTripOutcomes, PassThrough(g, o[1])
      PROVE  Types' /\ CallInv(g)'
  <2>1. Types'
    BY <1>0, <1>2 DEF Types, PickerTypeOK, PassThrough, before, between, over
  <2>2. UNCHANGED <<pickerVars, config, request, ctxDone, mode, tempFile, drained, attempts,
                    verdicts, openCtxs, lastResp, lastErr, lateStarts>>
    BY <1>2 DEF PassThrough
  <2>3. /\ pc[g] = "passing" /\ pc'[g] = "returned" /\ source'[g] # "open"
        /\ openBodies'[g] = {result'[g].resp} \ {0}
        /\ result'[g].err \in {"nil", "attempt"}
    BY <1>0, <1>2 DEF Types, PassThrough
  <2>4. HoldPart(g)' /\ LeakPart(g)' /\ BodyPart(g)'
    BY <1>0, <2>2, <2>3 DEF CallInv, HoldPart, LeakPart, BodyPart, before, between, over
  <2>5. SentPart(g)' /\ StreamPart(g)' /\ LastPart(g)' /\ LatePart(g)'
    BY <1>0, <2>2, <2>3 DEF CallInv, HoldPart, SentPart, StreamPart, LastPart, LatePart, mayRepeat,
       before, between, over
  <2> QED
    BY <2>1, <2>4, <2>5 DEF CallInv
<1> QED
  BY <1>1, <1>2

\* The body is prepared, or cannot be.
LEMMA PrepareStep ==
    ASSUME Inv, NEW g \in Pickers, prepareBody(g) \/ prepareBodyFails(g)
    PROVE  Types' /\ CallInv(g)'
<1> USE DEF goto, return, bodyVars, respVars, pickerVars
<1>0. Types /\ CallInv(g)
  BY DEF Inv
<1>1. CASE prepareBody(g)
  <2>1. request[g].body \in {"none", "GetBody", "seekable", "stream"}
    BY <1>0 DEF Types, Requests
  <2>2. PICK m \in prepared(g) : /\ mode' = [mode EXCEPT ![g] = m[1]]
                                 /\ source' = [source EXCEPT ![g] = IF m[2] THEN "closed" ELSE @]
                                 /\ tempFile' = [tempFile EXCEPT ![g] = m[3]]
    BY <1>1 DEF prepareBody
  <2>3. \/ m[1] \in {"none", "GetBody", "empty"} /\ m[2] = FALSE /\ m[3] = FALSE
        \/ m[1] = "memory" /\ m[2] = TRUE /\ m[3] = FALSE
        \/ m[1] = "file" /\ m[2] = TRUE /\ m[3] = TRUE
        \/ m[1] = "seek" /\ m[2] = FALSE /\ m[3] = FALSE /\ request[g].body = "seekable"
        \/ /\ m[1] = "stream" /\ m[2] = FALSE /\ m[3] = FALSE
           /\ request[g].body = "stream" /\ ~requestBodyMayNeedReplay(g)
    <3>1. CASE request[g].body = "none"
      <4>1. m = <<"none", FALSE, FALSE>>
        BY <3>1 DEF prepared
      <4> QED
        BY <4>1
    <3>2. CASE request[g].body = "GetBody"
      <4>1. m = <<"GetBody", FALSE, FALSE>>
        BY <3>2 DEF prepared
      <4> QED
        BY <4>1
    <3>3. CASE request[g].body = "seekable"
      <4>1. m = <<"seek", FALSE, FALSE>> \/ m = <<"empty", FALSE, FALSE>>
        BY <3>3 DEF prepared
      <4>2. CASE m = <<"seek", FALSE, FALSE>>
        BY <3>3, <4>2
      <4>3. CASE m = <<"empty", FALSE, FALSE>>
        BY <4>3
      <4> QED
        BY <4>1, <4>2, <4>3
    <3>4. CASE request[g].body = "stream" /\ requestBodyMayNeedReplay(g)
      <4>1. m = <<"memory", TRUE, FALSE>> \/ m = <<"file", TRUE, TRUE>>
        BY <3>4 DEF prepared
      <4>2. CASE m = <<"memory", TRUE, FALSE>>
        BY <4>2
      <4>3. CASE m = <<"file", TRUE, TRUE>>
        BY <4>3
      <4> QED
        BY <4>1, <4>2, <4>3
    <3>5. CASE request[g].body = "stream" /\ ~requestBodyMayNeedReplay(g)
      <4>1. m = <<"stream", FALSE, FALSE>>
        BY <3>5 DEF prepared
      <4> QED
        BY <3>5, <4>1
    <3> QED
      BY <2>1, <3>1, <3>2, <3>3, <3>4, <3>5
  <2>4. Types'
    <3>1. m[1] \in {"none", "GetBody", "seek", "empty", "stream", "memory", "file"}
          /\ m[3] \in BOOLEAN
      BY <2>3
    <3>2. /\ mode' \in [Pickers -> {"none", "GetBody", "seek", "empty", "stream", "memory", "file"}]
          /\ tempFile' \in [Pickers -> BOOLEAN]
          /\ source' \in [Pickers -> {"none", "open", "closed"}]
      BY <1>0, <2>2, <3>1 DEF Types
    <3> QED
      BY <1>0, <1>1, <3>2 DEF Types, PickerTypeOK, prepareBody, before, between, over
  <2>5. /\ pc[g] = "prepare" /\ pc'[g] = "loop"
        /\ UNCHANGED <<pickerVars, config, request, ctxDone, drained, attempts, verdicts,
                       respVars, result, lateStarts>>
    BY <1>0, <1>1 DEF Types, prepareBody
  <2>6. /\ mode'[g] = m[1] /\ tempFile'[g] = m[3]
        /\ source'[g] = IF m[2] THEN "closed" ELSE source[g]
    BY <1>0, <2>2 DEF Types
  <2>7. /\ mode'[g] \in {"seek", "stream"} => source'[g] = "open"
        /\ mode'[g] = "file" => tempFile'[g]
        /\ mode'[g] = "stream" => ~(multipleUsablePeers /\ mayRepeat(g))
    <3>1. request[g].body # "none" => source[g] = "open"
      BY <1>0, <2>5 DEF CallInv, BodyPart
    <3>2. ~requestBodyMayNeedReplay(g) => ~(multipleUsablePeers /\ mayRepeat(g))
      BY DEF requestBodyMayNeedReplay, mayRepeat
    <3> QED
      BY <2>3, <2>6, <3>1, <3>2
  <2>8. HoldPart(g)' /\ LeakPart(g)' /\ BodyPart(g)'
    BY <1>0, <2>5, <2>7 DEF CallInv, HoldPart, LeakPart, BodyPart, before, between, over
  <2>9. SentPart(g)' /\ StreamPart(g)'
    BY <1>0, <2>5, <2>7 DEF CallInv, HoldPart, SentPart, StreamPart, mayRepeat, before, between
  <2>10. LastPart(g)' /\ LatePart(g)'
    BY <1>0, <2>5 DEF CallInv, HoldPart, LastPart, LatePart, before, over
  <2> QED
    BY <2>4, <2>8, <2>9, <2>10 DEF CallInv
<1>2. CASE prepareBodyFails(g)
  <2>1. Types'
    BY <1>0, <1>2 DEF Types, PickerTypeOK, prepareBodyFails, before, between, over
  <2>2. /\ pc[g] = "prepare" /\ pc'[g] = "returned" /\ source'[g] = "closed"
        /\ result'[g] = [resp |-> 0, err |-> "body"]
        /\ UNCHANGED <<pickerVars, config, request, ctxDone, mode, tempFile, drained,
                       attempts, verdicts, respVars, lateStarts>>
    BY <1>0, <1>2 DEF Types, prepareBodyFails
  <2>3. HoldPart(g)' /\ LeakPart(g)' /\ BodyPart(g)'
    BY <1>0, <2>2 DEF CallInv, HoldPart, LeakPart, BodyPart, before, between, over
  <2>4. SentPart(g)' /\ StreamPart(g)' /\ LastPart(g)' /\ LatePart(g)'
    BY <1>0, <2>2 DEF CallInv, HoldPart, SentPart, StreamPart, LastPart, LatePart, mayRepeat,
       before, between, over
  <2> QED
    BY <2>1, <2>3, <2>4 DEF CallInv
<1> QED
  BY <1>1, <1>2

\* The head of the loop, and a Pick that returns nil.
LEMMA LoopStep ==
    ASSUME Inv, NEW g \in Pickers, CheckContext(g) \/ NoPeerLeft(g)
    PROVE  Types' /\ CallInv(g)'
<1> USE DEF goto, return, closeSource, closeLast, cleanup, bodyVars, respVars, pickerVars
<1>0. Types /\ CallInv(g)
  BY DEF Inv
<1>1. CASE CheckContext(g) /\ ~ctxDone[g]
  <2>1. /\ UNCHANGED <<pickerVars, config, request, ctxDone, mode, drained, attempts, verdicts,
                       lateStarts, source, tempFile, respVars, result>>
        /\ pc' = [pc EXCEPT ![g] = "pick"]
    BY <1>1 DEF CheckContext
  <2>2. Types'
    BY <1>0, <2>1 DEF Types, PickerTypeOK, before, between, over
  <2>3. pc[g] = "loop" /\ pc'[g] = "pick"
    BY <1>0, <1>1, <2>1 DEF CheckContext, Types
  <2>4. HoldPart(g)' /\ LeakPart(g)' /\ BodyPart(g)'
    BY <1>0, <2>1, <2>3 DEF CallInv, HoldPart, LeakPart, BodyPart, before, between, over
  <2>5. SentPart(g)' /\ StreamPart(g)' /\ LastPart(g)' /\ LatePart(g)'
    BY <1>0, <1>1, <2>1, <2>3 DEF CallInv, SentPart, StreamPart, LastPart, LatePart, mayRepeat,
       before, between, over
  <2> QED
    BY <2>2, <2>4, <2>5 DEF CallInv
<1>2. CASE CheckContext(g) /\ ctxDone[g]
  <2>1. Types'
    <3>1. /\ UNCHANGED <<pickerVars, config, request, ctxDone, mode, drained, attempts, verdicts,
                         lateStarts, lastErr>>
          /\ closeLast(g) /\ return(g, 0, "context") /\ cleanup(g)
      BY <1>2 DEF CheckContext
    <3> QED
      BY <1>0, <3>1 DEF Types, PickerTypeOK, before, between, over
  <2>2. /\ UNCHANGED <<pickerVars, config, request, ctxDone, mode, drained, attempts, verdicts,
                       lateStarts, lastErr>>
        /\ pc[g] = "loop" /\ pc'[g] = "returned" /\ result'[g] = [resp |-> 0, err |-> "context"]
        /\ source'[g] # "open" /\ ~tempFile'[g]
        /\ openBodies'[g] = openBodies[g] \ {lastResp[g]}
        /\ openCtxs'[g] = openCtxs[g] \ {lastResp[g]}
    BY <1>0, <1>2 DEF CheckContext, Types
  <2>3. HoldPart(g)' /\ LeakPart(g)' /\ BodyPart(g)'
    BY <1>0, <2>2 DEF CallInv, HoldPart, LeakPart, BodyPart, before, between, over
  <2>4. SentPart(g)' /\ StreamPart(g)' /\ LastPart(g)' /\ LatePart(g)'
    BY <1>0, <2>2 DEF CallInv, SentPart, StreamPart, LastPart, LatePart, mayRepeat,
       before, between, over
  <2> QED
    BY <2>1, <2>3, <2>4 DEF CallInv
<1>3. CASE NoPeerLeft(g)
  <2>1. /\ UNCHANGED <<pickerVars, config, request, ctxDone, mode, drained, attempts, verdicts,
                       respVars, lateStarts>>
        /\ pc' = [pc EXCEPT ![g] = "returned"] /\ cleanup(g)
    BY <1>3 DEF NoPeerLeft
  <2>2. PICK e \in {"attempt", "nil", "nopeer"} :
            /\ result' = [result EXCEPT ![g] = [resp |-> lastResp[g], err |-> e]]
            /\ e = "nopeer" => lastResp[g] = 0 /\ lastErr[g] = 0
    <3>1. CASE lastResp[g] # 0 \/ lastErr[g] # 0
      BY <1>3, <3>1 DEF NoPeerLeft
    <3>2. CASE lastResp[g] = 0 /\ lastErr[g] = 0
      BY <1>3, <3>2 DEF NoPeerLeft
    <3> QED
      BY <3>1, <3>2
  <2>3. Types'
    BY <1>0, <2>1, <2>2 DEF Types, PickerTypeOK, before, between, over
  <2>4. /\ pc[g] = "pick" /\ pc'[g] = "returned"
        /\ source'[g] # "open" /\ ~tempFile'[g]
        /\ result'[g] = [resp |-> lastResp[g], err |-> e]
    BY <1>0, <1>3, <2>1, <2>2 DEF NoPeerLeft, Types
  <2>5. HoldPart(g)' /\ LeakPart(g)' /\ BodyPart(g)'
    <3>1. HoldPart(g)' /\ BodyPart(g)'
      BY <1>0, <2>1, <2>4 DEF CallInv, HoldPart, BodyPart, before, between, over
    <3>2. openBodies'[g] = {lastResp[g]} \ {0} /\ openCtxs'[g] \subseteq openBodies'[g]
      BY <1>0, <2>1, <2>4 DEF CallInv, LeakPart, between
    <3>3. LeakPart(g)'
      BY <2>4, <3>2 DEF LeakPart, before, between, over
    <3> QED
      BY <3>1, <3>3
  <2>6. SentPart(g)' /\ StreamPart(g)' /\ LatePart(g)'
    BY <1>0, <2>1, <2>4 DEF CallInv, SentPart, StreamPart, LatePart, mayRepeat,
       before, between, over
  <2>7. LastPart(g)'
    BY <1>0, <2>1, <2>2, <2>4 DEF CallInv, LastPart, before, between, over
  <2> QED
    BY <2>3, <2>5, <2>6, <2>7 DEF CallInv
<1>4. NoPeerLeft(g) \/ (CheckContext(g) /\ ctxDone[g]) \/ (CheckContext(g) /\ ~ctxDone[g])
  OBVIOUS
<1> QED
  BY <1>1, <1>2, <1>3, <1>4

\* The peers a call was given are finitely many.
LEMMA GivenFinite ==
    ASSUME Types, NEW g \in Pickers
    PROVE  /\ IsFiniteSet(given[g]) /\ Cardinality(given[g]) \in Nat
           /\ IsFiniteSet(Usable) /\ Cardinality(Usable) \in Nat
           /\ given[g] \subseteq Usable => Cardinality(given[g]) <= Cardinality(Usable)
<1>1. given[g] \in SUBSET Peers /\ Usable \in SUBSET Peers /\ IsFiniteSet(Peers)
  BY PeersAssumption DEF Types, PickerTypeOK, Usable
<1>2. IsFiniteSet(given[g]) /\ IsFiniteSet(Usable)
  BY <1>1, FS_Subset
<1>3. Cardinality(given[g]) \in Nat /\ Cardinality(Usable) \in Nat
  BY <1>2, FS_CardinalityType
<1>4. given[g] \subseteq Usable => Cardinality(given[g]) <= Cardinality(Usable)
  BY <1>2, FS_Subset
<1> QED
  BY <1>2, <1>3, <1>4

\* Pick returns a peer.
LEMMA PickStep ==
    ASSUME Inv, NEW g \in Pickers, PickPeer(g)
    PROVE  Types' /\ CallInv(g)'
<1> USE DEF goto, bodyVars, respVars
<1>0. Types /\ CallInv(g)
  BY DEF Inv
<1>1. PICK p \in Peers : Pick(g, p)
  BY DEF PickPeer
<1>2. Types'
  BY <1>0, <1>1 DEF Types, PickerTypeOK, PickPeer, Pick, before, between, over
<1>3. /\ UNCHANGED <<config, request, ctxDone, bodyVars, attempts, verdicts, respVars,
                     result, lateStarts>>
      /\ pc[g] = "pick" /\ pc'[g] = "picked"
      /\ holding'[g] = p /\ given'[g] = given[g] \cup {p} /\ p \notin given[g] /\ ~Down(p)
  BY <1>0, <1>1 DEF PickPeer, Pick, Types, PickerTypeOK
<1>4. HoldPart(g)'
  <2>1. Cardinality(given'[g]) = Cardinality(given[g]) + 1 /\ Cardinality(given[g]) \in Nat
    BY <1>0, <1>3, GivenFinite, FS_AddElement
  <2>2. Len(attempts'[g]) + 1 <= Cardinality(given'[g])
    <3>1. Len(attempts[g]) \in Nat /\ Len(attempts[g]) + 0 <= Cardinality(given[g])
      BY <1>0, <1>3 DEF CallInv, HoldPart, Types
    <3> QED
      BY <1>3, <2>1, <3>1
  <2>3. holding'[g] # NoPeer /\ given'[g] \subseteq Usable
    BY <1>0, <1>3, PeersAssumption DEF CallInv, HoldPart, Usable
  <2> QED
    BY <1>0, <1>3, <2>2, <2>3 DEF CallInv, HoldPart, before
<1>5. LeakPart(g)' /\ BodyPart(g)'
  BY <1>0, <1>3 DEF CallInv, LeakPart, BodyPart, before, between, over
<1>6. SentPart(g)' /\ StreamPart(g)' /\ LastPart(g)' /\ LatePart(g)'
  BY <1>0, <1>3 DEF CallInv, SentPart, StreamPart, LastPart, LatePart, mayRepeat,
     before, between, over
<1> QED
  BY <1>2, <1>4, <1>5, <1>6 DEF CallInv

\* What appending an attempt to the history does.
LEMMA AppendAttempt ==
    ASSUME NEW s \in Seq(Attempt), NEW a \in Attempt
    PROVE  /\ Append(s, a) \in Seq(Attempt) /\ Append(s, a) # <<>>
           /\ Len(Append(s, a)) = Len(s) + 1
           /\ DOMAIN Append(s, a) = 1 .. (Len(s) + 1)
           /\ Append(s, a)[Len(s) + 1] = a
           /\ \A n \in DOMAIN s : Append(s, a)[n] = s[n]
<1>1. /\ Append(s, a) \in Seq(Attempt) /\ Append(s, a) # <<>>
      /\ Len(Append(s, a)) = Len(s) + 1
      /\ Append(s, a)[Len(s) + 1] = a
  BY AppendProperties
<1>2. DOMAIN Append(s, a) = 1 .. (Len(s) + 1)
  BY <1>1
<1>3. \A n \in DOMAIN s : Append(s, a)[n] = s[n]
  BY AppendProperties
<1> QED
  BY <1>1, <1>2, <1>3

\* The request goes to the RoundTripper.
LEMMA StartAttemptStep ==
    ASSUME Inv, NEW g \in Pickers, StartAttempt(g)
    PROVE  Types' /\ CallInv(g)'
<1> USE DEF goto, bodyVars, pickerVars
<1>0. Types /\ CallInv(g)
  BY DEF Inv
<1> DEFINE a == [peer |-> holding[g], sent |-> FALSE]
           s == attempts[g]
<1>1. pc[g] = "picked" /\ holding[g] \in Peers /\ s \in Seq(Attempt)
  BY <1>0 DEF StartAttempt, CallInv, HoldPart, Types, PickerTypeOK
<1>2. a \in Attempt /\ a.sent = FALSE /\ Len(s) \in Nat
  BY <1>1 DEF Attempt
<1>3. /\ Append(s, a) \in Seq(Attempt) /\ Append(s, a) # <<>>
      /\ Len(Append(s, a)) = Len(s) + 1
      /\ DOMAIN Append(s, a) = 1 .. (Len(s) + 1)
      /\ Append(s, a)[Len(s) + 1] = a
      /\ \A n \in DOMAIN s : Append(s, a)[n] = s[n]
  BY <1>1, <1>2, AppendAttempt
<1>4. attempts' = [attempts EXCEPT ![g] = Append(s, a)] /\ attempts'[g] = Append(s, a)
  BY <1>0 DEF StartAttempt, Types
<1>5. /\ UNCHANGED <<pickerVars, config, request, ctxDone, bodyVars, verdicts, result>>
      /\ pc' = [pc EXCEPT ![g] = "inflight"]
      /\ lastResp' = [lastResp EXCEPT ![g] = 0]
      /\ lastErr' = [lastErr EXCEPT ![g] = 0]
      /\ lateStarts' = [lateStarts EXCEPT ![g] = IF ctxDone[g] THEN @ + 1 ELSE @]
      /\ openBodies' = [openBodies EXCEPT ![g] = @ \ {lastResp[g]}]
      /\ openCtxs' = [openCtxs EXCEPT ![g] =
             (@ \ {lastResp[g]}) \cup IF config.timeout THEN {Len(s) + 1} ELSE {}]
  BY DEF StartAttempt
<1> HIDE DEF a, s
<1>6. Types'
  <2>1. /\ openBodies' \in [Pickers -> SUBSET Nat] /\ openCtxs' \in [Pickers -> SUBSET Nat]
        /\ lastResp' \in [Pickers -> Nat] /\ lastErr' \in [Pickers -> Nat]
        /\ lateStarts' \in [Pickers -> Nat]
    BY <1>0, <1>2, <1>5 DEF Types
  <2>2. attempts' \in [Pickers -> Seq(Attempt)]
    BY <1>0, <1>3, <1>4 DEF Types
  <2>3. pc' \in [Pickers -> before \cup between \cup over \cup {"inflight"}]
    BY <1>0, <1>5 DEF Types
  <2> QED
    BY <1>0, <1>5, <2>1, <2>2, <2>3 DEF Types, PickerTypeOK
<1>7. /\ pc'[g] = "inflight" /\ lastResp'[g] = 0 /\ lastErr'[g] = 0
      /\ openBodies'[g] = openBodies[g] \ {lastResp[g]}
      /\ openCtxs'[g] = (openCtxs[g] \ {lastResp[g]}) \cup IF config.timeout THEN {Len(s) + 1} ELSE {}
      /\ lateStarts'[g] = IF ctxDone[g] THEN lateStarts[g] + 1 ELSE lateStarts[g]
  BY <1>0, <1>5 DEF Types
<1>8. Len(s) + 1 <= Cardinality(given[g]) /\ Len(verdicts[g]) = Len(s) /\ given[g] \subseteq Usable
  BY <1>0, <1>1, <1>2 DEF CallInv, HoldPart, s, Types
<1>9. HoldPart(g)'
  <2>1. Len(attempts'[g]) = Len(s) + 1 /\ attempts'[g] # <<>>
    BY <1>3, <1>4
  <2>2. Len(verdicts'[g]) + 1 = Len(attempts'[g]) /\ Len(attempts'[g]) + 0 <= Cardinality(given'[g])
    BY <1>2, <1>5, <1>8, <2>1
  <2>3. holding'[g] # NoPeer /\ given'[g] \subseteq Usable
    BY <1>1, <1>5, <1>8, PeersAssumption
  <2> QED
    BY <1>7, <2>1, <2>2, <2>3 DEF HoldPart, before
<1>10. LeakPart(g)'
  <2>1. openBodies[g] = {lastResp[g]} \ {0} /\ openCtxs[g] \subseteq openBodies[g]
    BY <1>0, <1>1 DEF CallInv, LeakPart, between
  <2>2. openBodies'[g] = {} /\ openCtxs'[g] \subseteq {Len(attempts'[g])}
    BY <1>3, <1>4, <1>7, <2>1
  <2> QED
    BY <1>7, <2>2 DEF LeakPart, before, between
<1>11. BodyPart(g)' /\ LastPart(g)' /\ LatePart(g)'
  BY <1>0, <1>1, <1>5, <1>7 DEF CallInv, BodyPart, LastPart, LatePart, before, between, over, Types
<1>12. SentPart(g)'
  <2>1. ~mayRepeat(g) => \A n \in DOMAIN s : ~s[n].sent
    BY <1>0, <1>1 DEF CallInv, SentPart, between, s
  <2>2. DOMAIN s = 1 .. Len(s)
    BY <1>1 DEF s
  <2>3. ~mayRepeat(g) => \A n \in DOMAIN attempts'[g] : ~attempts'[g][n].sent
    BY <1>2, <1>3, <1>4, <2>1, <2>2
  <2>4. mayRepeat(g)' <=> mayRepeat(g)
    BY <1>5 DEF mayRepeat
  <2> QED
    BY <2>3, <2>4 DEF SentPart
<1>13. StreamPart(g)'
  <2>1. ~drained[g]
    <3>1. SUFFICES ASSUME drained[g] PROVE FALSE
      BY <1>0 DEF Types
    <3>2. s # <<>> /\ ~multipleUsablePeers
      BY <1>0, <1>1, <3>1 DEF CallInv, StreamPart, between, s
    <3>3. Len(s) > 0
      BY <1>1, <1>2, <3>2, EmptySeq DEF s
    <3>4. Cardinality(given[g]) <= Cardinality(Usable)
          /\ Cardinality(given[g]) \in Nat /\ Cardinality(Usable) \in Nat
      BY <1>0, <1>8, GivenFinite
    <3> QED
      BY <1>2, <1>8, <3>2, <3>3, <3>4 DEF multipleUsablePeers
  <2> QED
    BY <1>0, <1>1, <1>5, <1>7, <2>1 DEF CallInv, StreamPart, mayRepeat, before, between
<1> QED
  BY <1>6, <1>9, <1>10, <1>11, <1>12, <1>13 DEF CallInv

\* The body cannot be rewound for the attempt.
LEMMA ReplayFailsStep ==
    ASSUME Inv, NEW g \in Pickers, ReplayFails(g)
    PROVE  Types' /\ CallInv(g)'
<1> USE DEF goto, return, closeSource, closeLast, cleanup, bodyVars, respVars
<1>0. Types /\ CallInv(g)
  BY DEF Inv
<1>1. Types'
  BY <1>0 DEF Types, PickerTypeOK, ReplayFails, Release, before, between, over
<1>2. /\ UNCHANGED <<config, request, ctxDone, mode, drained, attempts, verdicts, lateStarts, given>>
      /\ pc[g] = "picked" /\ pc'[g] = "returned" /\ holding'[g] = NoPeer
      /\ result'[g] = [resp |-> 0, err |-> "body"]
      /\ source'[g] # "open" /\ ~tempFile'[g]
      /\ openBodies'[g] = openBodies[g] \ {lastResp[g]}
      /\ openCtxs'[g] = openCtxs[g] \ {lastResp[g]}
  BY <1>0 DEF ReplayFails, Release, Types, PickerTypeOK
<1>3. HoldPart(g)'
  <2>1. Cardinality(given[g]) \in Nat /\ Len(attempts[g]) \in Nat
    BY <1>0, GivenFinite DEF Types
  <2> QED
    BY <1>0, <1>2, <2>1 DEF CallInv, HoldPart, before
<1>4. LeakPart(g)' /\ BodyPart(g)'
  BY <1>0, <1>2 DEF CallInv, LeakPart, BodyPart, before, between, over
<1>5. SentPart(g)' /\ StreamPart(g)' /\ LastPart(g)' /\ LatePart(g)'
  BY <1>0, <1>2 DEF CallInv, SentPart, StreamPart, LastPart, LatePart, mayRepeat,
     before, between, over
<1> QED
  BY <1>1, <1>3, <1>4, <1>5 DEF CallInv

\* What the RoundTripper comes back with has a response or an error.
LEMMA OutcomeTypes ==
    ASSUME NEW o \in roundTripOutcomes
    PROVE  o[1] \in Results /\ o[2] \in BOOLEAN /\ (HasResponse(o[1]) \/ HasError(o[1]))
<1>1. CASE config.standard
  <2>1. o = <<"error", FALSE>> \/ o \in {"ok", "denied", "bad", "error"} \X {TRUE}
    BY <1>1 DEF roundTripOutcomes
  <2>2. CASE o = <<"error", FALSE>>
    BY <2>2 DEF Results, HasError
  <2>3. CASE o \in {"ok", "denied", "bad", "error"} \X {TRUE}
    BY <2>3 DEF Results, HasError, HasResponse
  <2> QED
    BY <2>1, <2>2, <2>3
<1>2. CASE ~config.standard
  <2>1. o \in Results \X BOOLEAN
    BY <1>2 DEF roundTripOutcomes
  <2> QED
    BY <2>1 DEF Results, HasError, HasResponse
<1> QED
  BY <1>1, <1>2

\* A verdict is one of the three that the balancer knows.
LEMMA VerdictType ==
    ASSUME NEW g, NEW r, NEW sent
    PROVE  verdict(g, r, sent) \in Verdicts
  BY DEF verdict, Verdicts

\* The method gate: a request that must not be repeated is retried only when
\* nothing of it was sent.
LEMMA MethodGate ==
    ASSUME NEW g, NEW r, NEW sent \in BOOLEAN, retries(g, r, sent), ~mayRepeat(g)
    PROVE  ~sent
  BY DEF retries, blockedNonIdempotent, requestWasSent, mayRepeat

\* Recording the outcome of the last attempt in the history.
settled(s, b) == [s EXCEPT ![Len(s)] = [s[Len(s)] EXCEPT !.sent = b]]

\* What that does to the history.
LEMMA SettledAttempt ==
    ASSUME NEW s \in Seq(Attempt), s # <<>>, NEW b \in BOOLEAN
    PROVE  /\ settled(s, b) \in Seq(Attempt) /\ settled(s, b) # <<>>
           /\ Len(settled(s, b)) = Len(s) /\ Len(s) \in Nat \ {0}
           /\ DOMAIN settled(s, b) = 1 .. Len(s) /\ DOMAIN s = 1 .. Len(s)
           /\ settled(s, b)[Len(s)].sent = b
           /\ \A m \in 1 .. Len(s) : m # Len(s) => settled(s, b)[m] = s[m]
<1> DEFINE t == settled(s, b)
<1> USE DEF settled
<1>1. Len(s) \in Nat \ {0} /\ DOMAIN s = 1 .. Len(s)
  BY EmptySeq
<1>2. Len(s) \in 1 .. Len(s)
  BY <1>1
<1>3. s[Len(s)] \in Attempt
  BY <1>1, <1>2
<1>4. [s[Len(s)] EXCEPT !.sent = b] \in Attempt /\ [s[Len(s)] EXCEPT !.sent = b].sent = b
  BY <1>3 DEF Attempt
<1>5. t \in Seq(Attempt) /\ Len(t) = Len(s)
  BY <1>1, <1>2, <1>4
<1>6. DOMAIN t = 1 .. Len(s) /\ t[Len(s)].sent = b
  BY <1>1, <1>2, <1>4
<1>7. \A m \in 1 .. Len(s) : m # Len(s) => t[m] = s[m]
  BY <1>1
<1> QED
  BY <1>1, <1>5, <1>6, <1>7, EmptySeq

\* The RoundTripper returns.
LEMMA FinishStep ==
    ASSUME Inv, NEW g \in Pickers, NEW o \in roundTripOutcomes, FinishAttempt(g, o[1], o[2])
    PROVE  Types' /\ CallInv(g)'
<1> DEFINE r == o[1]
           sent == o[2]
           s == attempts[g]
           n == Len(attempts[g])
           t == settled(s, sent)
           gaveUp == HasError(r) /\ ctxDone[g]
           retry == ~gaveUp /\ retries(g, r, sent)
           final == ~gaveUp /\ ~retries(g, r, sent)
<1> USE DEF goto, return, closeSource, cleanup, respVars
<1>0. Types /\ CallInv(g)
  BY DEF Inv
<1>1. r \in Results /\ sent \in BOOLEAN /\ (HasResponse(r) \/ HasError(r))
  BY OutcomeTypes
<1>2. pc[g] = "inflight" /\ s \in Seq(Attempt) /\ s # <<>> /\ openBodies[g] = {}
      /\ openCtxs[g] \subseteq {n} /\ ~drained[g]
  BY <1>0 DEF FinishAttempt, Types, CallInv, HoldPart, LeakPart, StreamPart
<1>3. /\ t \in Seq(Attempt) /\ t # <<>> /\ Len(t) = n /\ n \in Nat \ {0}
      /\ DOMAIN t = 1 .. n /\ DOMAIN s = 1 .. n /\ t[n].sent = sent
      /\ \A m \in 1 .. n : m # n => t[m] = s[m]
  BY <1>1, <1>2, SettledAttempt
<1>4. attempts' = [attempts EXCEPT ![g] = t] /\ attempts'[g] = t
  BY <1>0 DEF FinishAttempt, settle, settled, Types
<1>5. /\ UNCHANGED <<config, request, ctxDone, mode, lateStarts, given>>
      /\ holding' = [holding EXCEPT ![g] = NoPeer]
      /\ drained' = [drained EXCEPT ![g] = @ \/ (mode[g] = "stream" /\ sent)]
      /\ openCtxs' = [openCtxs EXCEPT ![g] = IF HasError(r) THEN @ \ {n} ELSE @]
  BY DEF FinishAttempt, settle, Release
<1>6. PICK v \in Verdicts : verdicts' = [verdicts EXCEPT ![g] = Append(@, v)]
  BY VerdictType DEF FinishAttempt, Verdicts
<1>7. gaveUp => /\ result' = [result EXCEPT ![g] = [resp |-> 0, err |-> "context"]]
                /\ pc' = [pc EXCEPT ![g] = "returned"]
                /\ cleanup(g)
                /\ UNCHANGED <<openBodies, lastResp, lastErr>>
  BY DEF FinishAttempt
<1>8. ~gaveUp => openBodies' = [openBodies EXCEPT ![g] = @ \cup IF HasResponse(r) THEN {n} ELSE {}]
  BY DEF FinishAttempt
<1>9. retry => /\ lastResp' = [lastResp EXCEPT ![g] = IF HasResponse(r) THEN n ELSE 0]
               /\ lastErr' = [lastErr EXCEPT ![g] = IF HasError(r) THEN n ELSE 0]
               /\ pc' = [pc EXCEPT ![g] = "loop"]
               /\ UNCHANGED <<source, tempFile, result>>
  BY DEF FinishAttempt
<1>10. final => /\ result' = [result EXCEPT ![g] = [resp |-> IF HasResponse(r) THEN n ELSE 0,
                                                    err |-> IF HasError(r) THEN "attempt" ELSE "nil"]]
                /\ pc' = [pc EXCEPT ![g] = "returned"]
                /\ cleanup(g)
                /\ UNCHANGED <<lastResp, lastErr>>
  BY DEF FinishAttempt
<1>11. retry /\ ~mayRepeat(g) => ~sent
  BY <1>1, MethodGate
<1>12. gaveUp \/ retry \/ final
  OBVIOUS
<1> HIDE DEF r, sent, s, n, t, gaveUp, retry, final
<1>13. Types'
  <2>1. /\ attempts' \in [Pickers -> Seq(Attempt)] /\ verdicts' \in [Pickers -> Seq(Verdicts)]
        /\ drained' \in [Pickers -> BOOLEAN] /\ openCtxs' \in [Pickers -> SUBSET Nat]
    BY <1>0, <1>1, <1>3, <1>4, <1>5, <1>6 DEF Types
  <2>2. /\ pc' \in [Pickers -> before \cup between \cup over \cup {"inflight"}]
        /\ source' \in [Pickers -> {"none", "open", "closed"}]
        /\ tempFile' \in [Pickers -> BOOLEAN]
        /\ result' \in [Pickers -> [resp : Nat, err : {"nil", "attempt", "context", "body", "nopeer", "config"}]]
    <3>1. pc' \in [Pickers -> before \cup between \cup over \cup {"inflight"}]
      BY <1>0, <1>7, <1>9, <1>10, <1>12 DEF Types, between, over
    <3>2. source' \in [Pickers -> {"none", "open", "closed"}] /\ tempFile' \in [Pickers -> BOOLEAN]
      <4>1. cleanup(g) \/ UNCHANGED <<source, tempFile>>
        BY <1>7, <1>9, <1>10, <1>12
      <4> QED
        BY <1>0, <4>1 DEF Types
    <3>3. CASE retry
      <4>1. result' = result
        BY <1>9, <3>3
      <4> QED
        BY <1>0, <3>1, <3>2, <4>1 DEF Types
    <3>4. CASE gaveUp
      <4>1. result' = [result EXCEPT ![g] = [resp |-> 0, err |-> "context"]]
        BY <1>7, <3>4
      <4> QED
        BY <1>0, <3>1, <3>2, <4>1 DEF Types
    <3>5. CASE final
      <4> DEFINE resp == IF HasResponse(r) THEN n ELSE 0
                 err == IF HasError(r) THEN "attempt" ELSE "nil"
      <4>1. resp \in Nat /\ err \in {"attempt", "nil"}
        BY <1>3
      <4>2. result' = [result EXCEPT ![g] = [resp |-> resp, err |-> err]]
        BY <1>10, <3>5
      <4> HIDE DEF resp, err
      <4> QED
        BY <1>0, <3>1, <3>2, <4>1, <4>2 DEF Types
    <3> QED
      BY <1>12, <3>3, <3>4, <3>5
  <2>3. /\ openBodies' \in [Pickers -> SUBSET Nat] /\ lastResp' \in [Pickers -> Nat]
        /\ lastErr' \in [Pickers -> Nat]
    <3>1. CASE gaveUp
      BY <1>0, <1>7, <3>1 DEF Types
    <3>2. CASE ~gaveUp
      <4>1. openBodies' \in [Pickers -> SUBSET Nat]
        <5>1. openBodies[g] \cup (IF HasResponse(r) THEN {n} ELSE {}) \in SUBSET Nat
          BY <1>2, <1>3
        <5> QED
          BY <1>0, <1>8, <3>2, <5>1 DEF Types
      <4>2. CASE retry
        <5>1. (IF HasResponse(r) THEN n ELSE 0) \in Nat /\ (IF HasError(r) THEN n ELSE 0) \in Nat
          BY <1>3
        <5>2. lastResp' \in [Pickers -> Nat]
          BY <1>0, <1>9, <4>2, <5>1 DEF Types
        <5>3. lastErr' \in [Pickers -> Nat]
          BY <1>0, <1>9, <4>2, <5>1 DEF Types
        <5> QED
          BY <4>1, <5>2, <5>3
      <4>3. CASE final
        BY <1>0, <1>10, <4>1, <4>3 DEF Types
      <4> QED
        BY <1>12, <3>2, <4>2, <4>3
    <3> QED
      BY <3>1, <3>2
  <2>4. PickerTypeOK'
    BY <1>0, <1>5 DEF Types, PickerTypeOK
  <2> QED
    BY <1>0, <1>5, <2>1, <2>2, <2>3, <2>4 DEF Types
<1>14. /\ holding'[g] = NoPeer
       /\ drained'[g] <=> (mode[g] = "stream" /\ sent)
       /\ openCtxs'[g] = IF HasError(r) THEN {} ELSE openCtxs[g]
  BY <1>0, <1>1, <1>2, <1>5 DEF Types, PickerTypeOK
<1>15. Len(verdicts'[g]) = Len(verdicts[g]) + 1 /\ Len(verdicts[g]) \in Nat
  BY <1>0, <1>6, AppendProperties DEF Types
<1>16. pc'[g] \in {"loop", "returned"}
  BY <1>0, <1>7, <1>9, <1>10, <1>12 DEF Types
<1>17. HoldPart(g)'
  <2>1. Len(attempts'[g]) = Len(attempts[g]) /\ Len(attempts[g]) \in Nat /\ attempts'[g] # <<>>
    BY <1>3, <1>4 DEF n
  <2>2. Len(verdicts'[g]) + 0 = Len(attempts'[g])
    BY <1>0, <1>2, <1>15, <2>1 DEF CallInv, HoldPart
  <2>3. given'[g] \subseteq Usable /\ Len(attempts'[g]) + 0 <= Cardinality(given'[g])
    BY <1>0, <1>2, <1>5, <2>1 DEF CallInv, HoldPart
  <2> QED
    BY <1>14, <1>16, <2>1, <2>2, <2>3 DEF HoldPart, before
<1>18. CASE gaveUp
  <2>1. /\ pc'[g] = "returned" /\ openBodies'[g] = {} /\ result'[g] = [resp |-> 0, err |-> "context"]
        /\ source'[g] # "open" /\ ~tempFile'[g] /\ openCtxs'[g] = {}
    BY <1>0, <1>2, <1>7, <1>14, <1>18 DEF Types, gaveUp
  <2>2. LeakPart(g)' /\ BodyPart(g)' /\ StreamPart(g)'
    BY <2>1 DEF LeakPart, BodyPart, StreamPart, before, between, over
  <2>3. LastPart(g)' /\ LatePart(g)'
    BY <1>0, <1>5, <2>1 DEF CallInv, LastPart, LatePart, before, between, over
  <2>4. SentPart(g)'
    BY <1>0, <1>2, <1>3, <1>4, <1>5, <2>1 DEF CallInv, SentPart, mayRepeat, between, s, n
  <2> QED
    BY <1>13, <1>17, <2>2, <2>3, <2>4 DEF CallInv
<1>19. CASE retry
  <2>1. /\ pc'[g] = "loop" /\ source'[g] = source[g] /\ tempFile'[g] = tempFile[g]
        /\ lastResp'[g] = IF HasResponse(r) THEN n ELSE 0
        /\ lastErr'[g] = IF HasError(r) THEN n ELSE 0
        /\ openBodies'[g] = IF HasResponse(r) THEN {n} ELSE {}
    BY <1>0, <1>2, <1>8, <1>9, <1>19 DEF Types, retry
  <2>2. LeakPart(g)'
    <3>1. openBodies'[g] = {lastResp'[g]} \ {0}
      BY <1>3, <2>1
    <3>2. openCtxs'[g] \subseteq openBodies'[g]
      BY <1>1, <1>2, <1>14, <2>1
    <3> QED
      BY <2>1, <3>1, <3>2 DEF LeakPart, before, between
  <2>3. BodyPart(g)' /\ LatePart(g)'
    BY <1>0, <1>2, <1>5, <2>1 DEF CallInv, BodyPart, LatePart, before, between, over
  <2>4. LastPart(g)'
    <3>1. Len(attempts'[g]) = n /\ n # 0
      BY <1>3, <1>4
    <3>2. {lastResp'[g], lastErr'[g]} \subseteq {0, n}
      BY <2>1
    <3>3. {lastResp'[g], lastErr'[g]} # {0}
      BY <1>1, <2>1, <3>1
    <3> QED
      BY <2>1, <3>1, <3>2, <3>3 DEF LastPart, before, over
  <2>5. SentPart(g)'
    <3>1. ~mayRepeat(g) => \A m \in DOMAIN t : ~t[m].sent
      BY <1>0, <1>2, <1>3, <1>11, <1>19 DEF CallInv, SentPart, s
    <3>2. mayRepeat(g)' <=> mayRepeat(g)
      BY <1>5 DEF mayRepeat
    <3> QED
      BY <1>4, <3>1, <3>2 DEF SentPart
  <2>6. StreamPart(g)'
    <3>1. mode[g] = "stream" => ~(multipleUsablePeers /\ mayRepeat(g))
      BY <1>0, <1>2 DEF CallInv, StreamPart
    <3>2. drained'[g] => mode[g] = "stream" /\ ~multipleUsablePeers
      BY <1>11, <1>14, <1>19, <3>1
    <3>3. mayRepeat(g)' <=> mayRepeat(g)
      BY <1>5 DEF mayRepeat
    <3> QED
      BY <1>3, <1>4, <1>5, <2>1, <3>1, <3>2, <3>3 DEF StreamPart, before, between
  <2> QED
    BY <1>13, <1>17, <2>2, <2>3, <2>4, <2>5, <2>6 DEF CallInv
<1>20. CASE final
  <2>1. /\ pc'[g] = "returned" /\ source'[g] # "open" /\ ~tempFile'[g]
        /\ result'[g].resp = IF HasResponse(r) THEN n ELSE 0
        /\ result'[g].err # "nopeer"
        /\ openBodies'[g] = IF HasResponse(r) THEN {n} ELSE {}
    BY <1>0, <1>2, <1>8, <1>10, <1>20 DEF Types, final
  <2>2. openBodies'[g] = {result'[g].resp} \ {0} /\ openCtxs'[g] \subseteq openBodies'[g]
    BY <1>1, <1>2, <1>3, <1>14, <2>1
  <2>3. LeakPart(g)' /\ BodyPart(g)' /\ StreamPart(g)'
    BY <2>1, <2>2 DEF LeakPart, BodyPart, StreamPart, before, between, over
  <2>4. LastPart(g)' /\ LatePart(g)'
    BY <1>0, <1>3, <1>4, <1>5, <2>1 DEF CallInv, LastPart, LatePart, before, between, over
  <2>5. SentPart(g)'
    BY <1>0, <1>2, <1>3, <1>4, <1>5, <2>1 DEF CallInv, SentPart, mayRepeat, between, s, n
  <2> QED
    BY <1>13, <1>17, <2>3, <2>4, <2>5 DEF CallInv
<1> QED
  BY <1>12, <1>18, <1>19, <1>20

-------------------------------------------------------------------------------
(* The invariant holds. *)

\* It holds before any call begins ...
LEMMA InitInv == Init => Inv
<1> SUFFICES ASSUME Init PROVE Inv
  OBVIOUS
<1> USE DEF Init, PickerInit, NoResult
<1>1. Types
  BY DEF Types, PickerTypeOK, Requests, before, between, over
<1>2. ASSUME NEW g \in Pickers PROVE CallInv(g)
  <2>1. HoldPart(g)
    <3>1. Cardinality(given[g]) = 0 /\ given[g] = {}
      BY FS_EmptySet
    <3>2. Len(attempts[g]) = 0 /\ Len(verdicts[g]) = 0 /\ attempts[g] = <<>>
      OBVIOUS
    <3> QED
      BY <3>1, <3>2 DEF HoldPart, before
  <2>2. LeakPart(g) /\ BodyPart(g)
    BY DEF LeakPart, BodyPart, before, between, over
  <2>3. SentPart(g) /\ StreamPart(g)
    BY DEF SentPart, StreamPart, before, between
  <2>4. LastPart(g) /\ LatePart(g)
    BY DEF LastPart, LatePart, before, over
  <2> QED
    BY <2>1, <2>2, <2>3, <2>4 DEF CallInv
<1> QED
  BY <1>1, <1>2 DEF Inv

\* ... and every step preserves it, for the call that takes it and for the others.
LEMMA StepInv == Inv /\ [Next]_vars => Inv'
<1> SUFFICES ASSUME Inv, [Next]_vars PROVE Inv'
  OBVIOUS
<1>1. ASSUME NEW g \in Pickers, Steps(g) PROVE Inv'
  <2>1. Types' /\ CallInv(g)'
    <3>1. CASE Begin(g) \/ Cancel(g) \/ CallerCloses(g)
      BY <3>1, CallerStep
    <3>2. CASE Step(g)
      BY <3>2, EntryStep, PrepareStep, LoopStep, PickStep, StartAttemptStep, ReplayFailsStep,
         FinishStep DEF Step
    <3> QED
      BY <1>1, <3>1, <3>2 DEF Steps
  <2>2. ASSUME NEW h \in Pickers, h # g PROVE CallInv(h)'
    <3>1. Types /\ CallInv(h)
      BY DEF Inv
    <3>2. View(h)' = View(h) /\ config' = config
      BY <1>1, <2>2, <3>1, OtherCalls
    <3> QED
      BY <3>1, <3>2, ViewInv
  <2> QED
    BY <2>1, <2>2 DEF Inv
<1>2. CASE UNCHANGED vars
  <2>1. Types'
    BY <1>2 DEF Inv, Types, PickerTypeOK, vars, pickerVars, bodyVars, respVars
  <2>2. ASSUME NEW h \in Pickers PROVE CallInv(h)'
    <3>1. View(h)' = View(h) /\ config' = config
      BY <1>2 DEF View, vars, pickerVars, bodyVars, respVars
    <3> QED
      BY <3>1, ViewInv DEF Inv
  <2> QED
    BY <2>1, <2>2 DEF Inv
<1> QED
  BY <1>1, <1>2, NextCases

\* The inductive invariant holds of every behaviour of RoundTrip.
THEOREM Invariance == Spec => []Inv
  BY InitInv, StepInv, PTL DEF Spec

-------------------------------------------------------------------------------
(* What RoundTrip promises. *)

\* Every field keeps its type, and a call makes at most as many attempts as the
\* upstream has peers that are not down, however the attempts end.
THEOREM TypesCorrect == Spec => []TypeOK
<1>1. Inv => TypeOK
  <2> SUFFICES ASSUME Inv PROVE TypeOK
    OBVIOUS
  <2>1. ASSUME NEW g \in Pickers
        PROVE  Len(attempts[g]) <= Cardinality({p \in Peers : ~Down(p)})
    <3>1. attempts[g] \in Seq(Attempt) /\ given[g] \subseteq Usable /\ Types /\ HoldPart(g)
      BY DEF Inv, Types, CallInv, HoldPart
    <3>2. /\ Cardinality(given[g]) <= Cardinality(Usable)
          /\ Cardinality(given[g]) \in Nat /\ Cardinality(Usable) \in Nat
      BY <3>1, GivenFinite
    <3>3. Len(attempts[g]) \in Nat /\ Len(attempts[g]) <= Cardinality(given[g])
      <4>1. CASE pc[g] = "picked"
        BY <3>1, <3>2, <4>1 DEF HoldPart
      <4>2. CASE pc[g] # "picked"
        BY <3>1, <3>2, <4>2 DEF HoldPart
      <4> QED
        BY <4>1, <4>2
    <3>4. Len(attempts[g]) <= Cardinality(Usable)
      BY <3>2, <3>3
    <3> QED
      BY <3>4 DEF Usable
  <2> QED
    BY <2>1 DEF Inv, Types, TypeOK, before, between, over
<1> QED
  BY <1>1, Invariance, PTL

\* A peer is held exactly from Pick to the end of the attempt, on every path out
\* of the loop, and the balancer gets one verdict per attempt.
THEOREM PeersReleased == Spec => []PeerHeldDuringAttempt
<1>1. Inv => PeerHeldDuringAttempt
  BY DEF Inv, CallInv, HoldPart, PeerHeldDuringAttempt
<1> QED
  BY <1>1, Invariance, PTL

\* At no point is a response body or an attempt's context open that nobody will
\* close any more.
THEOREM ResponsesClosed == Spec => []NothingLeaks
<1>1. Inv => NothingLeaks
  <2> SUFFICES ASSUME Inv, NEW g \in Pickers, LeakPart(g)
               PROVE  /\ pc[g] \in {"loop", "pick", "picked"} => openBodies[g] \subseteq {lastResp[g]}
                      /\ pc[g] = "inflight" => openBodies[g] = {}
                      /\ pc[g] = "returned" => openBodies[g] = {result[g].resp} \ {0}
                      /\ pc[g] \in {"loop", "pick", "picked", "returned"}
                         => openCtxs[g] \subseteq openBodies[g]
                      /\ pc[g] = "done" => openBodies[g] = {} /\ openCtxs[g] = {}
    BY DEF NothingLeaks, Inv, CallInv
  <2> QED
    BY DEF LeakPart, between
<1> QED
  BY <1>1, Invariance, PTL

\* The caller's body is closed and no temporary file is left when RoundTrip has
\* returned, and neither is taken away from an attempt that reads it.
THEOREM BodiesReleased == Spec => []RequestBodyReleased
<1>1. Inv => RequestBodyReleased
  BY DEF Inv, CallInv, BodyPart, RequestBodyReleased, over
<1> QED
  BY <1>1, Invariance, PTL

\* Without WithNonIdempotentRetries at most one peer receives a POST, LOCK or
\* PATCH, with any RoundTripper and any retry condition.
THEOREM SentOnce == Spec => []NonIdempotentSentOnce
<1>1. Inv => NonIdempotentSentOnce
  BY DEF Inv, CallInv, SentPart, mayRepeat, NonIdempotentSentOnce
<1> QED
  BY <1>1, Invariance, PTL

\* prepareBody may pass a stream through without a copy: no attempt starts after
\* some of it was consumed.
THEOREM StreamsNotReplayed == Spec => []StreamNeverReplayed
<1>1. Inv => StreamNeverReplayed
  BY DEF Inv, CallInv, StreamPart, StreamNeverReplayed
<1> QED
  BY <1>1, Invariance, PTL

\* RoundTrip returns what the last attempt produced, and ErrNoPeerAvailable only
\* when there was none.
THEOREM LastResultReturned == Spec => []LastAttemptReturned
<1>1. Inv => LastAttemptReturned
  BY DEF Inv, CallInv, LastPart, LastAttemptReturned, over
<1> QED
  BY <1>1, Invariance, PTL

\* After the caller gave up at most one more attempt is started.
THEOREM CancelStopsLoop == Spec => []NoFanOutAfterCancel
<1>1. Inv => NoFanOutAfterCancel
  BY DEF Inv, CallInv, LatePart, NoFanOutAfterCancel
<1> QED
  BY <1>1, Invariance, PTL
===============================================================================
