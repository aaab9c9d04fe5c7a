------------------------------ MODULE RoundRobin ------------------------------
(***************************************************************************)
(* The peer groups of an upstream and the round-robin picker on top of     *)
(* them: balancer.go, roundrobin.go and util.go of cslb.                   *)
(*                                                                         *)
(* Peers are shared by every request; their mutable fields are guarded by  *)
(* the mutex of the group they belong to.  A critical section is one       *)
(* action, so an action of this module is what one goroutine does between  *)
(* a Lock and its Unlock.  A Pick that finds nothing in the primary group  *)
(* unlocks it before it locks the backup group: those are two actions, and *)
(* anything may happen in between.                                         *)
(*                                                                         *)
(* The other balancers embed RRPicker; their modules extend this one and   *)
(* only replace the way a peer is chosen.                                  *)
(***************************************************************************)
EXTENDS Integers, FiniteSets

CONSTANTS
    NPeers,             \* number of configured servers
    Server,             \* their configuration, in the order it was given
    DefaultFailTimeout, \* FailTimeout of a server that does not set one
    Pickers,            \* slots for the requests that are in progress at once
    StartTime,          \* first reading of the clock
    MaxTime,            \* bound: last reading of the clock
    MaxRequests         \* bound: number of requests that are ever started

Peers == 1 .. NPeers
Explicit == {"Weight", "MaxFails", "FailTimeout"}

ServerConfig == [Weight : Int, MaxFails : Int, FailTimeout : Nat, MaxConns : Int,
                 Down : BOOLEAN, Backup : BOOLEAN, explicit : SUBSET Explicit]

ASSUME ServersAssumption ==
    /\ NPeers \in Nat
    /\ Server \in [Peers -> ServerConfig]
    /\ DefaultFailTimeout \in Nat

ASSUME BoundsAssumption ==
    /\ IsFiniteSet(Pickers)
    /\ MaxTime \in Nat
    /\ MaxRequests \in Nat

-------------------------------------------------------------------------------
(* The configuration after Peer.init. *)

Weight(p) == IF Server[p].Weight <= 0 THEN 1 ELSE Server[p].Weight

MaxFails(p) ==
    IF Server[p].MaxFails = 0 /\ "MaxFails" \notin Server[p].explicit
    THEN 1 ELSE Server[p].MaxFails

FailTimeout(p) ==
    IF Server[p].FailTimeout = 0 /\ "FailTimeout" \notin Server[p].explicit
    THEN DefaultFailTimeout ELSE Server[p].FailTimeout

MaxConns(p) == Server[p].MaxConns
Down(p) == Server[p].Down

\* A peer that was never used has the zero time.Time, here 0, in accessed and
\* checked: any clock reading is further from it than any FailTimeout.
ASSUME TimeAssumption ==
    StartTime \in Nat /\ \A p \in Peers : StartTime > FailTimeout(p)

(* BuildGroups: the primary and the backup group, and nginx's fast path for  *)
(* an upstream that consists of one server.                                  *)
Backup  == {p \in Peers : Server[p].Backup}
Primary == Peers \ Backup
single  == Backup = {} /\ Cardinality(Primary) = 1

-------------------------------------------------------------------------------
VARIABLES
    \* Mutable fields of Peer, each a function on Peers.
    currentWeight, effectiveWeight, conns, fails, accessed, checked, checkedSeq,
    \* The clock that time.Now reads.
    now,
    \* Fields of RRPicker, each a function on Pickers.
    tried, backupPhase, probeChecked,
    \* Where the request is: "none" (no picker), "ready" (holds no peer),
    \* "backup" (nothing in the primary group, backup group not yet locked) or
    \* "busy" (holds peerOf, whose Done is due).
    pc, peerOf,
    \* Number of requests started so far.
    started,
    \* Auxiliary, read by properties only: the peers Pick returned to this
    \* request, when it returned peerOf, and whether that was a recovery probe.
    picked, pickedAt, probing

weightVars == <<currentWeight, effectiveWeight>>
healthVars == <<fails, accessed, checked, checkedSeq>>
auxVars    == <<picked, pickedAt, probing>>
vars == <<weightVars, healthVars, conns, now, tried, backupPhase, probeChecked,
          pc, peerOf, started, auxVars>>

NoPeer  == 0
\* checkedSeq is at least 1 once checked was written, so 0 marks an absent entry.
NoProbe == [prior |-> 0, seq |-> 0]

TypeOK ==
    /\ currentWeight \in [Peers -> Int]
    /\ effectiveWeight \in [Peers -> Nat]
    /\ \A p \in Peers : effectiveWeight[p] <= Weight(p)
    /\ conns \in [Peers -> Int]
    /\ fails \in [Peers -> Nat]
    /\ accessed \in [Peers -> Nat]
    /\ checked \in [Peers -> Nat]
    /\ checkedSeq \in [Peers -> Nat]
    /\ now \in Nat
    /\ tried \in [Pickers -> SUBSET Peers]
    /\ backupPhase \in [Pickers -> BOOLEAN]
    /\ probeChecked \in [Pickers -> [Peers -> [prior : Nat, seq : Nat]]]
    /\ pc \in [Pickers -> {"none", "ready", "backup", "busy"}]
    /\ peerOf \in [Pickers -> Peers \cup {NoPeer}]
    /\ started \in Nat
    /\ picked \in [Pickers -> SUBSET Peers]
    /\ pickedAt \in [Pickers -> Nat]
    /\ probing \in [Pickers -> BOOLEAN]

Init ==
    /\ currentWeight = [p \in Peers |-> 0]
    /\ effectiveWeight = [p \in Peers |-> Weight(p)]
    /\ conns = [p \in Peers |-> 0]
    /\ fails = [p \in Peers |-> 0]
    /\ accessed = [p \in Peers |-> 0]
    /\ checked = [p \in Peers |-> 0]
    /\ checkedSeq = [p \in Peers |-> 0]
    /\ now = StartTime
    /\ tried = [g \in Pickers |-> {}]
    /\ backupPhase = [g \in Pickers |-> FALSE]
    /\ probeChecked = [g \in Pickers |-> [p \in Peers |-> NoProbe]]
    /\ pc = [g \in Pickers |-> "none"]
    /\ peerOf = [g \in Pickers |-> NoPeer]
    /\ started = 0
    /\ picked = [g \in Pickers |-> {}]
    /\ pickedAt = [g \in Pickers |-> 0]
    /\ probing = [g \in Pickers |-> FALSE]

-------------------------------------------------------------------------------
(* Health and capacity of a peer. *)

\* Mutant of Quarantined: the suspension ends one reading of the clock early.
QuarantinedShorter(p, t) ==
    /\ MaxFails(p) > 0
    /\ fails[p] >= MaxFails(p)
    /\ t - checked[p] < FailTimeout(p)

\* max_fails failures, and the last write of checked is at most fail_timeout old.
Quarantined(p, t) ==
    /\ MaxFails(p) > 0
    /\ fails[p] >= MaxFails(p)
    /\ t - checked[p] <= FailTimeout(p)

\* Mutant of HasRoom: one connection too many.
HasRoomOffByOne(p) == MaxConns(p) > 0 => conns[p] <= MaxConns(p)

HasRoom(p) == MaxConns(p) > 0 => conns[p] < MaxConns(p)

peerAvailable(p, t) == ~Quarantined(p, t) /\ HasRoom(p)

\* Mutant of Selectable: Pick does not look at tried.
SelectableAgain(g, G, t) ==
    {p \in G : ~Down(p) /\ IF single THEN HasRoom(p) ELSE peerAvailable(p, t)}

\* The peers of group G that Pick may return to request g at time t.  The
\* single-peer fast path does not look at the failure counters.
Selectable(g, G, t) ==
    {p \in G : /\ p \notin tried[g]
               /\ ~Down(p)
               /\ IF single THEN HasRoom(p) ELSE peerAvailable(p, t)}

setChecked(p, t) ==
    /\ checked' = [checked EXCEPT ![p] = t]
    /\ checkedSeq' = [checkedSeq EXCEPT ![p] = @ + 1]

-------------------------------------------------------------------------------
(* Selection. *)

\* The sum of f over the peers of S, added up in the order of the slice.
total(f, S) ==
    LET sum[i \in 0 .. NPeers] ==
            IF i = 0 THEN 0 ELSE sum[i - 1] + (IF i \in S THEN f[i] ELSE 0)
    IN  sum[NPeers]

\* PeerGroup.TotalWeight of a group S, and the same for some of its peers.  As a
\* mutant of TotalEffectiveWeight: the configured weights are summed.
TotalWeight(S) == total([p \in Peers |-> Weight(p)], S)

\* What smoothWeightedPeer adds up over the eligible peers.
TotalEffectiveWeight(S) == total(effectiveWeight, S)

\* One round of smooth weighted round-robin over the eligible peers E.  The scan
\* goes through the slice in order and replaces best only by a larger
\* currentWeight, so among equals the first one wins.
smoothWeightedPeer(E, best) ==
    LET cw == [p \in Peers |-> IF p \in E THEN currentWeight[p] + effectiveWeight[p]
                                          ELSE currentWeight[p]]
    IN  /\ \A q \in E : \/ cw[q] < cw[best]
                        \/ cw[q] = cw[best] /\ best <= q
        /\ currentWeight' = [cw EXCEPT ![best] = @ - TotalEffectiveWeight(E)]
        /\ effectiveWeight' =
               [p \in Peers |-> IF p \in E /\ effectiveWeight[p] < Weight(p)
                                THEN effectiveWeight[p] + 1 ELSE effectiveWeight[p]]

\* Request g now holds peer p.
take(g, p) ==
    /\ conns' = [conns EXCEPT ![p] = @ + 1]
    /\ tried' = [tried EXCEPT ![g] = @ \cup {p}]
    /\ pc' = [pc EXCEPT ![g] = "busy"]
    /\ peerOf' = [peerOf EXCEPT ![g] = p]
    /\ picked' = [picked EXCEPT ![g] = @ \cup {p}]
    /\ pickedAt' = [pickedAt EXCEPT ![g] = now]
    /\ probing' = [probing EXCEPT ![g] = ~single /\ MaxFails(p) > 0 /\ fails[p] >= MaxFails(p)]

\* Mutant of commitPeer: the recovery probe does not advance checked.
commitWithoutProbe(g, p, t) ==
    take(g, p) /\ UNCHANGED <<healthVars, probeChecked>>

\* t is the clock reading the picker took when it entered the critical section.
commitPeer(g, p, t) ==
    /\ IF t - checked[p] > FailTimeout(p)
       THEN /\ setChecked(p, t)
            /\ probeChecked' = [probeChecked EXCEPT
                   ![g][p] = [prior |-> checked[p], seq |-> checkedSeq[p] + 1]]
       ELSE UNCHANGED <<checked, checkedSeq, probeChecked>>
    /\ take(g, p)
    /\ UNCHANGED <<fails, accessed>>

\* RRPicker.pickFromGroup, when it returns a peer.
pickFromGroup(g, G) ==
    LET E == Selectable(g, G, now) IN
    \E best \in E :
        IF single
        THEN take(g, best) /\ UNCHANGED <<weightVars, healthVars, probeChecked>>
        ELSE smoothWeightedPeer(E, best) /\ commitPeer(g, best, now)

\* The request ends and its picker becomes garbage.
dismiss(g) ==
    /\ pc' = [pc EXCEPT ![g] = "none"]
    /\ tried' = [tried EXCEPT ![g] = {}]
    /\ backupPhase' = [backupPhase EXCEPT ![g] = FALSE]
    /\ probeChecked' = [probeChecked EXCEPT ![g] = [p \in Peers |-> NoProbe]]
    /\ picked' = [picked EXCEPT ![g] = {}]
    /\ UNCHANGED <<weightVars, healthVars, conns, now, peerOf, started, pickedAt, probing>>

-------------------------------------------------------------------------------
(* Actions. *)

NewPicker(g) ==
    /\ pc[g] = "none"
    /\ started < MaxRequests
    /\ started' = started + 1
    /\ pc' = [pc EXCEPT ![g] = "ready"]
    /\ UNCHANGED <<weightVars, healthVars, conns, now, tried, backupPhase,
                   probeChecked, peerOf, auxVars>>

\* pickWithBackup on the primary group, which returns a peer.
PickPrimary(g) ==
    /\ pc[g] = "ready" /\ ~backupPhase[g]
    /\ pickFromGroup(g, Primary)
    /\ UNCHANGED <<now, backupPhase, started>>

\* The primary group has nothing: turn to the backup group, forgetting which of
\* its peers were tried, or return nil when there is none.
PrimaryExhausted(g) ==
    /\ pc[g] = "ready" /\ ~backupPhase[g]
    /\ Selectable(g, Primary, now) = {}
    /\ IF Backup = {}
       THEN dismiss(g)
       ELSE /\ pc' = [pc EXCEPT ![g] = "backup"]
            /\ backupPhase' = [backupPhase EXCEPT ![g] = TRUE]
            /\ tried' = [tried EXCEPT ![g] = @ \ Backup]
            /\ UNCHANGED <<weightVars, healthVars, conns, now, probeChecked,
                           peerOf, started, auxVars>>

\* Once in the backup phase, later Picks go to the backup group directly.
inBackupPhase(g) == pc[g] = "backup" \/ (pc[g] = "ready" /\ backupPhase[g])

PickBackup(g) ==
    /\ inBackupPhase(g)
    /\ pickFromGroup(g, Backup)
    /\ UNCHANGED <<now, backupPhase, started>>

\* Mutant of BackupExhausted: Pick waits for a peer instead of returning nil.
BackupExhaustedWaits(g) ==
    /\ inBackupPhase(g)
    /\ Selectable(g, Backup, now) = {}
    /\ UNCHANGED vars

BackupExhausted(g) ==
    /\ inBackupPhase(g)
    /\ Selectable(g, Backup, now) = {}
    /\ dismiss(g)

\* Mutant of recordFailure: the reduced weight is not clamped at zero.
recordFailureUnclamped(p) ==
    /\ fails' = [fails EXCEPT ![p] = @ + 1]
    /\ accessed' = [accessed EXCEPT ![p] = now]
    /\ setChecked(p, now)
    /\ effectiveWeight' = [effectiveWeight EXCEPT ![p] =
           @ - IF MaxFails(p) > 0 THEN Weight(p) \div MaxFails(p) ELSE 0]
    /\ UNCHANGED <<currentWeight, probeChecked>>

\* What done does to the health of a peer of a group that is not single.
recordFailure(p) ==
    /\ fails' = [fails EXCEPT ![p] = @ + 1]
    /\ accessed' = [accessed EXCEPT ![p] = now]
    /\ setChecked(p, now)
    /\ LET penalty == IF MaxFails(p) > 0 THEN Weight(p) \div MaxFails(p) ELSE 0
           reduced == effectiveWeight[p] - penalty
       IN  effectiveWeight' = [effectiveWeight EXCEPT ![p] = IF reduced < 0 THEN 0 ELSE reduced]
    /\ UNCHANGED <<currentWeight, probeChecked>>

\* Mutant of recordSuccess: the comparison is turned around.
recordSuccessSwapped(p) ==
    /\ fails' = IF checked[p] < accessed[p] THEN [fails EXCEPT ![p] = 0] ELSE fails
    /\ UNCHANGED <<weightVars, accessed, checked, checkedSeq, probeChecked>>

recordSuccess(p) ==
    /\ fails' = IF accessed[p] < checked[p] THEN [fails EXCEPT ![p] = 0] ELSE fails
    /\ UNCHANGED <<weightVars, accessed, checked, checkedSeq, probeChecked>>

\* probeChecked of request g has an entry for p.
advanced(g, p) == probeChecked[g][p].seq > 0

\* Mutant of ownsProbe: whoever advanced checked puts it back.
ownsProbeAlways(g, p) == advanced(g, p)

\* checked still is what request g wrote when it picked p.
ownsProbe(g, p) == advanced(g, p) /\ checkedSeq[p] = probeChecked[g][p].seq

\* Mutant of recordNothing: the recovery probe is not handed back.
recordNothingAtAll(g, p) ==
    UNCHANGED <<weightVars, healthVars, probeChecked>>

recordNothing(g, p) ==
    /\ IF ownsProbe(g, p)
       THEN setChecked(p, probeChecked[g][p].prior)
       ELSE UNCHANGED <<checked, checkedSeq>>
    /\ probeChecked' = [probeChecked EXCEPT ![g][p] = NoProbe]
    /\ UNCHANGED <<weightVars, fails, accessed>>

\* Mutant of release: a backup is not given back.
releasePrimary(p) ==
    conns' = IF p \in Primary THEN [conns EXCEPT ![p] = @ - 1] ELSE conns

release(p) == conns' = [conns EXCEPT ![p] = @ - 1]

Outcomes == {"failed", "ok", "neutral"}

\* Done(peer, failed) and doneNeutral(peer).
Done(g, outcome) ==
    LET p == peerOf[g] IN
    /\ pc[g] = "busy"
    /\ IF single
       THEN /\ fails' = [fails EXCEPT ![p] = 0]
            /\ UNCHANGED <<weightVars, accessed, checked, checkedSeq, probeChecked>>
       ELSE \/ outcome = "failed"  /\ recordFailure(p)
            \/ outcome = "ok"      /\ recordSuccess(p)
            \/ outcome = "neutral" /\ recordNothing(g, p)
    /\ release(p)
    /\ pc' = [pc EXCEPT ![g] = "ready"]
    /\ peerOf' = [peerOf EXCEPT ![g] = NoPeer]
    /\ probing' = [probing EXCEPT ![g] = FALSE]
    /\ pickedAt' = [pickedAt EXCEPT ![g] = 0]
    /\ UNCHANGED <<now, tried, backupPhase, started, picked>>

\* The caller does not retry: PickOne's result was Done'd, PickWithRetry and
\* RoundTrip return what they have.
Finish(g) == pc[g] = "ready" /\ dismiss(g)

\* The clock is coarse: any number of steps may read the same instant.
Tick ==
    /\ now < MaxTime
    /\ now' = now + 1
    /\ UNCHANGED <<weightVars, healthVars, conns, tried, backupPhase, probeChecked,
                   pc, peerOf, started, auxVars>>

Step(g) ==
    \/ PickPrimary(g)
    \/ PrimaryExhausted(g)
    \/ PickBackup(g)
    \/ BackupExhausted(g)
    \/ \E outcome \in Outcomes : Done(g, outcome)

\* Nothing is in progress and the bounds are used up: the only place to stop.
Idle ==
    /\ \A g \in Pickers : pc[g] = "none"
    /\ started = MaxRequests
    /\ now = MaxTime
    /\ UNCHANGED vars

Next ==
    \/ \E g \in Pickers : NewPicker(g) \/ Step(g) \/ Finish(g)
    \/ Tick
    \/ Idle

Spec == Init /\ [][Next]_vars

-------------------------------------------------------------------------------
(* Properties. *)

Holders(p) == {g \in Pickers : pc[g] = "busy" /\ peerOf[g] = p}

\* A peer's connection count is the number of requests that hold it: every Pick
\* is paid back exactly once, whatever the outcome, the group and the order in
\* which the requests finish (RRPicker.done, roundrobin.go).
ConnsMatchHolders == \A p \in Peers : conns[p] = Cardinality(Holders(p))

\* max_conns is never exceeded, however the picks of concurrent requests
\* interleave (the check and the increment are in one critical section).
MaxConnsRespected ==
    \A p \in Peers : MaxConns(p) > 0 => Cardinality(Holders(p)) <= MaxConns(p)

\* Smooth weighted round-robin only moves credit between the peers of a group:
\* the current weights of a group add up to zero after any number of rounds with
\* any eligible sets and any degraded weights (smoothWeightedPeer).
WeightsBalanced ==
    /\ total(currentWeight, Primary) = 0
    /\ total(currentWeight, Backup) = 0

\* A recovery probe keeps everybody else away from the peer: two requests that
\* hold a suspended peer as its probe were admitted more than fail_timeout apart
\* ("a peer at max_fails is skipped by everyone else", commitPeer).
OneProbePerWindow ==
    \A g, h \in Pickers :
        /\ g # h
        /\ probing[g] /\ probing[h]
        /\ peerOf[g] = peerOf[h]
        => \/ pickedAt[g] - pickedAt[h] > FailTimeout(peerOf[g])
           \/ pickedAt[h] - pickedAt[g] > FailTimeout(peerOf[g])

\* A peer is only kept out of selection by a real failure at most fail_timeout
\* ago, or by a request still in flight to it that it was given within that time.
\* In particular requests that are released neutrally (caller cancellations,
\* local defects) never suspend a peer (RRPicker.done, neutral branch).
NoOrphanQuarantine ==
    \A p \in Peers :
        ~single /\ Quarantined(p, now)
        => \/ now - accessed[p] <= FailTimeout(p)
           \/ \E g \in Holders(p) : now - pickedAt[g] <= FailTimeout(p)

\* Step in which request g obtains peer p.
Picks(g, p) == pc[g] # "busy" /\ pc'[g] = "busy" /\ peerOf'[g] = p

\* No request is sent to a peer whose last real failure, with max_fails reached,
\* is at most fail_timeout old: no neutral release and no probe can lift the
\* suspension early ("a neutral release can never erase an active quarantine",
\* CHANGELOG.md).
QuarantineHonoured ==
    [][\A g \in Pickers, p \in Peers :
          Picks(g, p) /\ ~single /\ MaxFails(p) > 0 /\ fails[p] >= MaxFails(p)
          => now - accessed[p] > FailTimeout(p)]_vars

\* A recovery probe that succeeds makes the peer healthy again, unless a failure
\* was recorded since the probe started (done, success branch).
ProbeSuccessHeals ==
    [][\A g \in Pickers :
          probing[g] /\ Done(g, "ok") /\ accessed[peerOf[g]] < pickedAt[g]
          => fails'[peerOf[g]] = 0]_vars

\* The contract of every balancer: no peer twice for a request (although entering
\* the backup phase forgets which backups were tried), none that is down or at
\* max_conns, no way back from the backups.  The connection count the code keeps
\* is replaced by the requests that hold the peer.
Contract == INSTANCE Picker WITH
    holding <- peerOf,
    given   <- picked

\* Every behaviour of the round-robin picker, with all its interleavings, is one
\* the contract allows (Picker, balancer.go).
ImplementsPicker == Contract!PickerSpec

\* A request turns to the backups only after it found, within one critical
\* section, no primary it could use, and gets a backup only then (pickWithBackup).
BackupsLast ==
    [][\A g \in Pickers :
          /\ ~backupPhase[g] /\ backupPhase'[g]
             => \A p \in Primary : \/ p \in picked[g] \/ Down(p)
                                   \/ Quarantined(p, now) \/ ~HasRoom(p)
          /\ \A p \in Backup : Picks(g, p) => backupPhase[g]]_vars

\* Every request comes to an end: the retry loop of PickWithRetry and RoundTrip
\* runs out of peers.
RequestEnds == \A g \in Pickers : pc[g] # "none" ~> pc[g] = "none"

-------------------------------------------------------------------------------
(* The inductive invariant behind the safety properties. *)

\* What a request holds and what it has been given.  Whatever it was given is in
\* tried, and forgetting the tried backups forgets nothing it was given.
HoldInv ==
    \A g \in Pickers :
        /\ pc[g] = "busy" <=> peerOf[g] # NoPeer
        /\ probing[g] => pc[g] = "busy"
        /\ pc[g] = "backup" => backupPhase[g]
        /\ picked[g] \subseteq tried[g]
        /\ ~backupPhase[g] => picked[g] \cap Backup = {}

\* checked is never older than the last failure, also after a rollback.
HealthInv == \A p \in Peers : accessed[p] <= checked[p] /\ checked[p] <= now

\* An advance of checked that may still be rolled back goes back to an instant at
\* which the peer was not suspended, and not behind a failure.
RollbackInv ==
    \A g \in Pickers, p \in Peers :
        advanced(g, p)
        => /\ probeChecked[g][p].seq <= checkedSeq[p]
           /\ now - probeChecked[g][p].prior > FailTimeout(p)
           /\ ownsProbe(g, p) => accessed[p] <= probeChecked[g][p].prior

\* While a probe runs, checked stays at or after its start, whoever rolls back.
WindowInv ==
    \A g \in Pickers, p \in Peers :
        probing[g] /\ peerOf[g] = p
        => /\ pickedAt[g] <= checked[p]
           /\ \A h \in Pickers \ {g} :
                 ownsProbe(h, p) => pickedAt[g] <= probeChecked[h][p].prior

\* Where checked comes from when a peer has used up max_fails: its last failure, a
\* request that holds it and can still put checked back, or long ago.
SuspensionInv ==
    \A p \in Peers :
        ~single /\ MaxFails(p) > 0 /\ fails[p] >= MaxFails(p)
        => \/ checked[p] = accessed[p]
           \/ now - checked[p] > FailTimeout(p)
           \/ \E g \in Holders(p) : ownsProbe(g, p) /\ pickedAt[g] = checked[p]

===============================================================================
