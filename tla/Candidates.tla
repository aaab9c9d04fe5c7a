------------------------------ MODULE Candidates ------------------------------
(***************************************************************************)
(* What the random, hash and consistent-hash pickers of cslb have in       *)
(* common.  Each embeds RRPicker and puts a loop in front of its Pick: one *)
(* candidate after the other is drawn or computed, the first that may be   *)
(* used is committed, and a request that had MaxTries + 1 of them rejected *)
(* is left to RRPicker.Pick for the rest of its life.                      *)
(*                                                                         *)
(* The loop runs in one critical section of the group, which reads the     *)
(* clock several times: once for commitPeer, before the loop, and in       *)
(* peerAvailable for each candidate.  The clock may have moved in between. *)
(* RRPicker.Pick takes the lock again, so anything may happen between the  *)
(* loop that gave up and the round-robin choice.                           *)
(***************************************************************************)
EXTENDS RoundRobin

CONSTANTS
    MaxTries,   \* maxHashTries, maxIPHashTries, maxRandomTries: 20 in the code
    Keys,       \* what the requests are hashed by, NoKey for some of them
    NoKey       \* no key, or no client address

ASSUME CandidatesAssumption == MaxTries \in Nat

VARIABLES
    key,          \* the key of the request
    tries,        \* candidates that were rejected for the request so far
    hashed,       \* hash values computed for the request so far
    fallingBack   \* the loop of the Pick in progress gave up

pickerFields == <<key, tries, hashed, fallingBack>>
allVars == <<vars, pickerFields>>

\* A request has at most MaxTries + 1 candidates rejected and gets each peer once.
MaxHashes == MaxTries + 1 + NPeers

CandidatesTypeOK ==
    /\ TypeOK
    /\ key \in [Pickers -> Keys \cup {NoKey}]
    /\ tries \in [Pickers -> 0 .. MaxTries + 1]
    /\ hashed \in [Pickers -> 0 .. MaxHashes]
    /\ fallingBack \in [Pickers -> BOOLEAN]

CandidatesInit ==
    /\ Init
    /\ key = [g \in Pickers |-> NoKey]
    /\ tries = [g \in Pickers |-> 0]
    /\ hashed = [g \in Pickers |-> 0]
    /\ fallingBack = [g \in Pickers |-> FALSE]

-------------------------------------------------------------------------------
\* The peer of group G, taken in order, whose share of the weights holds w: each
\* peer's weight is subtracted from w until the rest is negative.
owner(G, w) ==
    CHOOSE p \in G : /\ TotalWeight({q \in G : q < p}) <= w
                     /\ w < TotalWeight({q \in G : q <= p})

\* What the clock may show when peerAvailable reads it in a critical section that
\* began at now.
Readings == {now} \cup {t \in {now + 1} : t <= MaxTime}

\* Pick enters the candidate loop.
mayTry(g) == pc[g] = "ready" /\ tries[g] <= MaxTries

\* Peer p, let in by the reading t, is committed with the reading before the loop;
\* n candidates were rejected.
commitCandidate(g, p, t, n) ==
    /\ commitPeer(g, p, now)
    /\ now' = t
    /\ tries' = [tries EXCEPT ![g] = @ + n]
    /\ UNCHANGED <<backupPhase, started, key, fallingBack>>

\* Mutant of giveUp: the round-robin choice among the primaries is skipped.
giveUpPrimaries(g) ==
    /\ tries' = [tries EXCEPT ![g] = MaxTries + 1]
    /\ fallingBack' = [fallingBack EXCEPT ![g] = TRUE]
    /\ backupPhase' = [backupPhase EXCEPT ![g] = TRUE]
    /\ UNCHANGED <<weightVars, healthVars, conns, now, tried, probeChecked, pc, peerOf,
                   started, auxVars, key>>

\* The budget is used up: unlock; RRPicker.Pick comes next.
giveUp(g) ==
    /\ tries' = [tries EXCEPT ![g] = MaxTries + 1]
    /\ fallingBack' = [fallingBack EXCEPT ![g] = TRUE]
    /\ UNCHANGED <<vars, key>>

\* The loop over computed candidates, C[n] being given by the n-th hash value.
\* A candidate that the first reading does not reject is not rejected by a later
\* one, so the rejected ones are those that may not be used at now.
tryCandidates(g, G, C) ==
    /\ mayTry(g)
    /\ \E t \in Readings, n \in 0 .. MaxTries - tries[g] :
          LET p == C[hashed[g] + n + 1] IN
          /\ \A i \in 1 .. n : C[hashed[g] + i] \notin Selectable(g, G, now)
          /\ p \in Selectable(g, G, t)
          /\ commitCandidate(g, p, t, n)
          /\ hashed' = [hashed EXCEPT ![g] = @ + n + 1]
    /\ UNCHANGED weightVars

candidatesExhausted(g, G, C) ==
    /\ mayTry(g)
    /\ \A i \in 1 .. MaxTries - tries[g] + 1 : C[hashed[g] + i] \notin Selectable(g, G, now)
    /\ giveUp(g)
    /\ UNCHANGED hashed

-------------------------------------------------------------------------------
\* A picker of a request with key k.
NewPickerForKey(g, k) ==
    /\ NewPicker(g)
    /\ key' = [key EXCEPT ![g] = k]
    /\ UNCHANGED <<tries, hashed, fallingBack>>

\* The picker becomes garbage together with the request.
fieldsAfter(g) ==
    LET reset(f, v) == IF pc'[g] = "none" THEN [f EXCEPT ![g] = v] ELSE f IN
    /\ key' = reset(key, NoKey)
    /\ tries' = reset(tries, 0)
    /\ hashed' = reset(hashed, 0)
    /\ fallingBack' = [fallingBack EXCEPT ![g] = pc'[g] = "backup" /\ @]

\* RRPicker.Pick: its two critical sections and its ways to return nil.
RRPick(g) ==
    /\ \/ PickPrimary(g)
       \/ PrimaryExhausted(g)
       \/ PickBackup(g)
       \/ BackupExhausted(g)
    /\ fieldsAfter(g)

CandidatesDone(g) ==
    /\ \E outcome \in Outcomes : Done(g, outcome)
    /\ UNCHANGED pickerFields

\* The caller stops between two Picks, never in the middle of one.
CandidatesFinish(g) == ~fallingBack[g] /\ Finish(g) /\ fieldsAfter(g)

\* The clock moves, or the bounds are used up.
Environment == (Tick \/ Idle) /\ UNCHANGED pickerFields

-------------------------------------------------------------------------------
(* Properties. *)

\* No peer is used at a time at which its last failure, with max_fails reached,
\* is at most fail_timeout old, by the clock reading that let it in.
SuspensionHonoured ==
    [][\A g \in Pickers, p \in Peers :
          Picks(g, p) /\ ~single /\ MaxFails(p) > 0 /\ fails[p] >= MaxFails(p)
          => now' - accessed[p] > FailTimeout(p)]_vars

===============================================================================
