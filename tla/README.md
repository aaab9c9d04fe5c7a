# A TLA+ model of cslb

cslb is a client-side load balancer for Go: an `http.RoundTripper` that matches a
request against configured upstreams, chooses a backend with one of nginx's
algorithms, forwards the request and, when an attempt fails, tries the next
backend. This directory models it in TLA+, checks the models with TLC on small
instances and proves their safety properties with TLAPS: for every pool, every
configuration and every number of concurrent requests.

## The system

| Part | Source | State | Operations |
|------|--------|-------|------------|
| Peers and groups | `balancer.go` | per peer: `currentWeight`, `effectiveWeight`, `conns`, `fails`, `accessed`, `checked`, `checkedSeq`; shared by all requests, one mutex per group | `init`, `BuildGroups`, `setChecked` |
| Picker contract | `balancer.go` | - | `Pick`, `Done`, `PickOne`, `PickWithRetry` |
| Round-robin picker | `roundrobin.go`, `util.go` | per request: `tried`, `backupPhase`, `probeChecked` | `Pick` (primary, then backup group), `Done`, `doneNeutral` |
| Least-connections picker | `leastconn.go` | embeds `RRPicker` | `Pick` |
| Random, IP-hash, hash, consistent-hash pickers | `random.go`, `iphash.go`, `hash.go`, `chash.go` | embed `RRPicker`; a try budget, a hash or ring cursor that outlive a `Pick` | `Pick`; the ring is built once |
| Retry loop | `transport.go` | per call: the last response and error, the attempt's context, the body | `RoundTrip` |
| Request body | `transport.go` | the caller's body, a buffer, a temporary file | `prepareBody`, `getBody`, `cleanup` |
| Registration | `transport.go` | `upstreams`, `transport`, `initErr`, the settings | options, validation, `newBalancer`; runs once, before the first request; `newPicker` for each request |

How they interact. A call of `RoundTrip` creates a picker, asks it for a peer,
hands the request to the underlying `RoundTripper`, reports a verdict
(`Done(failed)`, `Done(ok)` or the neutral `doneNeutral`) and either returns or
asks for the next peer. Pickers of different requests meet only in the peers'
fields, under the group's mutex. The caller may cancel at any time. A standard
`*http.Transport` sends the request body from a goroutine of its own, which shares
the reader with the retry loop.

What is hard about it:

- suspension after `max_fails` failures and the *recovery probe*: the first request
  after `fail_timeout` advances `checked` so that everybody else stays away, and a
  neutral release has to give the probe back, unless somebody wrote `checked` since.
  The clock is coarse, so equal timestamps prove nothing (hence `checkedSeq`);
- a `Pick` that moves from the primary to the backup group holds no lock in between, and
  neither does one that gives up its hash or random candidates and falls back to
  round-robin;
- the hash and random pickers read the clock twice, once for `commitPeer` and once in
  `peerAvailable`, and keep a budget of candidates across `Pick`s;
- a ring in which checksums collide and peers share an address;
- options that are applied in any order and of which some are refused;
- the ways out of the retry loop: each must release the peer, close the previous
  response, cancel the attempt's context and dispose of the body;
- what may be sent twice: methods, the request-sent trace, streamed bodies;
- the sending goroutine that outlives an attempt.

`PROJECT.json` lists these as hazards, each at its line.

## The modules

| Module | Models | Extends |
|--------|--------|---------|
| `Picker` | abstract: what any picker promises a request | - |
| `RoundRobin` | peers, groups, round-robin picker | (instance of `Picker` as refinement) |
| `LeastConn` | least-connections picker | `RoundRobin` |
| `Candidates` | what the hash and random pickers share: candidates, budget, fallback | `RoundRobin` |
| `Hash`, `IPHash`, `Random`, `ConsistentHash` | the pickers of `hash.go`, `iphash.go`, `random.go`, `chash.go` | `Candidates` |
| `Balancers` | all seven algorithms of an upstream side by side (`newBalancer`, `newPicker`) | `LeastConn` and the four above |
| `RandomSelect` | the weighted draw: table of ranges and binary search | - |
| `ChashRing` | construction and lookup of the ring | - |
| `Transport` | `RoundTrip` | `Picker` |
| `BalancedTransport` | `RoundTrip` on the round-robin picker | `RoundRobin` (and an instance of `Transport`) |
| `BodyReplay` | the body between retry loop and sending goroutine | - |
| `Registration` | `NewTransportE`, options, validation, `newPicker` | - |
| `Loops` | induction over natural numbers and the course of a loop, as lemmas | - |
| `RoundRobinProofs` | round-robin proved: types, suspension and recovery, credit and the loop that moves it, connection counts, refinement of `Picker` | `RoundRobin`, `Loops` |
| `BalancersProofs` | the upstreams of all seven algorithms, proved | `Balancers`, `RoundRobinProofs` |
| `SelectionProofs` | the weighted draw and the ring, proved | `RandomSelect`, `ChashRing`, `Loops` |
| `TransportProofs` | the retry loop, proved | `Transport` |
| `BalancedTransportProofs` | the retry loop on the round-robin picker, proved | `BalancedTransport`, `RoundRobinProofs` |
| `BodyReplayProofs` | the replay of bodies, proved | `BodyReplay` |
| `RegistrationProofs` | the construction of a `Transport`, proved | `Registration`, `Loops` |
| `MCRoundRobin`, `MCBalancers`, `MCSelection`, `MCTransport`, `MCBalancedTransport`, `MCRegistration` | instances for TLC | |

**`Picker`** keeps, for each request, the peer it holds and the peers it was given.
`Pick` never gives a peer twice to a request, never one that is down or full, and
never a primary after a backup. All seven pickers are proved to implement it
(`RefinesPicker`, `UpstreamRefinesPicker`), and `Transport` is written on top of it, so
what is shown about the retry loop does not depend on the algorithm.

**`RoundRobin`**. A critical section is one action: `PickPrimary`, `PickBackup` (a
`Pick` that returns a peer), `PrimaryExhausted` (nothing in the primary group; the
request is then between the two locks, `pc = "backup"`), `BackupExhausted`, `Done`
(with the outcomes `failed`, `ok` and `neutral`). `NewPicker` and `Finish` are the
caller, `Tick` is the clock that `time.Now` reads; any number of steps may read the
same instant. The zero `time.Time` of an unused peer is 0 and the clock starts later
than any `fail_timeout`. The smooth weighted scan is stated by its result: the first
peer of the largest `currentWeight` wins; `ScanIsTheRound` proves that this is what the
loop of the code computes. The sum over the peers of a group is a
recursive function (`total`). `picked`, `pickedAt` and
`probing` are auxiliary: properties read them, no guard does.

**`LeastConn`** replaces only the choice: the scan is the code's loop as a
recursive function over the peers (`visit` is its body), then the second pass over the
ties.

**`Candidates`** and its four extensions put a loop over candidates in front of
`RRPicker.Pick`. The loop is one critical section, hence one action: either the first
candidate that may be used is committed (`tryCandidates`, `pickOne`, `pickTwo`,
`ChashPick`) or the budget is used up (`giveUp`) and `RRPick`, the actions of
`RoundRobin`, follows after the lock was free for a moment. The clock may move inside the
action: `commitPeer` uses `now`, the reading that lets the candidate in is `now` or the
next one, and the clock shows that one afterwards. A candidate that is acceptable at an
earlier reading is acceptable at a later one, so the rejected ones are judged at the
first. `tries` is the code's budget and `hashed` the number of hash values computed
(`rehash`, the rolling hash); it is not advanced when the picker gives up, since the
picker never hashes again. Keys of the hash pickers have an arbitrary checksum in `Hash`; `IPHash` computes
the real rolling hash. `Random` allows every sequence of draws.

**`Balancers`** composes the pickers: `algo`, chosen in the initial state and never
changed, is the algorithm of the upstream, as in `newBalancer`; `newPicker` gives a key
to those that hash. The properties of `RoundRobin` are stated once and checked for every
algorithm; `LeastLoadedPicked`, `NeverTheBusiest` and `KeyStaysWithServer` say what one
algorithm is there for.

**`RandomSelect`** builds the ranges peer by peer and takes one iteration of the binary
search per step. **`ChashRing`** takes any checksum chains (`chain`, in which equal
checksums have equal successors, as in the code) and changes of the pool as its steps:
the code builds a new ring for each pool. The loops of `buildChashRing` are recursive
functions: the points are generated peer by peer, sorted by insertion, which is what a
stable sort computes, and of those with the same hash the first is kept. Points carry the address, which is all that
the picker reads of a point's peer.

**`Registration`**. One action per option, `Build` for the end of `NewTransportE` and
`Request` for the way of a request up to its picker. An address is abstracted to whether
it parses and has a scheme of its own, a pattern to its (scheme, host). `initErr` is the
set of the errors joined so far.

**`BalancedTransport`** conjoins the actions: a step in which the retry loop calls the
balancer is a step of `Transport` and of `RoundRobin` at once, with the verdict of the
first as the outcome of the second; `Transport`'s `holding` is the picker's `peerOf`.

**`Transport`**. One action per stretch between two points where others can
interfere: `Start`, `PassThrough` (no upstream matches), `prepareBody`/`prepareBodyFails`, `CheckContext` (head of the
loop), `PickPeer`/`NoPeerLeft`, `StartAttempt`/`ReplayFails`, `FinishAttempt`. The
RoundTripper is the environment: a standard transport returns a response or an error,
before or after the request was sent; any other one may also break its contract.
`Cancel` happens at any time. Status codes are abstracted to what the code tells
apart: success, 403/404, a status that may be configured for retries. Response bodies
and attempt contexts are sets of open attempts, so a leak is visible. A response that
comes with an error has no `cancelCloser`, as in the code.

**`BodyReplay`** has the readers, the goroutine that sends each attempt's body one
`Read` and one `Write` at a time, and the retry loop reduced to what it does to the
body. The behaviour of `net/http` is external. It does not wait for the goroutine before
it returns a response. Before it returns an error it does (`ErrorReturned`), with one
exception: an HTTP/2 attempt whose context is done, by `WithTimeout` or by the caller,
returns at once (`Abandoned`), and its goroutine may go on reading, since the
`io.NopCloser` around the reader makes `Close` immediate. The default transport negotiates
HTTP/2, so a body meets both kinds of server; `http2` says whether it meets that one.

## What the runs show

Passing runs:

| Run | Instance | Properties |
|-----|----------|------------|
| `rr_probe` | a primary with `fail_timeout` 1 and a backup with `max_conns` 1, 3 concurrent requests, 4 in all, 3 clock readings | `TypeOK`, `OneProbePerWindow`, `NoOrphanQuarantine`, `QuarantineHonoured`, `ProbeSuccessHeals` |
| `pickers_load` | round-robin, least-conn, random, random-two and consistent hash on primaries of weights 1 and 2 at one address, `max_conns` 2, one that loses half its weight by a failure; 3 concurrent requests | `MaxConnsRespected`, `WeightsBalanced`, `LeastLoadedPicked`, `NeverTheBusiest` |
| `pickers_fallback` | least-conn, random-two, hash and consistent hash on a primary that is suspended by a failure, one with `max_conns` 1 and a backup; 2 concurrent requests, 2 clock readings, a budget of 3, a ring on which the walk passes two points of one server and comes to the other and back | `NoOrphanQuarantine`, `KeyStaysWithServer`, `SuspensionHonoured`, `ImplementsPicker`, `BackupsLast` |
| `pickers_live` | round-robin and IP-hash, with an address and without, on one primary and two backups; a budget of 3, fairness | `ConnsMatchHolders`, `RequestEnds`, `BackupsLast`, `ImplementsPicker` |
| `selection` | the draw: up to 5 peers of weights up to 3, all numbers drawn; the ring: up to 3 peers at 3 addresses with 1 or 2 points each, all chains over 4 checksums, all keys | `DrawsByWeight`, `SearchHalves`, `RingAsDescribed`, `OnlyItsKeysMove` |
| `transport_retry` | one call; every option, request, body, outcome; 2 primaries and a backup; cancellation anywhere; fairness | `TypeOK`, `PeerHeldDuringAttempt`, `NothingLeaks`, `RequestBodyReleased`, `NonIdempotentSentOnce`, `StreamNeverReplayed`, `LastAttemptReturned`, `NoFanOutAfterCancel`, `RoundTripReturns` |
| `balanced` | two calls on the round-robin picker and an `*http.Transport`; a primary and a backup, each suspended by its first failure, the backup with `max_conns` 1; two methods, a request past the upstreams, cancellation anywhere | `HealthFollowsOutcomes`, `RefusalsExplained` |
| `body_sound` | all kinds of body over HTTP/1 with servers that answer after the whole body, `GetBody` and in-memory bodies also with early answers and over HTTP/2 with attempts that time out; 3 attempts | `AttemptBodyIntact`, `UploadNotCutShort` |
| `registration` | up to 3 options, 30 upstream blocks, 3 hosts | `NothingLostSilently`, `RegisteredUsable`, `HashFunctionUsed`, `ServerNameUsed`, `BrokenServesNothing` |

Runs that find a disagreement between the code and its documentation:

- `transport_maxconns`: `MaxConns` is documented as "the maximum concurrent
  connections to a server", but `Done` runs when the response headers arrive. While
  the first caller still reads the body, a second request gets the peer
  (`MaxConnsBoundsConnections`). What holds, and is proved, is the bound on requests
  between `Pick` and `Done` (`MaxConnsRespected`).
- `body_rewound`: a seekable body, or the temporary file of a spilled one, is one
  reader for all attempts. If a server answers before it has read the body and the
  response is retried, the previous attempt's goroutine may take bytes after the
  rewind, and the next peer receives a body with a gap (`AttemptBodyIntact`). Over HTTP/2
  an attempt that ends by its deadline has the same effect without any response: with
  `EarlyModes = {}` and `HTTP2Modes = {"seek", "file"}` TLC finds the same gap.
- `body_streamed`: when the response of an attempt comes before its body is sent,
  `RoundTrip` returns and its deferred `cleanup` closes the body that is still being
  sent (`UploadNotCutShort`).

The two about bodies need an attempt that is over for `RoundTrip` before its body is sent:
an early response or, for the rewound reader, an HTTP/2 attempt that timed out.
`body_sound` shows that without such attempts the same modes are correct, and that private
readers are not affected by them.

A limit of the hash and random pickers, for which there is no run of its own:
`commitPeer` and `peerAvailable` read the clock separately. A request may be let in to a
suspended peer by the later reading after the earlier one was still within
`fail_timeout`; then `checked` is not advanced and a second request becomes a probe too.
`OneProbePerWindow` is therefore not stated for them; it is proved for round-robin. What
holds for all of them, with the clock moving between the two readings, is that no peer is
used before its suspension is over (`SuspensionHonoured`) and that no suspension is left
behind by a request that learnt nothing (`NoOrphanQuarantine`).

### Bounds

`MaxTime` and `MaxRequests` bound the clock and the number of requests; `Pickers`
bounds the concurrency. For the probe, one request fails and three
are the least in which one probe can be rolled back while a second is in flight and a third
finishes: the prior value a request remembers, the value it wrote and a later write then all
differ. Three clock readings with `fail_timeout` 1 leave room for a failure, its suspension,
a probe, its roll-back and the next probe at the same reading, and for failures at two
readings; longer sequences are covered by the proofs of the same properties. The candidate
loop of `random` gives up in the same way as that of `random-two` and has a run only in
`pickers_load`; the proofs are about both. In `pickers_fallback` the pool has a
peer that is suspended by its first failure until the next reading of the clock, one that
has room for one request, and a backup, so each reason to skip a peer occurs and a primary
can become usable again while a request is between the two locks or has just given up its
candidates. In `pickers_load` three requests meet on two peers whose weights differ, so
there are ties, a loser and a winner in every comparison, and degraded weights take part
in the selection. The fast path of a pool with a single peer has no run of its own: it is
covered by the proofs, which hold for every pool. In `Transport` a call is followed over
up to three attempts, so that a response survives one iteration and is dropped in the
next.

The budget of the candidate loops (20 in the code) is 2 or 3: it is then still used up
within a `Pick`, and carried over from one `Pick` to the next. The IP-hash picker hashes
over the backup group only if the budget is not used up by then, which needs a pool with
one primary (`pickers_live`): with two of them the backup phase starts with an empty
budget. A critical section contains at most one step of the clock (`Readings`).
The ring of the pickers has one server whose two peers share an address in `pickers_load`
(the weights between them matter) and two servers in
`pickers_fallback` (the walk matters): the key is looked up to the first of two points of
one server, the walk then comes to the other server and back to the first, so a request
passes points of the same server, changes servers, and goes on where its last `Pick`
stopped. `Replicas` is 1 instead of 160 in `selection`, with
weights up to 2, so every pattern of collisions between three peers of up to two points
occurs. `balanced` has two calls: one fails and suspends a peer, the other is its probe
and is canceled, or fails locally; one takes the backup's only connection while the other
is refused. That a call is refused because of a probe in flight takes a third call, which
is out of TLC's reach here; that case of `RefusalsExplained` rests on its theorem.

Requests are interchangeable, so the safety runs over several requests use
symmetry; the liveness runs do not.

### Fairness

`BalancersFairSpec` and `FairSpec` of `Transport` ask weak fairness of `BalancerStep(g)`
and `Step(g)`, what a request in progress does next. The code justifies it: a critical
section has no blocking call, the loop has no other wait than the round trip, and that one
ends. Nothing is assumed of the clock, of cancellation, or of new requests; in
`pickers_live` the caller may stop retrying (`Finish`) but need not. Without `WithTimeout`
it is the server that ends a round trip; `transport_retry` assumes that of it. The
properties say that the loop then ends as well, whatever the outcomes. No fairness is
asked of draws or of the binary search: `SearchHalves` is an action property that bounds
the number of its iterations.

## What is proved

Assumptions, each an `ASSUME` of the module that declares the constants: the types of the
configuration, finitely many peers and concurrent requests, a clock that starts later than
any `fail_timeout`; for `Registration` that a pattern that parses has a scheme, which
`registerUpstream` demands; for `ChashRing` that the checksums are an interval of naturals
from 0, as those of CRC-32 are. The bounds of the runs (`MaxTime`, `MaxRequests`, `MaxTries`,
`MaxOptions`, `BodyLength`, `MaxAttempts`) are arbitrary naturals in the proofs.

Each invariant below was first checked by TLC on the instance of a run.

**Induction.** Loops over slices are recursive functions in the model. What they compute
is proved from `Loops`: a set of naturals that has 0 and with `i - 1` also `i` has all of
`0 .. N` (from the least number outside it), and a function defined by recursion satisfies
its equations. A proof about a loop defines the set of the indices at which its loop
invariant holds and shows those two facts of it: that sums over peers add up (for
`CreditConserved`), that the scan of least-conn has the least load among the peers visited
(`LeastLoaded`), that the loop over servers drops none that is accepted (`AllKept`), what
the three loops of `buildChashRing` compute (`RingIsAsDescribed`) and what that of
`smoothWeightedPeer` does (`ScanIsTheRound`).

**Round-robin.** The invariant is `Inv == TypeOK /\ HoldInv /\ Recovery`, where
`Recovery` is the conjunction of

- `HealthInv`: `accessed <= checked <= now`. A roll-back could break it;
- `RollbackInv`: the value a request would put back is older than `fail_timeout`, and
  not older than the last failure as long as the request still owns the last write;
- `WindowInv`: while a probe runs, `checked` is not before its start, and no other
  owner could roll it back behind it;
- `SuspensionInv`: when `max_fails` is used up, `checked` comes from the last failure,
  from a request that still holds the peer and owns the write, or is old;
- `OneProbePerWindow` itself, which needs the others.

None of the safety properties is inductive alone: `OneProbePerWindow` says nothing of
`checked`, which a neutral release moves back. `WindowInv` closes the gap, and it needs
`RollbackInv`, since `ownsProbe` compares sequence numbers and the numbers of other
requests must not be ahead of the peer's.

Theorems: `TypeCorrect`, `ProbesApart` (`OneProbePerWindow`), `QuarantineExplained`
(`NoOrphanQuarantine`), `NoEarlyProbe` (`QuarantineHonoured`), `ProbeHeals`
(`ProbeSuccessHeals`), `CreditConserved` (`WeightsBalanced`), `ConnsExact`
(`ConnsMatchHolders`), `MaxConnsSafe` (`MaxConnsRespected`) and `RefinesPicker`
(`ImplementsPicker`). `WeightsBalanced` is inductive by itself given the types: each
eligible peer's credit rises by its effective weight, the winner pays the sum of exactly
those, and a sum that is changed at one index changes by the difference. `ScanIsTheRound`
is about the code's loop itself, which changes weights while it compares them: its loop
invariant (`scannedTo`) says that the peers visited have their credit and the others not,
that `total` is the sum of the credit given, and that `best` is the first of the visited
peers with the most; so the loop has exactly the outcome the action states. The refinement of
`Picker` maps the held peer to `peerOf` and the given peers to `picked`; it rests on
`HoldInv` (whatever a request was given is in `tried`, and no backup was given before the
backup phase, so forgetting the tried backups forgets nothing) and on the exact count of
connections.

**All algorithms.** A step of any algorithm that gives a request a peer is shown to be a
step `Gives(g, p)`, which says only what all rules have in common: the peer is of the group
the request is at, untried, not down, has room, was not suspended at the last clock reading,
and credit moves within a subset of one group or not at all. Every other step is one of
`RoundRobin`. The invariant `BInv` has the parts of round-robin's that survive the second
reading of the clock (`TypeOK`, `HoldInv`, `Health`, `ConnInv`, `WeightsBalanced`) and
`PhaseInv`: a request in the backup phase has no tries left for a candidate loop over the
primaries, which is why none gets a primary after a backup. `WindowInv` and
`OneProbePerWindow` are not among them; they are false for the candidate loops (see above).
`UpstreamBudget` (`CandidatesTypeOK`) bounds the candidate loops over the life of a request:
`Budget` relates what outlives a `Pick` to what the request was given, a hash value for each
rejected candidate and for each peer it got. So the tables of candidates of `Hash` and
`IPHash`, which are finite in the model, are never read beyond their end.
Theorems: `UpstreamConnsExact`, `UpstreamMaxConns`, `UpstreamCredit`,
`UpstreamQuarantineExplained`, `UpstreamSuspension` (`SuspensionHonoured`),
`UpstreamRefinesPicker`, `UpstreamBackupsLast` (`BackupsLast`), and what single algorithms
are there for: `TwoChoices` (`NeverTheBusiest`), `KeyStays` (`KeyStaysWithServer`),
`LeastLoaded` (`LeastLoadedPicked`, which needs that the crosswise comparison is transitive
for positive weights).

**The weighted draw.** `DrawIsWeighted` (`DrawsByWeight`) and `SearchIsBinary`
(`SearchHalves`), for any number of peers and any weights. Their invariant is that each
range begins where the previous one ends (`RangesAdjacent`) and that the number drawn lies
in the ranges from `lo` to `hi` (`Bracketed`).

**The ring.** `RingIsAsDescribed` (`RingAsDescribed`) and `OnlyKeysOfThePeerMove`
(`OnlyItsKeysMove`), for any peers, weights, number of replicas and checksum chains. The
loop invariants are that the points generated so far are those of the peers visited, in
their order; that the points sorted so far are ascending and that for each hash the first
one generated comes first; that the points kept so far are strictly ascending with the
first of each hash. From that, `Lookup` describes the server of a key without the ring: it
is the first peer, in configuration order, that has the least checksum at or after the
key's hash, or the least of all if there is none. Consistency then compares two pools of
which one has all the checksums of the other: a key whose server differs was looked up to a
checksum that the larger pool owes to the one peer that was added, raised or removed.

**The retry loop.** The invariant of `TransportProofs` is the types and, for each call, one
part per property, strengthened to every value of `pc`: `HoldPart` (the attempts are among
the peers given, all of them reported but the one in flight), `LeakPart`, `BodyPart`
(which mode owns which of the caller's body and the temporary file), `SentPart` (a request
that may not be repeated was not sent while the loop goes on), `StreamPart` (a stream that
was consumed has no further attempt, since there is one usable peer or the gate of
`SentPart` closes), `LastPart`, `LatePart` (a call past the check of its context has
started no attempt after a cancellation). Calls meet only in the peers they hold, so a step
of one call leaves the parts of the others alone. Theorems: `TypesCorrect`,
`PeersReleased`, `ResponsesClosed`, `BodiesReleased`, `SentOnce`, `StreamsNotReplayed`,
`LastResultReturned`, `CancelStopsLoop`.

**The retry loop on the picker.** `Composition`: a behaviour of `BalancedTransport` is one
of `RoundRobin` and one of `Transport`, so everything proved about either holds of the two
together. `OutcomesDecideHealth` (`HealthFollowsOutcomes`) and `RefusalsTruthful`
(`RefusalsExplained`) are about both at once; their invariant adds to that of round-robin
that the picker has tried what it gave the call and nothing else, and that a peer is in
hand only between `Pick` and `Done` (`CallPart`). A refusal is then traced back: `conns` is
the number of calls at the peer (`ConnsExact`, through `Composition`), a suspension comes
from a failure or a request that holds the peer (`Explained`), and a recorded failure is
one that happened (`HealthFollowsOutcomes`).

**Bodies.** `BodiesIntact` (`AttemptBodyIntact`) and `UploadsFinish` (`UploadNotCutShort`)
have the hypothesis that early answers and abandoned HTTP/2 attempts meet only bodies with
a reader per attempt (`EarlyModes \cup HTTP2Modes \subseteq own`), which is what the code
gives for `GetBody` and buffered bodies. For the other modes it is a restriction to HTTP/1
and to servers that read the body first; without it the theorems are false, as
`body_rewound` and `body_streamed` show. `Sharing` says that the shared reader has one user, the attempt
`RoundTrip` waits for; `Rewound` that a reader is at the start before an attempt sends;
`Progress` that the reader stands right behind what the peer received.

**Registration.** The invariant says that each upstream is that of a sound block
(`Entries`), that without an error no block is missing (`Complete`), and that requests are
served only by a finished Transport without an error (`Serving`). Theorems: `NothingLost`,
`UpstreamsUsable`, `HashUsed`, `ServerNamesUsed`, `BrokenRefuses`.

Only model-checked: liveness (`RequestEnds`, `RoundTripReturns`), which is out of the
prover's reach since it needs fairness and `ENABLED`; and, naturally, the three
disagreements. `TypeOK` of `Registration` documents the state; no run and no theorem is
about it.

## What is not modelled

- A selected peer without a backend address, which registration excludes, and the nil
  receiver of `RoundTrip`.
- `clientIP`, `splitKetamaHostPort`, the parsing of URLs, URL rewriting and
  `Content-Length` clamping: strings and data only.
- Groups whose weights add up to 2^32 or more: `uint32(group.TotalWeight)` in `hash.go` and
  `iphash.go` is the identity in the model. Validation does not exclude such weights.
- A streamed body over HTTP/2 with an attempt that times out. Whether it is sent twice then
  depends on the order in which `net/http` traces the header and starts to read the body;
  nothing is claimed about it (`NonIdempotentSentOnce` takes the trace as true).
- The long-run shares of a healthy round-robin group over whole cycles: `WeightsBalanced`
  states the conservation of credit they follow from.
- The fields of `net.Dialer` and `http.Transport` that `NewTransportE` sets.
- More than one step of the clock inside one critical section, and one step inside two
  critical sections of different groups at once: a section is one action.
- A third-party `Picker`: `doneNeutral` falls back to `Done(false)` for it.
- Calling `Pick` again after it returned nil, or `Done` twice: the interfaces forbid the
  second, and no caller in the repository does the first.

## Plan

Every safety property of a run is proved. What could follow:

1. The long-run shares of a healthy round-robin group: `currentWeight` of each peer stays
   within the total weight when all peers of a group are eligible, so a peer is chosen in
   proportion to its weight over a whole cycle.
2. The retry loop composed with the pickers other than round-robin. `Transport` is already
   shown on the contract all of them implement; what is left is the counterpart of
   `OutcomesDecideHealth` for the candidate loops.
