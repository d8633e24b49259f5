# TLA+ models of the baresip data channel acceptance harness

This directory is a verification project for the acceptance suite: the Python
harness in `acceptance/`, the Go Pion endpoint in `pion-endpoint/main.go` and the
Go TURN server in `pion-endpoint/cmd/turn-server/main.go`. baresip and libre are
the systems under test and are not in the repository; they appear as an
environment that may do anything the harness can observe.

The question the project asks is the one the suite stands or falls with: **is a
verdict worth what the documentation says it is worth?** A `PASS` must not be
reached with a message lost, with a process that was not the one under test, or
with an artifact that changed meanwhile; a `FAIL` must be about the product; and
every scenario must end with its evidence written, whatever the processes around
it do. Where the code does not keep such a promise the project says so: four
runs end in a counterexample to what the documentation or a test says (section 6).

Contents: [inventory](#1-inventory), [modules](#2-modules),
[runs and bounds](#3-runs-and-bounds), [fairness](#4-fairness),
[proofs](#5-proofs), [findings](#6-findings),
[what is not modelled](#7-what-is-not-modelled), [plan](#8-plan).

To check: `tlc -config X.cfg M` with the pairs of section 3, and `tlapm M.tla`
for the eight `*_proofs` modules.

## 1. Inventory

| part | source | state it keeps | operations |
|---|---|---|---|
| acceptance campaign | `acceptance/product_cli.py` | verdict of every operation, provenance checks and failures, the summary | prepare, verify, run an operation, verify again, calibrate, summarise |
| build binding | `acceptance/evidence.py`, `build_manifest.py` | the manifest file; while verifying, the digests read so far | build, load, verify, prepare the evidence tree |
| message records and oracles | `acceptance/model.py`, `oracle.py` | none; the calibration keeps its results | record, compare ordered and unordered, inject, calibrate |
| product scenario | `acceptance/product.py` `run_product_scenario` | failures, verdict, files, `negotiated` | start, negotiate, exchange, judge, clean up, publish |
| message exchange | `product.py` `wait_for_messages`, `aiortc_endpoint.py` | the peer's event queue, what a wait has drained, the event log | send, poll, time out, compare |
| baresip endpoint | `acceptance/baresip_endpoint.py` | process, log task, session id, stop time-outs | start, create, describe, accept, delete, close |
| aiortc and browser peers | `aiortc_endpoint.py`, `chromium.py`, `web/endpoint.html` | peer connection, channels, events | offer, answer, open, send, drain, statistics, close |
| Pion scenarios | `product.py` `run_pion_scenario`, `run_abrupt_peer_death` | failures, verdict, the three processes | spawn, wait, judge, ask for metrics, watch, reap |
| Pion endpoint | `pion-endpoint/main.go` | the report, shared by goroutines; the context's deadline | gather, signal, open, send, receive, delete, report, die |
| TURN server | `pion-endpoint/cmd/turn-server/main.go` `main` | signal channel of capacity one | announce, listen, snapshot, end |
| impaired reader | same file, `impairedPacketConn` | sequence number, queue of packets, counters, delay extremes | read, drop, wait, reorder, duplicate, snapshot |
| malformed-input probe, partial-reliability probe | `product.py` `exercise_malformed_inputs`, `exercise_partial_reliability`, `PartialReliabilityDropper` | the streams of the inputs, what was drained, what the dropper saw | open, send, wait for the reset, look for echoes; hook the dropper, drop, wait for FORWARD-TSN, recover |
| media regression | `product.py` `run_media_regression` | packets per case, failures | two cases of start, negotiate, load, measure, close; compare |
| lifecycle campaign | `product.py` `run_lifecycle_campaign`, `analyze_resources` | one process, one session per cycle, samples | per cycle create, exchange, replace or leave, delete, measure; analyse |
| parallel sessions | `product.py` `run_parallel_sessions` | one process, a task, a session and a queue per peer | negotiate, exchange, collect, delete |
| foundation calibration | `acceptance/cli.py`, `scenario.py`, `supervision.py`, `protocol.py`, `baresip_probe.py` | two transcripts, the verdicts of scenarios, calibrations and supervised processes | run two scenarios, calibrate, supervise, summarise |
| release audit | `acceptance/release_audit.py` | none | stateless inspection of files |
| DTLS probe | `probes/dtls_appdata.c` | one connection | a straight line of libre calls |

How they interact. The campaign calls one operation after the other, each between
two verifications. An operation starts baresip, talks to it over HTTP on a fixed
port, and has a peer at the other end of the data channel: aiortc in its own event
loop, a browser behind Playwright, or the Pion endpoint in a process of its own,
which does its own signaling. A relay scenario puts the TURN server between the
two, and talks to it by signals one way and by lines of standard output the other
way. Everything an operation learns ends in its evidence directory; the campaign
reads only the returned verdict.

What is hard about it:

- **Concurrency.** `asyncio.gather` raises the first exception and leaves the other tasks
  running, past the clause that waits for them; both directions of a foundation scenario
  share one transcript; the Pion endpoint's report is written by callbacks and copied by
  `main` without its lock; the TURN server announces itself before it listens to signals,
  and both its signals share one buffer slot; every critical section of the impaired
  reader can be split by a snapshot; the peer's one event queue is drained by waits for
  different channels; artifacts change while they are hashed, and the earlier evidence is
  removed file by file.
- **Failure.** baresip exits, forgets sessions, refuses requests or never answers;
  log capture fails; a cleanup step raises and the next ones are skipped; a browser
  does not close and the process behind it is left running; git cannot examine a source
  tree; the earlier evidence cannot be removed; records cannot be written.
- **Ordering.** Echoes arrive across polls in any order; four packets can leave one
  read of the impaired reader; a session may be closed by baresip, by the harness
  or by the end of the process, and only the first is a success.
- **Timeouts.** The context's sixty seconds, the deletion's forty-five and the
  harness's seventy-five overlap; an answer can race each of them. What is asked of a
  browser has no deadline at all.

What makes each part correct is stated with its module below. The hazards, with the
line where each bites and the properties that would notice, are listed in
`PROJECT.json`.

## 2. Modules

| module | is | composes or uses |
|---|---|---|
| `TurnImpairment` | the impaired reader | |
| `Campaign` | the campaign with the verification of its artifacts | |
| `Oracle` | records, oracles, injections as operators | |
| `Calibration` | the calibration of the oracles | `Oracle` |
| `Exchange` | the exchange of messages over several channels | `Oracle` |
| `ScenarioContract` | abstract: what a scenario's evidence directory promises | |
| `Scenario` | a product scenario, its baresip process, port and log | implements `ScenarioContract` |
| `Pion` | a Pion scenario: harness, Pion endpoint, TURN server, baresip | implements `ScenarioContract` |
| `Media` | the product scenarios of `Scenario` and, with the same steps taken twice, the media regression | extends `Scenario` |
| `Probes` | the two probes of a product scenario | |
| `Conversation` | what a scenario does with its open channels: `Exchange` or one of `Probes` | extends both |
| `Lifecycle` | the lifecycle campaign | implements `ScenarioContract` |
| `Parallel` | parallel sessions | implements `ScenarioContract` |
| `Foundation` | the foundation gate: two scenarios, all calibrations, supervision | extends `Calibration` |
| `*_proofs` | theorems about the module of the same name; `Foundation_proofs` also about `Calibration`, `Media_proofs` also about `Scenario`, `Exchange_proofs` also about `Probes` | TLAPS |

The modules instantiate directly: their constants are what the `.cfg` files give
values to, so no separate model-checking modules are needed. A definition that is
commented as a *faulty variant* is not part of any specification: it is a plausible
slip in the code, kept next to the definition it stands for, and each property has
one that it catches.

### TurnImpairment

One goroutine calls `ReadFrom` again and again; `main` may snapshot the counters
between any two critical sections, so each critical section is an action. `pc` is
the place in `ReadFrom` and `nextPacket`; `current` and `next` are the two packets
`ReadFrom` holds, `input` the datagram `nextPacket` works on, `ready` the queue,
`sequence` and `stats` the fields of the same names, `minDelay` and `maxDelay` the
extremes as the code keeps them, in milliseconds. `delivered` is history.
`Outgoing` is what has left or is lined up to leave.

- `Stages`, `ReadyBounded` (proved, section 5): which packets are held at which place;
  at most three packets queued, none whenever the socket is read.
- `Conservation`: what left, is queued, is held or was dropped adds up to what
  arrived and was duplicated, in every state a snapshot may see.
- `DepartureOrder`: only packets that are due are overtaken, and by one packet; only
  packets that are due leave twice, next to each other.
- `ReorderEvidence`, `DelayExtremes`: the counters the scenario accepts as evidence
  of the impairment agree with what became of the packets.
- `AllCopiesLeave` (liveness): whatever is lined up leaves.

### Campaign

`pc` follows `product_cli.run`: `prepare` and `sweep` (below), then for each verification
`load` (the manifest file is read anew every time) and `hash` (one artifact per step,
`cursor`), then `operate` or the next one, `calibrate`, `done`; an exception that nobody
catches, or a signal, ends in `aborted`. An artifact is its version number: `Change` gives
it a higher one or, seldom, an earlier one back; `Rewrite` is somebody running
`dc-build-manifest`. The first artifacts are source trees (`Trees`): `Obscure` makes git
fail on one or work on it again, and a verification that reads a tree git fails on reads
`Unknown`, as `source_state` does, which has no digest of it then. `checks`, `failures`,
`verdicts`, `summary` are the variables and files of those names.

Whatever the path is, an earlier campaign may have left its evidence there, and its
summary (`leftover`). `Sweep` removes one of them, in any order; `SweepFails` is an
exception of `rmtree` or `mkdir`, and a signal (`Killed`) may come at any moment, here as
everywhere else. `MakeDirectory` needs an empty place, because `mkdir` does. `cause` is
history: where an exception or a signal ended the campaign.

- `UnchangedOnPass`: a passing campaign has run every operation, and no artifact whose
  content is in the manifest had another content at any moment of any operation, provided
  no earlier content was restored and the manifest not rebuilt meanwhile. The first
  proviso is inherent (a change that is undone before the next verification cannot be
  seen). The other two exceptions are findings (section 6): a tree that git could not
  examine when the manifest was built has no content in it and may change
  (`SourcesAreBound`), and so may everything once the manifest is rebuilt
  (`ChangeNeverPasses`). A tree that can be examined at first and not later, or the other
  way round, is covered by the property: known and unknown differ.
- `VerdictBacked`: a recorded verdict has its two verifications, adjacent in
  `provenance-checks.json` and of the bound artifacts.
- `FailuresRecorded`: a failed verification makes the verdict `INFRA_ERROR`, and a
  failed one beforehand keeps the operation from being started.
- `NothingMixed`: once a verification, an operation or a summary of this campaign is on
  record, nothing of an earlier one is left, whatever happened to its removal. It may be
  left by a campaign that does not get that far, and even the summary without its
  evidence (section 6).
- `Ends` (liveness): whatever the verifications say, the campaign writes its summary; only
  an exception of the preparation, of an operation or of the calibration, a signal, or a
  browser that never answers keep it from that.

Whether the calibration comes out right is the Boolean `calibrated`: it is fixed
before the campaign, because it depends on the code only. What it does is module
`Calibration`. The summary has two verdicts, whatever the operations returned:
everything that is not `PASS` becomes `FAIL`, as in `product_cli.py`.

### Oracle, Calibration

Records are numbered from one, carry a value and its digest; the digest of a payload
stands for itself, and `Zeros` for the sixty-four zeros the corruption writes.
`CompareOrdered` and `CompareUnordered` are `compare_ordered` and
`compare_unordered`, the latter over bags of records without their numbers.
`Inject` is `inject`, whose reordering swaps the first two records whatever they
are. The calibration tries the four injections in turn on any transcript.

- `NothingEscapes` (proved): no injected violation escapes the ordered oracle, so that
  `calibrate` cannot raise for a transcript of two records or more: equal, empty
  and unequal payloads alike. It is the sequence number that saves the reordering
  of two equal messages.
- `Calibrated` (proved): a finished calibration has the right verdict for every name.
- `UnorderedAcceptsRearrangements`: the unordered oracle, which is never calibrated,
  accepts exactly the rearrangements (proved, for any length); the reference definition
  quantifies over all permutations.

`Calibration` has no run of its own: the foundation gate and the acceptance campaign
both run it, and `Foundation` takes its steps (run `foundation`).

### Exchange

The harness sends the same values on one channel after the other (`active`) and polls
the peer's only queue until enough messages of that channel are there. `queue` is the
endpoint's event queue, `seen` what the wait at hand has drained, `events` what the
finished waits have handed on (`events.ndjson`), `actual` the values that will be
judged. Echoes travel on `wire[c]` and join the queue at any moment; on an unordered
channel any of them may come next. `Misbehave` loses, doubles, damages or swaps.

- `NoFalseAlarm`: a faultless echo that meets the deadlines passes, whatever the
  pace of echoes and polls.
- `PassMeansEchoed`: on every channel the first messages to come back are the sent
  ones, in order where the channel is ordered.
- `EventLogComplete`: draining loses and repeats nothing, also when a wait for one
  channel drains another channel's messages.

### ScenarioContract

Three variables: what is in the evidence directory, whether anything the scenario
started is alive, and the published verdict. Evidence is collected and never taken
back; the verdict is published once, when nothing is alive; afterwards the directory
is immutable. `Scenario` (with `Media`), `Pion`, `Lifecycle` and `Parallel` implement it
under the mappings at their ends (for `Scenario` the captured log counts as part of the
directory).

### Scenario

The coroutine `run_product_scenario` with `BaresipEndpoint`, against a process that may
bind the port or not, exit, be noticed to have exited later (`own = "dead"`, then
`"reaped"`), forget the session, log, or ignore `SIGTERM`, and against another process
that may listen on the same port (`foreign`). `pc`/`after`/`error` are the control flow
with its `except` and `finally` clauses; `Close` is a subroutine that returns to `after`.
`RecordsFail` is an exception while the log is read or the records are written, `Records`
in their order. `config` says who offers, whether the peer is a browser, and which media
the log must tell of. `failures` is what `result_payload` holds, `found` remembers every
oracle failure there was.

- `OwnProcessJudged`: a pass is about the process that this scenario started, even
  though `_wait_ready` is content with any listener: the log lines a pass needs come
  from that process only.
- `CleanPass`: no oracle found anything, nothing was raised, both descriptions were
  exchanged, the session is gone.
- `ImplementsContract` (refinement).

`AwaitsBrowser` names the places where the coroutine awaits the browser, which has no
deadline there; liveness is stated in `Media`, for the two together.

### Media

`run_media_regression` takes the steps of `Scenario` for each of its two cases (`case`),
with a process, a peer and a log of its own, and differs in what it does in between
(nothing, or bursts of messages that must come back), in what it judges (packets of
either kind, the rate with data against the rate without), and in how it ends: each case
has a `finally` clause that closes the peer and then the endpoint, while the scenario
only has an `except` clause, which publishes. `case = 0` is every other product scenario,
so that one run covers them all. The five seconds of a case are one step: what matters is
which packets and messages came.

- All properties of `Scenario`, for the regression as well.
- `Ends` (liveness, log and process included): the scenario ends whatever baresip, its log
  and the peer do, or it waits for its browser for ever (section 6).
- `Immutable` (action property): nothing is added to the directory after
  `result.json`. It fails when closing the browser raises, a finding (section 6);
  `FragileBrowser` is that possibility.

### Probes

Two probes that a product scenario may contain (`kind`). *Malformed inputs*: the two
labels, the text and the oversized message in turn (`stage`), each on a stream that
baresip is to reset (`stream`), then a valid message. *Partial reliability*: the dropper
sits between the peer's DTLS and SCTP (`hooked`), takes out the packets of the marked
message (`dropped`), and waits for a FORWARD-TSN (`forwarded`); a second message must
come back. `pending` is the peer's queue of events, `queue` in `Exchange` (the names of the
two modules are disjoint); of what is drained, only which messages it contains matters
(`drained`). `place` is where the probe is.
baresip may accept, refuse, reset, answer late or not at all, send a message in one packet
or in pieces, send a message back once more (`Repeat`), and give up any message, also one
from before the probe (`foreign`); the network loses packets. `blame` is history: what
there is to be held against baresip, the network or a deadline.

- `PassMeansRejected`: every malformed input had its stream reset by baresip, its echo
  did not arrive before the probe stopped looking, and the valid message came back.
- `PassMeansAbandoned`: the message was taken out and never arrived, and baresip gave it
  up, or else gave up an earlier one meanwhile: the dropper looks at any FORWARD-TSN.
- `NoFalseFailure`: a baresip that behaves is not blamed, however the probe's half-second
  windows and drains fall, as long as no message comes twice.

### Conversation

`run_product_scenario` takes the malformed inputs or else the exchange, and after the
exchange the probe of partial reliability where the channel is partially reliable. One run
covers them, each taken by itself from an empty queue; the one that is not taken is over
from the start (`NoExchange`, `NoProbe`).

- `Ends` (liveness): the exchange and the probe end; every wait has one deadline that no
  message that comes meanwhile postpones.

### Lifecycle

One process, one cycle after the other. In an even cycle the peer closes the channel,
opens a replacement and deletes the session; in an odd one it leaves, and baresip has to
close the session by itself (`wait_session_missing`). `session[c]` says what became of each
cycle's session: `deleted` by request, `closed` by baresip, `ended` with the process. The
flags `known`, `remoteClosed` and `negotiated` are the code's; `retained` counts sessions
that are over and not released, and a sample is that plus the open ones: a unit stands for
the descriptors, memory and threads that a session costs. `Excessive` is
`analyze_resources` in integers.

- `CyclesIsolated`: no cycle starts while baresip has a session of an earlier one.
- `PassMeansFollowed`: in every cycle baresip closed or deleted the session as asked, gave
  the replacement its stream, echoed, and retains no more than the budget at the end.
- `FailMeansRan`: `FAIL` is of endpoints that ran, and a deadline is blamed on baresip
  only if the cycle in which it passed had negotiated, not an earlier one.
- `ImplementsContract` (refinement), `Ends` (liveness).

### Parallel

One process, `Count` peers. A task per peer asks for a session (`request`), and
`asyncio.gather` waits for all of them; when one fails, the others go on, and what they
create is known to nobody. The harness learns the ids when every answer is there
(`known`). Echoes are on the wire of their peer; baresip may lose or double them, send them
on a channel of their own, or to another peer. `arrived` is history.

- `PassMeansOwn`: every peer got exactly its messages back, in order, on its channel, and
  nothing of another session; every session was deleted when asked.
- `NoFalseAlarm`: a baresip that sends every message back where it belongs is not blamed
  for one, whatever the pace of the peers.
- `ImplementsContract` (refinement): the process, the peers and every session, the unknown
  ones included, are gone when the verdict is published. `Ends` (liveness).

### Foundation

`cli.py`: the two scenarios of `scenario.py` between Chromium and aiortc, then the
calibration of the transcript oracle (module `Calibration`, with any transcript rather
than the code's three messages), of the oracles over statistics, media and evidence, and
of the supervision of processes. Messages of both directions travel, are drained and
numbered as in the code, and compared after sorting. The endpoints send in turns
(`Sender`), and what was sent may arrive before the next message is. Statistics are the
facts that the oracles look at, and `written` the files of each scenario, of which the
required ones are judged in the scenario and in the calibration.

- `PassMeansCalibrated`: the command succeeds only if in both scenarios every endpoint got
  exactly what the other one sent, every injected violation was seen, the process that was
  to succeed was seen to, and nothing is left running.
- `NoFalseAlarm`: it fails only for a lost, damaged, doubled or late message, statistics
  that lack something, an exception or a deadline.
- `UnorderedAcceptsRearrangements` (of `Oracle`).
- `Ends` (liveness): the gate ends, or it waits for Chromium for ever (`AwaitsBrowser`).

### Pion

Four actors. The *harness* coroutine (`pc`), for the plain, relay, impaired and abrupt
scenarios (`kind`). The *Pion endpoint*: its main goroutine (`stage`), its callbacks
(`Opens`, `Arrive`), and its context's deadline (`Expire`). It sends one message at a
time, `sent` counts them, and the echoes of the first may arrive, or the next one fail,
before the last is sent. `output` is the report that all of them write, `stdout` the
printed copy, `exit` how it ended. The *TURN server* (`turn`, `signals` of capacity one,
`line`). And *baresip* with its session, which may be `held`, `closed` by baresip,
`deleted` on request or `ended` with the process. `blamed` is history: whether anything
but the harness and the Pion endpoint was at fault, a deadline that passed included.

- `NoFalseAlarm`: the races among goroutines, TURN server and harness are never what
  a scenario fails for. Without a fault or an expired deadline it is a `PASS`.
- `PassMeansEchoed`: a pass had exactly as many echoes as messages in the printed
  report, from an endpoint that was not terminated, and an impaired relay's counters.
- `AutonomousClose`: the abrupt scenario passes only if baresip closed the session of
  its dead peer, not the harness's own deletion, and not the end of the process.
- `ImplementsContract` (refinement), `Ends` (liveness).

Two assumptions about time: a channel opens through the relay only when the TURN
server listens to signals (opening takes many round trips through the server, and the
server is two statements away from listening), so that the metrics signal cannot
kill it; and the harness's seventy-five seconds pass while the endpoint is
unwinding, the only place where it can be for so long (sixty seconds of context, then up
to forty-five of deletion). Messages are counted and not told apart: that is
`Exchange`. Copying the report while a callback appends to it is a data race;
`Torn` is its bad outcome (no readable report), the orderly copy its good one.

## 3. Runs and bounds

| run | module, cfg | question |
|---|---|---|
| `turn_impairment` | `TurnImpairment` | does any stream of datagrams break the reader's bookkeeping? |
| `turn_delay_report` | `TurnImpairment`, `TurnDelayReport.cfg` | does the delay report show a variation? **no** |
| `campaign` | `Campaign` | is a passing campaign one in which nothing changed? |
| `campaign_rewritten` | `Campaign`, `CampaignRewritten.cfg` | also if the manifest is rebuilt? **no** |
| `campaign_opaque` | `Campaign`, `CampaignOpaque.cfg` | also of a tree that git cannot examine? **no** |
| `conversation` | `Conversation` | is a passing transcript one that was echoed, and does a passing probe mean that baresip refused, or gave up, what it had to? |
| `scenario` | `Media` | do the product scenarios, the media regression included, keep their promises? |
| `media_leak` | `Media`, `MediaLeak.cfg` | is the directory immutable after the result? **no** |
| `pion` | `Pion` | do the Pion scenarios keep theirs? |
| `lifecycle` | `Lifecycle` | is every cycle judged by itself and followed by baresip? |
| `parallel` | `Parallel` | does every peer get its own messages, and is everything gone at the end? |
| `foundation` | `Foundation` | does the gate succeed only with oracles that see what they must? |

The runs that end with **no** check one property each, which states a sentence of the
documentation; TLC finds the counterexample (section 6). All the others pass.

Type invariants are theorems where the module has a proofs module that says so
(`TurnImpairment`, `Campaign`, `Exchange`, `Probes`, `Scenario`, `Pion`, `Lifecycle`,
`Parallel`); the others are stated in
the modules as documentation of the state.

Deadlock checking is off where the modelled program ends.

Bounds, and why they are enough:

- `TurnImpairment`: eight datagrams of two sizes, with periods 5, 3 and 2. Within eight
  numbers every combination occurs that shares a read: 6 is due for reordering and
  doubling; 3 is overtaken by 4, which is doubled, or, when 4 is oversized, past the
  dropped 5 by 6, which is due to be overtaken itself. The reader's state beyond its
  counters spans two datagrams. The eighth datagram is what it takes for a read that four
  packets leave: 6, doubled, is overtaken by 8, doubled, when 7 is oversized. 195,297
  states. The proofs cover every period and any number of datagrams. `TurnDelayReport.cfg`
  has the scenario's own values (drop 29, reorder 31, duplicate 37, MTU 1400, 2 ms ± 2
  ms).
- `Campaign`: two operations (so that one follows another, and a verification after
  is followed by one before), the second with a browser; two artifacts (so that one is read
  before and one after a change), the first a source tree; two contents, and one
  disturbance, a restoration or a rebuild: each of them alone is what the properties except.
  How often git fails on the tree is not bounded. 934,408 states. Proved for any number of
  operations, artifacts, trees, contents and disturbances. The two other `.cfg` files
  leave out what their counterexample does not need.
- `Conversation`, the exchange: two channels, two messages each, two misbehaviours, two
  payloads, ordered and unordered: two of the same and two different messages, a fault on
  each channel or two on one. Proved for any number of channels, messages and
  misbehaviours.
- `Media` has no numbers but its two cases: the constants are switches, and TLC's run is
  exhaustive. 434,929 states. `MediaLeak.cfg` narrows the switches so that the
  counterexample shows nothing irrelevant.
- `Pion`: two messages (one, in the abrupt scenario, as in the code) and at most one echo
  too many; the rest is finite. 158,948 states. Proved for any number of messages.
- `Lifecycle`: campaigns of up to three cycles, an even, an odd and an even one, so that
  each kind has a predecessor and a successor; a budget of one unit, which two retained
  sessions exceed and one, over three cycles, exceeds in the trend only. 603,000 states.
  Proved for any number of cycles and any budget.
- `Parallel`: two peers with two messages each and two misbehaviours: two messages can be
  exchanged between the sessions, or one peer get one too many while another lacks one.
  493,000 states. Proved for any number of peers and messages.
- `Conversation`, the probes: one message that arrives again, any of them at any point of
  the probe: one is enough to disturb a wait for a single message; the rest is finite.
  Proved for any number of them. With the exchange, 2,226,910 states.
- `Foundation`: two messages in each direction, one failure of the transport per scenario,
  every transcript of up to three records over two types and two payloads, one of them
  empty, for the calibration; the swap concerns the first two records, so a third makes it
  a proper part. 93,980 states. Proved for any number of messages and failures, and the
  calibration for transcripts of any length.

## 4. Fairness

Liveness assumes what the code's scheduling justifies and no more.

- `TurnImpairment`: weak fairness of the reader's own steps. Nothing is assumed of the
  socket: a packet that is lined up leaves without another datagram.
- `Campaign`: weak fairness of the campaign's steps, an operation's return included, but
  for an operation with a browser (`AwaitsBrowser`): the others end (that is `Ends` of
  `Media` with other peers, `Pion`, `Lifecycle` and `Parallel`).
- `Exchange`: weak fairness of `Send`, `JudgeTranscript` and `Timeout`
  (`asyncio.wait_for` cancels the wait when its time is up). None for echoes or for
  polls: the exchange ends with a silent peer.
- `Media` (with `Scenario`): weak fairness of the coroutine where it does not await a
  browser (`AwaitsAnyBrowser`), and there only: `page.evaluate`, `browser.close` and
  `playwright.stop` (`chromium.py`) are awaited without a deadline, while every other wait
  has one. That a browser closes after all is not assumed either. Weak fairness, too, of the
  process's exit once it was sent `SIGKILL`, of the event loop noticing it, and of the
  end of its output. Strong fairness of `StartFails`, because the polling of `start`
  passes through two places and its deadline holds at both of them.
- `Lifecycle`: weak fairness of the coroutine, whose waits all have deadlines. The steps
  that need baresip's answer (`Served`) are not in it: the campaign ends with a baresip
  that never answers.
- `Parallel`: weak fairness of the coroutine, and of each request's own deadline
  (`RequestFails`). None for baresip or for the polls.
- `Probes`: weak fairness of the probe's own steps, its deadlines among them.
- `Foundation`: weak fairness of the gate where it does not await Chromium
  (`AwaitsBrowser`); none for messages or for the supervised process: the one that hangs
  does so for ever.
- `Pion`: weak fairness of the harness, of the endpoint's main goroutine and of its
  context's deadline. None for baresip, the echoes and the TURN server.

## 5. Proofs

TLAPS checks these to the last leaf, each for every value of the constants. Nothing is
assumed but the named assumptions of the modules about their constants.

| theorem | states | argument |
|---|---|---|
| `TurnImpairment_proofs!TypeCorrect` | `[]TypeOK` | action by action |
| `...!Conserved`, `StagesCorrect`, `ReadyIsBounded` | `[]Conservation`, `[]Stages`, `[]ReadyBounded` | jointly inductive |
| `...!DepartsInOrder`, `EvidenceIsTrue` | `[]DepartureOrder`, `[]ReorderEvidence` | below |
| `...!ExtremesAreReported` | `[]DelayExtremes`, if `Delay` is at least a millisecond more than the jitter | below |
| `Foundation_proofs!OrderedOracleExact` | the ordered oracle passes exactly equal transcripts of any length | extensionality of sequences |
| `...!NoEscape`, `CalibrationExact` | `[]NothingEscapes`, `[]Calibrated` | from the four injections, each of which changes the transcript |
| `...!UnorderedExactInGate` | `[]UnorderedAcceptsRearrangements` | below |
| `...!SortedOracleExact` | the oracle over the sorted transcripts passes exactly when every endpoint received what was sent to it, complete and in order | below |
| `...!PassIsCalibrated`, `NobodyBlamed` | `GateSpec => []PassMeansCalibrated`, `[]NoFalseAlarm` | below |
| `Campaign_proofs!PassMeansUnchanged` | `[]UnchangedOnPass` | below |
| `...!TypeCorrect`, `VerdictsAreBacked`, `FailuresAreRecorded`, `DirectoryIsOwn` | `[]TypeOK`, `[]VerdictBacked`, `[]FailuresRecorded`, `[]NothingMixed` | below |
| `Exchange_proofs!NoEventLost` | `[]EventLogComplete` | below |
| `...!UnorderedOracleExact` | the unordered oracle passes exactly when each channel has every value equally often | below |
| `...!PassIsEchoed`, `NobodyBlamed`, `TypeCorrect` | `[]PassMeansEchoed`, `[]NoFalseAlarm`, `[]TypeOK` | below |
| `...!ProbeTypeCorrect`, `PassIsRejected`, `PassIsAbandoned`, `ProbeNotBlamed` | of `Probes`: `[]ProbeTypeOK`, `[]PassMeansRejected`, `[]PassMeansAbandoned`, `[]NoFalseFailure` | below |
| `Pion_proofs!TypeCorrect` | `[]TypeOK` | the bound on echoes is `Echoes` |
| `...!PassIsEchoed`, `ClosedByBaresip` | `[]PassMeansEchoed`, `[]AutonomousClose` | below |
| `...!RacesAreHarmless` | `[]NoFalseAlarm` | below |
| `...!Refinement` | `Spec => ImplementsContract` | below |
| `Media_proofs!TypeCorrect`, `PassIsOwn`, `PassIsClean`, `Refinement` | of `Scenario`: `[]TypeOK`, `[]OwnProcessJudged`, `[]CleanPass`, `Spec => ImplementsContract` | below |
| `...!MediaPassIsOwn`, `MediaPassIsClean` | `MediaSpec => []OwnProcessJudged`, `[]CleanPass` | below |
| `...!MediaRefinement`, `MediaIsImmutable` | `MediaSpec => ImplementsContract`, `Immutable`, if closing the browser does not fail | below |
| `...!MediaVerdictStays` | `MediaSpec =>` once there is a result, it and the files stay, and the log only grows, also if closing the browser fails | below |
| `Lifecycle_proofs!TypeCorrect`, `EachCycleAlone`, `FailIsBacked`, `PassIsFollowed`, `Refinement` | `[]TypeOK`, `[]CyclesIsolated`, `[]FailMeansRan`, `[]PassMeansFollowed`, `Spec => ImplementsContract` | below |
| `Parallel_proofs!TypeCorrect`, `PassIsDeleted`, `Refinement` | `[]TypeOK`, `[]DeletedOnPass`, `Spec => ImplementsContract` | below |
| `...!PassIsOwn`, `NobodyBlamed` | `[]PassMeansOwn`, `[]NoFalseAlarm` | below |

*Conservation.* The sum is preserved by a step only together with `Stages`, which says
which of the three slots is occupied where, and with `ReadyBounded`, which says that the
queue is empty when `ReadFrom` refills it.

*Orders of departure.* `Joining` is the lemma behind all of it: returning and queueing
packets leaves the line `Outgoing` as it is, and only taking a packet that is not held back
adds to it, at its end: one packet with its copy, or the overtaking packet with its copy
before the overtaken one with its own. `Older` says that whatever is in line is older than
what is read or held back. What one addition does to the order and to the number of
overtaken packets is then a lemma about sequences (`JoinOne`, `JoinTwo`, `CountOne`,
`CountTwo`). The delays are applied before the packets join, and only the beginning of a
delay adds to the delayed packets (`WaitingStep`); that a smallest delay of zero stands for
none is why the theorem has a condition, and the finding `turn_delay_report` is what
happens without it.

*The campaign.* `UnchangedOnPass` is a statement about the end. The invariant `IInv`
speaks of undisturbed campaigns only, and says of them: artifacts only move away from the
bound content, if the manifest has one of them, and every verification compares with the
manifest (`Drift`); an operation that is tainted in an artifact with a bound content
leaves it changed, and the verification after it has read something else than the bound
content, be it the changed one or that it is unknown, or has yet to read it (`Evidence`);
recorded verdicts lie behind, and only started operations, untainted in what is bound,
passed (`Progress`). `Evidence` is the heart: it is what
makes a non-atomic verification as good as an atomic one.

The other promises of the campaign hold in disturbed campaigns, too. `AtHand` says that
the operations are taken one after the other and that nothing is recorded of the one at
hand; `Bound`, that whatever is verified is the bound content until the manifest is
rebuilt; `Opened`, that the last record is the verification before the operation at hand.
`Backed` follows, because records are only appended (`PairKept`). `NothingMixed` rests on
one more fact: from `load` on, nothing is left of an earlier campaign, and before it
nothing of this one is on record.

*The event log.* `EventLogComplete` holds when the transcript is judged; while a wait is
under way, part of the log is in its hands. The invariant says that the log, what the wait
has drained, and the queue, one after the other, are what arrived (`Drained`).

*The exchange.* What a wait finds and what the oracle judges are selections from logs, so
the argument rests on what `ReceivedValues` does to a concatenation and to one more event
(`Concatenated`, `OneMoreReceived`). Two parts carry the promises. `Channels`: whatever is
held against the sent values is the beginning of what arrived on that channel and is long
enough, and a wait has in its hands and in the queue everything that arrived on its
channel; the second half is what makes the first one inductive, because a message that an
earlier wait drained would be missing (none is, since nothing is sent on a channel before
its wait, `Untouched`). `Faultless`: as long as the echo has not misbehaved, what arrived
and what is under way is what was sent, in order on an ordered channel, and each value as
often on any channel. At the verdict the two meet: a long enough beginning of the right
messages is all of them. The transcripts the oracles compare are those of all channels,
one after the other; `UnorderedOracleExact` and `SameTranscriptSameValues` lead back from
them to the channels.

*The probes.* A pass is decided at the end, on what was found on the way, so the invariant
`PInv` says what has been settled so far *if nothing was found*. `Rejected`: the inputs
that are behind had their streams reset, and, since the third check drains the queue, no
malformed message arrived before it; one that arrives later is not `Noticed`, which the
history records and the property concedes. `Abandoned`: the dropper notes a FORWARD-TSN
only if baresip gave up the message or an earlier one, and before the last wait the
message is not among the drained events, so that only the queue, which that wait wants to
hold nothing else, could still have it. What joins them is `Heard`: what arrived in time
is in the queue or drained, whatever was drained in between. For the converse,
`Blameless`: as long as nothing can be held against anyone, nothing but the valid message
is in the queue, and only when it is waited for; and a message is given up only after it
was sent back, hence, `Stages` says, while the dropper was in place, and dropped.

*The gate.* The unordered oracle counts records; that equal counts mean that there is a
rearrangement, and the converse, are `AsOftenRearranges` and `RearrangedIsAsOften`
(the rearrangement sends the n-th occurrence of a record to its n-th occurrence). The
oracle of a scenario compares sorted transcripts: numbers are given out per direction, so
that no two records share number and direction, every record has a rank of its own, and
sorting neither loses nor merges records (`Ranked`, `SortedKeeps`, `SortedSame`).
`GInv` follows the gate: what was drained is numbered, one direction after the other
(`Transcribed`); as long as nothing was disturbed, the queue and the wire of a direction
hold what was sent in order (`Undisturbed`); a scenario that passed was exact (`Judged`);
the calibrations are used only when they are right (`CalibratedRight`, with the invariant
of `Calibration`, and `EvidenceRight`); and a crashed or hanging process never passes for
a successful one, while none is left behind (`SupervisedRight`).

*The Pion scenarios.* Five parts. `Echoes` bounds the echoes under way and arrived.
`Ended`: a printed report was printed by an endpoint that was not terminated, and says
`PASS` only when everything arrived. `Judged`: the harness's findings are about
the final report, since the endpoint is over when the harness judges; and
`PASS` is the absence of findings. `Sessions`: who can have ended the session at
which point; that is why a 404 seen by `wait_session_missing` can only be baresip's own
doing. `Cleanup`: which processes are gone at which point. The refinement follows: a step
publishes, collects before the publication, or changes nothing the contract sees. That no
race is what a scenario fails for takes two more: as long as nobody is to blame, the Pion
endpoint goes its way to a good report (`Straight`: what is under way and what has arrived
are together what was sent), and the harness its own without a finding (`Clear`).

*The product scenario.* `Session`: at most the process that created the session has it,
and only a session of its own lets baresip log anything, so that the log lines a `PASS`
needs are its own. `Process`: at which point it is stopped and its log task over.
`Judged`: a `PASS` is decided where nothing was found or raised, and stays so.

*The media regression.* `MInv` is the invariant of `Scenario` where `case = 0`, and `RInv`
else, with the same parts in a form that survives a second case: a session, the log and
`negotiated` are of the case at hand, and what is found stays found. The new one is
`Logged`: when a case is over, its process has logged both kinds of media, or that was
found missing. `MediaPassIsOwn` says it of the case that is published, the second one; of
the first one the invariant says the same at the moment it is over. Nothing of this needs
a browser that closes; only the end does: the case's `finally` clause stops the process if
the browser closes (`MediaProcess`), and so the refinement and `Immutable` have a
condition; the finding `media_leak` is what happens without it. What is left then is
`MediaVerdictStays`: in the place `done` only the processes that were left behind move,
and the log they write is the only thing they touch (`RegressionFinished`).

*The lifecycle campaign.* `Isolated`: only the session of the cycle under way can be open,
and not after its deletion, which makes every cycle start alone. `Followed`: as long
as there are no failures, every cycle so far was followed; it takes `Isolated` to know
that the end of the process, at which open sessions end, does not touch those of earlier
cycles. `Measured`: what baresip retains never exceeds the last sample again, because
only a session that is over adds to it. `Blamed`: what `negotiated` and an expired
deadline say is about the last cycle that began, since each cycle takes the flag back.

*Parallel sessions.* `Sessions`: a session is open only in the running process, whoever
asked for it and whether or not anybody still waits; that is what the end of the process
is needed for, and why the refinement holds although tasks outlive the `gather`. For the
messages, `Drained`: what a peer has seen and what is in its queue is what arrived, until
the harness has collected from it; then either nothing was in the queue, or too much was
found. `Checked` ties a `PASS` to what arrived, and `Faultless` says that without a
misbehaving echo what arrived and what is under way is what was sent. `NothingMissing` joins
them: a peer that has as many messages as were sent has nothing left under way.

Selections are recursive functions in the modules (`ReceivedValues`, `Mine`), transcripts
are joined by one (`FlattenSeq`), and sorting is by rank, so that they can be reasoned
about. Induction over their length is stated with sets (`Induction`: a set of numbers that
has 0 and with each number the next one has them all), from the least element of a set of
naturals.

The assumptions on constants are few: no payload is a string of sixty-four zeros
(`Oracle`); there is at least one channel (`Exchange`: the harness would have nothing to
wait for), peer (`Parallel`), artifact (`Campaign`) and message (`Parallel`, `Pion`,
`Foundation`); all other numbers, the models' own bounds among them, are any naturals, and
the switches have either value.

Only model-checked, and why: the liveness properties, since fairness and `ENABLED` are out
of the prover's reach. Every invariant a passing run checks is proved, and every
refinement; that `Immutable` is proved only under its condition is the point of the
finding.

## 6. Findings

| run | the documentation | the code |
|---|---|---|
| `turn_delay_report` | equal extremes mean that there was no delay variation (`main_test.go:95-96`; the oracle's `TURN deterministic jitter produced no delay variation`, `product.py:349-354`) | `main.go:111` takes a minimum of 0 ms for no minimum: after a delay below a millisecond the next delay becomes the minimum |
| `campaign_rewritten` | a source, executable, helper or library change cannot produce a product pass (`README.md:97-99`) | every verification reloads the manifest file (`evidence.py:280`) and two loads are never compared: change, rebuild the manifest, pass |
| `campaign_opaque` | the same sentence | of a tree on which `git status` or `git diff` fails, `source_state` reports `unknown` and no digest (`evidence.py:72`): the tree changes, unknown equals unknown, pass |
| `media_leak` | a scenario directory is immutable after its `result.json` is written (`docs/evidence-schema.md:11`) | the `finally` clause of a media case closes the peer first; when the browser does not close (`chromium.py:130-133`), baresip is not stopped, the `except` clause publishes, and the log task goes on writing `baresip.log` (`product.py:1078`) |

Six more differences were seen while modelling; the models follow the code, and no
run is spent on them: what is asked of a page, and closing the browser, is awaited
without a deadline (`chromium.py:76-132`; `product.py:825-847, 925, 1000-1012, 1041,
1078`), so that a browser that hangs keeps scenario and campaign from ever ending, although
`docs/endpoint-contract.md:24-25` says that the controller owns deadlines and cleanup (this
is what the second half of each `Ends` concedes); `rmtree` (`evidence.py:46`) may raise or be
interrupted when the earlier evidence is gone and its `product-summary.json` is not, which
then stands alone, although by `README.md:112-113` nothing of a prior run can be mistaken
for a current result; a message that another channel's wait drains is in `events.ndjson`
but not in the received manifest (`product.py:379`; `docs/evidence-schema.md:20-21` calls
the manifests complete); an exception replaces the failures collected before it
(`product.py:920`; `:24-25` promises every oracle outcome); a cleanup step that raises in
a `finally` clause skips `result.json` (`product.py:925`; `:32-34` promises a result even
for an infrastructure error); and a Pion endpoint that fails on its own counts as an
oracle failure (`product.py:318`), although `README.md:54-56` keeps `FAIL` for endpoints
that ran.

## 7. What is not modelled

- The libraries behind the peers (libre, aiortc, Pion, the browsers) and the network
  protocols: the environment of the models.
- SDP and candidate text: rewriting, filtering and the checks of their content. A check
  whose subject is not modelled is an oracle that may or may not find something.
- How artifacts are found and hashed (Git, ELF, library search): file I/O, a version
  number in `Campaign`. Of Git it is modelled that it may fail on a tree.
- Verdict `UNSUPPORTED`: only the capability probe of the foundation calibration reports
  it (`baresip_probe.py`), no operation that is modelled.
- The numbers that `resource_failures` and the statistics checks compare: an oracle that may
  or may not find something.
- `release_audit.py` and `probes/dtls_appdata.c`, as said in the inventory.
- `protocol.py`'s numbering of events, and the choice of an output directory in `cli.py`.
- What `versions`, `write_json` and the reports write, beyond which files there are.
- Overlap of two scenarios: an HTTP request runs in a thread that outlives its cancelled
  wait; the models end each scenario by itself.

## 8. Plan

Done, in the order of importance: the core of what a verdict means (`Oracle`,
`Calibration`, `Exchange`), who vouches for it (`Campaign`), how a scenario reaches it
(`ScenarioContract`, `Scenario`, `Pion`), what the impairment scenario measures
(`TurnImpairment`), the campaigns of many sessions (`Lifecycle`, `Parallel`), the probes
(`Probes`), the media regression (`Media`) and the gate before all of it (`Foundation`).

All invariants and refinements that runs check are proved, for all values of the constants.

To come: a composition of `Campaign` with `ScenarioContract`, an operation's evidence
against the campaign's verdict, and with it what a request that outlives its scenario can
do to the next.
