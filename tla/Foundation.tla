----------------------------- MODULE Foundation -----------------------------
(***************************************************************************)
(* The foundation gate (acceptance/cli.py): before baresip is judged, the  *)
(* harness is.  Chromium and aiortc talk to each other in two scenarios    *)
(* (scenario.py), the transcript oracle is calibrated (module              *)
(* Calibration), so are the oracles of transports, media and evidence      *)
(* (oracle.py), with the evidence of the second scenario, and so is the    *)
(* supervision of processes (supervision.py).                              *)
(*                                                                         *)
(* Time is not modelled: a deadline may pass at any moment of its wait.    *)
(***************************************************************************)
EXTENDS Calibration

CONSTANTS
    Count,     \* how many messages either endpoint sends in a scenario
    MaxFaults  \* bound: how often the transport of a scenario fails

ASSUME FoundationAssumption == Count \in Nat \ {0} /\ MaxFaults \in Nat

VARIABLES
    at,          \* where the gate is
    scenario,    \* the scenario at hand
    open,        \* what of its endpoints is to be closed
    sent,        \* how many messages were sent in each direction
    wire,        \* the messages under way in each direction
    queue,       \* the events waiting at the end of each direction
    received,    \* the records of what was drained
    verdicts,    \* the verdict of each scenario, "none" before
    written,     \* the files of evidence of each scenario
    facts,       \* what the statistics kept of the second scenario show
    injected,    \* the verdicts on the oracles of transport, media, evidence
    child,       \* the process that is supervised
    supervised,  \* the verdicts on the supervised processes
    exit,        \* the exit status: "none", "0", "1" or "raised"
    exact,       \* history: the scenarios in which all was as it should be
    blamed,      \* history: whether anything was late or went wrong
    faults       \* history: how often the transport of the scenario failed

calibration == <<records, turn, results, pc>>
talk == <<sent, wire, queue, received, faults>>
gate == <<verdicts, written, facts, injected, child, supervised, exit, exact>>
allVars == <<calibration, at, scenario, open, talk, gate, blamed>>

Scenarios == 1..2           \* data only, and audio, video and data bundled
Bundle == 2
Directions == 1..2          \* aiortc to Chromium, and Chromium to aiortc
Modes == <<"success", "crash", "hang">>

\* What the statistics of the endpoints can show: the connection, the SCTP
\* association, media that are bundled, and media that arrive.
Facts == {"connected", "sctp", "bundled", "packets"}

\* The evidence a scenario is to leave.
Required == {"scenario.json", "command.txt", "versions.json", "events.ndjson",
    "offer.sdp", "answer.sdp", "sent-manifest.json", "received-manifest.json",
    "browser-stats.json", "aiortc-stats.json"}

Nothing == [d \in Directions |-> <<>>]
None == [d \in Directions |-> 0]
Unjudged == [m \in {Modes[i] : i \in DOMAIN Modes} |-> "none"]

GateInit ==
    /\ records = <<>> /\ turn = 0 /\ pc = "idle"
    /\ results = [n \in Names |-> "none"]
    /\ at = "start" /\ scenario = 1 /\ open = {}
    /\ sent = None /\ wire = Nothing /\ queue = Nothing /\ received = <<>>
    /\ verdicts = [s \in Scenarios |-> "none"]
    /\ written = [s \in Scenarios |-> {}]
    /\ facts = {}
    /\ injected = {}
    /\ child = "none" /\ supervised = Unjudged
    /\ exit = "none"
    /\ exact = {} /\ blamed = FALSE /\ faults = 0

-----------------------------------------------------------------------------
(* A scenario.                                                             *)

\* aiortc's peer connection exists, Chromium is started.
StartEndpoints ==
    /\ at = "start"
    /\ open' = {"aiortc", "browser"}
    /\ sent' = None /\ faults' = 0
    /\ at' = "negotiate"
    /\ UNCHANGED <<calibration, scenario, wire, queue, received, gate, blamed>>

\* Offer and answer, and the channel opens at both ends.
Negotiate ==
    /\ at = "negotiate"
    /\ at' = "send"
    /\ UNCHANGED <<calibration, scenario, open, talk, gate, blamed>>

\* What is a timeout or a RuntimeError ends the scenario, any other exception
\* the gate, once the endpoints are closed.
ScenarioFails ==
    /\ at \in {"start", "negotiate", "send", "drain", "stats"}
    /\ open' = {"aiortc", "browser"}
    /\ \/ /\ verdicts' = [verdicts EXCEPT ![scenario] = "INFRA_ERROR"]
          /\ at' = "close"
       \/ at' = "abandon" /\ UNCHANGED verdicts
    /\ blamed' = TRUE
    /\ UNCHANGED <<calibration, scenario, talk, written, facts, injected, child,
                   supervised, exit, exact>>

Record(d, n, body) == [direction |-> d, number |-> n, body |-> body]
Manifest == [i \in 1..(2 * Count) |->
            Record(IF i % 2 = 0 THEN 1 ELSE 2, (i + 1) \div 2, (i + 1) \div 2)]

\* What arrives of the messages of a direction if nothing goes wrong.
Unharmed(d) == [n \in 1..Count |-> Record(d, n, n)]

\* The endpoints take turns, Chromium first, and what they have sent may
\* arrive meanwhile.
Sender == IF sent[1] = sent[2] THEN 2 ELSE 1

SendMessage ==
    /\ at = "send"
    /\ sent' = [sent EXCEPT ![Sender] = @ + 1]
    /\ wire' = [wire EXCEPT ![Sender] = Append(@, sent[Sender] + 1)]
    /\ at' = IF sent'[1] = Count THEN "settle" ELSE "send"
    /\ UNCHANGED <<calibration, scenario, open, queue, received, faults, gate,
                   blamed>>

\* Half a second after the last message whatever has arrived is drained, at
\* Chromium and then at aiortc, and numbered in its direction.
DrainEnd ==
    /\ at \in {"settle", "drain"}
    /\ LET d == IF at = "settle" THEN 1 ELSE 2 IN
       /\ received' = received \o
             [n \in 1..Len(queue[d]) |-> Record(d, n, queue[d][n])]
       /\ queue' = [queue EXCEPT ![d] = <<>>]
       /\ IF wire[d] # <<>> THEN blamed' = TRUE ELSE UNCHANGED blamed
    /\ at' = IF at = "settle" THEN "drain" ELSE "stats"
    /\ UNCHANGED <<calibration, scenario, open, sent, wire, faults, gate>>

\* Faulty variant of Sorted: records are compared as they come.
SortedNot(log) == log

\* Records are compared in the order of their numbers.  No two records have
\* number and direction in common, and so each has a rank of its own.
NotAfter(a, b) ==
    \/ a.number < b.number
    \/ a.number = b.number /\ a.direction <= b.direction

Rank(r, rs) == Cardinality({q \in rs : NotAfter(q, r)})

Sorted(log) ==
    LET rs == {log[i] : i \in DOMAIN log} IN
    [i \in DOMAIN log |-> CHOOSE r \in rs : Rank(r, rs) = i]

Demand(needed, given) == IF needed \subseteq given THEN "PASS" ELSE "FAIL"
CheckTransport(f) == Demand({"connected", "sctp"}, f)
CheckMediaBundle(f) == Demand({"bundled", "packets"}, f)
CheckRequiredEvidence(dir) == Demand(Required, dir)

\* The oracles judge, the evidence is written and judged, too, and the verdict
\* is written with it.
JudgeScenario ==
    /\ at = "stats"
    /\ written' = [written EXCEPT ![scenario] = Required]
    /\ \E shown \in SUBSET Facts, sdp \in BOOLEAN :
          LET transcript == CompareOrdered(Sorted(Manifest), Sorted(received))
              good == /\ transcript = "PASS"
                      /\ sdp
                      /\ CheckTransport(shown) = "PASS"
                      /\ scenario = Bundle => CheckMediaBundle(shown) = "PASS"
                      /\ CheckRequiredEvidence(written'[scenario]) = "PASS"
              expected == IF scenario = Bundle THEN Facts
                          ELSE {"connected", "sctp"}
              asItShould == /\ sdp /\ expected \subseteq shown
                            /\ received = Unharmed(1) \o Unharmed(2)
          IN  /\ verdicts' = [verdicts EXCEPT ![scenario] =
                                 IF good THEN "PASS" ELSE "FAIL"]
              /\ facts' = IF scenario = Bundle THEN shown ELSE facts
              /\ exact' = IF asItShould THEN exact \cup {scenario} ELSE exact
              /\ blamed' = (blamed \/ ~sdp \/ ~(expected \subseteq shown))
    /\ at' = "close"
    /\ UNCHANGED <<calibration, scenario, open, talk, injected, child,
                   supervised, exit>>

\* The endpoints are closed; Chromium's may not close, which is fatal.
CloseEndpoints ==
    /\ at \in {"close", "abandon"}
    /\ wire' = Nothing /\ queue' = Nothing /\ received' = <<>>
    /\ \/ /\ open' = {}
          /\ scenario' = IF scenario = 1 /\ at = "close" THEN 2 ELSE scenario
          /\ at' = IF at = "abandon" THEN "exit"
                   ELSE IF scenario = 1 THEN "start" ELSE "calibrate"
          /\ exit' = IF at = "abandon" THEN "raised" ELSE exit
       \/ /\ open' = {"browser"}
          /\ at' = "exit" /\ exit' = "raised"
          /\ UNCHANGED scenario
    /\ UNCHANGED <<calibration, sent, faults, verdicts, written, facts,
                   injected, child, supervised, exact, blamed>>

-----------------------------------------------------------------------------
(* The calibrations.                                                       *)

\* Three messages in the code, here any transcript the oracle could get.
BeginCalibration ==
    /\ at = "calibrate"
    /\ \E values \in Transcripts, channel \in Labels :
          records' = Records(channel, values)
    /\ pc' = "calibrating"
    /\ at' = "calibrating"
    /\ UNCHANGED <<turn, results, scenario, open, talk, gate, blamed>>

Calibrate ==
    /\ at = "calibrating"
    /\ Next
    /\ UNCHANGED <<at, scenario, open, talk, gate, blamed>>

EndCalibration ==
    /\ at = "calibrating"
    /\ \/ pc = "done" /\ at' = "evidence" /\ UNCHANGED exit
       \/ pc = "raised" /\ at' = "exit" /\ exit' = "raised"
    /\ records' = <<>>
    /\ UNCHANGED <<turn, results, pc, scenario, open, talk, verdicts, written,
                   facts, injected, child, supervised, exact, blamed>>

Judgeable ==
    {"offer.sdp", "browser-stats.json", "aiortc-stats.json"}
        \subseteq written[Bundle]

\* A fact in evidence that is spoilt.
Spoil(f, fact) == f \ {fact}

\* The oracles judge the evidence of the second scenario, as it is and with
\* one fact spoilt, and a directory that does not exist.  Without the files
\* they read the gate ends here.
CalibrateEvidence ==
    /\ at = "evidence"
    /\ LET f == facts IN
       \/ /\ Judgeable
          /\ injected' = {
                <<"transport", "known-good", CheckTransport(f)>>,
                <<"transport", "injected", CheckTransport(Spoil(f, "sctp"))>>,
                <<"bundle", "known-good", CheckMediaBundle(f)>>,
                <<"bundle", "injected", CheckMediaBundle(Spoil(f, "bundled"))>>,
                <<"media", "injected", CheckMediaBundle(Spoil(f, "packets"))>>,
                <<"evidence", "known-good",
                  CheckRequiredEvidence(written[Bundle])>>,
                <<"evidence", "injected", CheckRequiredEvidence({})>>}
          /\ at' = "supervise"
          /\ UNCHANGED exit
       \/ /\ ~Judgeable
          /\ at' = "exit" /\ exit' = "raised"
          /\ UNCHANGED injected
    /\ UNCHANGED <<calibration, scenario, open, talk, verdicts, written, facts,
                   child, supervised, exact, blamed>>

-----------------------------------------------------------------------------
(* Supervision.                                                            *)

Unsupervised == {i \in DOMAIN Modes : supervised[Modes[i]] = "none"}
Mode == Modes[CHOOSE i \in Unsupervised : \A j \in Unsupervised : i <= j]

Spawn ==
    /\ at = "supervise"
    /\ Unsupervised # {}
    /\ child' = "running"
    /\ at' = "watch"
    /\ UNCHANGED <<calibration, scenario, open, talk, verdicts, written, facts,
                   injected, supervised, exit, exact, blamed>>

\* The process that is to hang outlives every deadline.
ChildExits ==
    /\ at = "watch" /\ child = "running"
    /\ Mode # "hang"
    /\ child' = IF Mode = "success" THEN "succeeded" ELSE "failed"
    /\ UNCHANGED <<calibration, at, scenario, open, talk, verdicts, written,
                   facts, injected, supervised, exit, exact, blamed>>

Classified(verdict) ==
    /\ supervised' = [supervised EXCEPT ![Mode] = verdict]
    /\ child' = "none"
    /\ at' = "supervise"

Reap ==
    /\ at = "watch"
    /\ child \in {"succeeded", "failed"}
    /\ Classified(IF child = "succeeded" THEN "PASS" ELSE "INFRA_ERROR")
    /\ UNCHANGED <<calibration, scenario, open, talk, verdicts, written, facts,
                   injected, exit, exact, blamed>>

\* Faulty variant of Overdue: nothing but an exit ends the wait.
OverdueNever ==
    /\ at = "watch" /\ child = "succeeded"
    /\ Classified("INFRA_ERROR")
    /\ blamed' = TRUE
    /\ UNCHANGED <<calibration, scenario, open, talk, verdicts, written, facts,
                   injected, exit, exact>>

\* The deadline of a quarter of a second passes: the process is killed and
\* waited for.
Overdue ==
    /\ at = "watch"
    /\ Classified("INFRA_ERROR")
    /\ IF Mode = "hang" THEN UNCHANGED blamed ELSE blamed' = TRUE
    /\ UNCHANGED <<calibration, scenario, open, talk, verdicts, written, facts,
                   injected, exit, exact>>

\* Faulty variant of Demanded: only what should fail is looked at.
DemandedLeniently ==
    /\ \A s \in Scenarios : verdicts[s] = "PASS"
    /\ \A m \in {"crash", "hang"} : supervised[m] = "INFRA_ERROR"

\* What a gate that passes needs.
Demanded ==
    /\ \A s \in Scenarios : verdicts[s] = "PASS"
    /\ \A n \in Names : results[n] = IF n = "known-good" THEN "PASS" ELSE "FAIL"
    /\ \A m \in DOMAIN supervised :
          supervised[m] = IF m = "success" THEN "PASS" ELSE "INFRA_ERROR"
    /\ \A i \in injected : i[3] = IF i[2] = "known-good" THEN "PASS" ELSE "FAIL"

\* What baresip can do is noted, if its header is to be found.
Summarise ==
    /\ at = "supervise"
    /\ Unsupervised = {}
    /\ at' = "exit"
    /\ exit' \in {IF Demanded THEN "0" ELSE "1", "raised"}
    /\ UNCHANGED <<calibration, scenario, open, talk, verdicts, written, facts,
                   injected, child, supervised, exact, blamed>>

-----------------------------------------------------------------------------
(* The transport between the endpoints.                                    *)

Talking == at \in {"send", "settle", "drain"}

Deliver(d) ==
    /\ Talking
    /\ wire[d] # <<>>
    /\ queue' = [queue EXCEPT ![d] = Append(@, Head(wire[d]))]
    /\ wire' = [wire EXCEPT ![d] = Tail(@)]
    /\ UNCHANGED <<calibration, at, scenario, open, sent, received, faults,
                   gate, blamed>>

\* The next message is lost, damaged or doubled.
Fail(d) ==
    /\ Talking
    /\ wire[d] # <<>>
    /\ faults < MaxFaults
    /\ wire' = [wire EXCEPT ![d] = Tail(@)]
          \/ wire' = [wire EXCEPT ![d][1] = 0]
          \/ wire' = [wire EXCEPT ![d] = <<Head(@)>> \o @]
    /\ faults' = faults + 1
    /\ blamed' = TRUE
    /\ UNCHANGED <<calibration, at, scenario, open, sent, queue, received,
                   gate>>

-----------------------------------------------------------------------------
Gate ==
    \/ StartEndpoints \/ Negotiate \/ ScenarioFails \/ SendMessage \/ DrainEnd
    \/ JudgeScenario \/ CloseEndpoints
    \/ BeginCalibration \/ Calibrate \/ EndCalibration \/ CalibrateEvidence
    \/ Spawn \/ Reap \/ Overdue \/ Summarise

GateNext == Gate \/ ChildExits \/ \E d \in Directions : Deliver(d) \/ Fail(d)

GateSpec == GateInit /\ [][GateNext]_allVars

\* Where the gate awaits Chromium: what is asked of the page, and to close the
\* browser, has no deadline (chromium.py).
AwaitsBrowser ==
    \/ at \in {"start", "negotiate", "settle", "stats", "close", "abandon"}
    \/ at = "send" /\ Sender = 2

\* The gate is one coroutine, and each of its other waits has a deadline.
FairGate == GateSpec /\ WF_allVars(~AwaitsBrowser /\ Gate)

-----------------------------------------------------------------------------
(* What the gate establishes.                                              *)

\* The command succeeds only if in both scenarios each endpoint got exactly
\* what the other one sent and the statistics show what they should, if every
\* violation of the evidence is seen, and with nothing left running (README.md).
PassMeansCalibrated ==
    exit = "0" =>
        /\ exact = Scenarios
        /\ pc = "done" /\ \A n \in Violations : results[n] = "FAIL"
        /\ supervised["success"] = "PASS"
        /\ \A i \in injected : i[2] = "injected" => i[3] = "FAIL"
        /\ open = {} /\ child = "none"

\* The command fails only for a reason: some message was lost, damaged,
\* doubled or late, some statistics were not as they should be, an endpoint
\* raised, or a deadline passed.  Order and interleaving are none.
NoFalseAlarm == exit = "1" => blamed

\* The gate ends, whatever aiortc and the processes do, unless it waits for
\* Chromium forever.
Ends == <>(exit # "none") \/ <>[]AwaitsBrowser

=============================================================================
