-------------------------------- MODULE Pion --------------------------------
(***************************************************************************)
(* The product scenarios with the independent Pion endpoint                *)
(* (acceptance/product.py run_pion_scenario and run_abrupt_peer_death):    *)
(* the harness starts a TURN server where the scenario needs one, baresip  *)
(* and the Pion endpoint (pion-endpoint/main.go), waits for what the Pion  *)
(* endpoint prints, judges it, and ends all three processes.               *)
(*                                                                         *)
(* Inside the Pion endpoint the main goroutine, the callbacks of the data  *)
(* channel and the deadline of its context run concurrently.  It creates   *)
(* and deletes its session at baresip by itself, except when it is to die  *)
(* abruptly: then baresip has to notice and close the session.  The TURN   *)
(* server takes signals from a channel of capacity one.                    *)
(*                                                                         *)
(* Messages are counted and not told apart, module Exchange does that.     *)
(***************************************************************************)
EXTENDS Naturals

CONSTANTS
    Kinds,          \* the scenarios to run
    Count,          \* how many messages are sent, in the abrupt scenario one
    FragileCleanup  \* whether capturing baresip's log can fail

ASSUME PionAssumption ==
    /\ Kinds \subseteq {"plain", "relay", "impaired", "abrupt"}
    /\ Count \in Nat \ {0}
    /\ FragileCleanup \in BOOLEAN

VARIABLES
    kind,       \* which scenario it is
    pc,         \* where the harness is
    failures,   \* the oracle failures so far
    sessionId,  \* whether the harness has a session to delete
    autonomous, \* whether baresip was seen to close the session by itself
    outcome,    \* what result.json will say
    evidence,   \* the files written
    result,     \* result.json, "none" when there is no such file
    stage,      \* where the Pion endpoint's main goroutine is
    output,     \* the report it composes, which its callbacks write to, too
    sent,       \* how many messages it has sent
    opened,     \* whether the data channel has opened
    received,   \* whether as many messages arrived as were sent
    expired,    \* whether its context has run out
    stdout,     \* the report it printed
    exit,       \* how it ended
    endpoint,   \* the baresip process
    logFailed,  \* whether the capture of its log has failed
    session,    \* the session at baresip
    wire,       \* the echoes under way
    turn,       \* the TURN server process
    signals,    \* its signal channel
    line,       \* what it has printed and nobody has read
    blamed      \* history: whether anything but the harness and the Pion
                \* endpoint was at fault

judgement == <<failures, sessionId, autonomous, outcome>>
files == <<evidence, result>>
harness == <<pc, judgement, files>>
pion == <<stage, output, sent, opened, received, expired, stdout, exit>>
baresip == <<endpoint, session, wire>>
server == <<turn, signals, line>>
vars == <<kind, harness, pion, baresip, logFailed, server, blamed>>

Report == [verdict : {"PASS", "INFRA_ERROR"}, messages : 0..(Count + 1),
           state : {"none", "connected", "lost"}, id : BOOLEAN]
NoReport == [verdict |-> "none", messages |-> 0, state |-> "none", id |-> FALSE]

Relay == {"relay", "impaired"}
Messages == IF kind = "abrupt" THEN 1 ELSE Count

\* The verdict of a report that nothing else is said in.
Preset == "INFRA_ERROR"

\* Written before the scenario starts anything.
Identity == {"command.txt", "scenario.json", "versions.json"}

Init ==
    /\ kind \in Kinds
    /\ pc = IF kind \in Relay THEN "turn" ELSE "start"
    /\ failures = {} /\ sessionId = FALSE /\ autonomous = FALSE
    /\ outcome = "INFRA_ERROR"
    /\ evidence = Identity
    /\ result = "none"
    /\ stage = "idle"
    /\ output = [NoReport EXCEPT !.verdict = Preset]
    /\ sent = 0 /\ opened = FALSE /\ received = FALSE /\ expired = FALSE
    /\ stdout = NoReport
    /\ exit = "none"
    /\ endpoint = "none" /\ session = "none" /\ wire = 0
    /\ logFailed \in {FALSE, FragileCleanup}
    /\ turn = "none" /\ signals = "none" /\ line = "none"
    /\ blamed = FALSE

-----------------------------------------------------------------------------
(* The Pion endpoint: the main goroutine.                                  *)

Running == stage \notin {"idle", "over"}

\* What run has deferred: the deletion of a session whose name is known.
Unwind == IF kind # "abrupt" /\ output.id THEN "delete" ELSE "report"

Gather ==
    /\ stage = "gather"
    /\ stage' = "create"
    /\ UNCHANGED <<kind, harness, output, sent, opened, received, expired,
                   stdout, exit, baresip, logFailed, server, blamed>>

\* signal creates a session; the answer may get lost and with it the name.
CreateSession ==
    /\ stage = "create"
    /\ endpoint = "running"
    /\ session' = "held"
    /\ \/ /\ output' = [output EXCEPT !.id = TRUE]
          /\ stage' = "describe"
          /\ UNCHANGED blamed
       \/ /\ stage' = "report"
          /\ blamed' = TRUE
          /\ UNCHANGED output
    /\ UNCHANGED <<kind, harness, sent, opened, received, expired, stdout, exit,
                   endpoint, wire, logFailed, server>>

\* signal exchanges the descriptions.
Describe ==
    /\ stage = "describe"
    /\ endpoint = "running" /\ session = "held"
    /\ stage' = "open"
    /\ UNCHANGED <<kind, harness, output, sent, opened, received, expired,
                   stdout, exit, baresip, logFailed, server, blamed>>

\* The states are recorded once, when the channel has opened.
Open ==
    /\ stage = "open"
    /\ opened
    /\ \E s \in {"connected", "lost"} :
          /\ output' = [output EXCEPT !.state = s]
          /\ blamed' = (blamed \/ s = "lost")
    /\ stage' = "send"
    /\ UNCHANGED <<kind, harness, sent, opened, received, expired, stdout, exit,
                   baresip, logFailed, server>>

\* One message after the other, while the echoes of the first come back.
Send ==
    /\ stage = "send"
    /\ sent' = sent + 1
    /\ wire' = wire + 1
    /\ stage' = IF sent' = Messages THEN "receive" ELSE "send"
    /\ UNCHANGED <<kind, harness, output, opened, received, expired, stdout,
                   exit, endpoint, session, logFailed, server, blamed>>

Receive ==
    /\ stage = "receive"
    /\ received
    /\ output' = [output EXCEPT !.verdict = "PASS"]
    /\ stage' = Unwind
    /\ UNCHANGED <<kind, harness, sent, opened, received, expired, stdout, exit,
                   baresip, logFailed, server, blamed>>

\* The context runs out in one of the selects, even when the other case is
\* ready as well; a request or a call of the library fails.
Fails ==
    /\ stage \in {"gather", "create", "describe", "open", "send", "receive"}
    /\ stage = "open" => expired \/ opened
    /\ stage = "receive" => expired
    /\ stage' = Unwind
    /\ blamed' = TRUE
    /\ UNCHANGED <<kind, harness, output, sent, opened, received, expired,
                   stdout, exit, baresip, logFailed, server>>

\* deleteSession, on the way out, ignores what becomes of the request.
DeleteSession ==
    /\ stage = "delete"
    /\ \/ /\ endpoint = "running" /\ session = "held"
          /\ session' = "deleted"
       \/ UNCHANGED session
    /\ stage' = "report"
    /\ UNCHANGED <<kind, harness, output, sent, opened, received, expired,
                   stdout, exit, endpoint, wire, logFailed, server, blamed>>

\* main copies the report without its lock, prints it and ends.
PrintReport ==
    /\ stage = "report"
    /\ stdout' = output
    /\ exit' = IF output.verdict # "PASS" THEN "failure"
               ELSE IF kind = "abrupt" THEN "killed" ELSE "success"
    /\ stage' = "over"
    /\ UNCHANGED <<kind, harness, output, sent, opened, received, expired,
                   baresip, logFailed, server, blamed>>

\* A callback that appends to the messages while they are copied can leave
\* main with a slice that never was, and no report.
Torn ==
    /\ stage = "report"
    /\ wire > 0
    /\ exit' = "failure"
    /\ stage' = "over"
    /\ blamed' = TRUE
    /\ UNCHANGED <<kind, harness, output, sent, opened, received, expired,
                   stdout, baresip, logFailed, server>>

-----------------------------------------------------------------------------
(* The Pion endpoint: callbacks and deadline, with the peer behind them.   *)

\* The channel opens; on a relay that takes several round trips to the TURN
\* server, long enough for it to listen to signals.
Opens ==
    /\ stage = "open"
    /\ kind \in Relay => turn = "running"
    /\ endpoint = "running" /\ session = "held"
    /\ opened' = TRUE
    /\ UNCHANGED <<kind, harness, stage, output, sent, received, expired,
                   stdout, exit, baresip, logFailed, server, blamed>>

\* Faulty variant of Arrive: one message early.
ArriveEarly ==
    /\ Running
    /\ wire > 0
    /\ wire' = wire - 1
    /\ output' = [output EXCEPT !.messages = @ + 1]
    /\ received' = (received \/ output.messages + 2 >= Messages)
    /\ UNCHANGED <<kind, harness, stage, sent, opened, expired, stdout, exit,
                   endpoint, session, logFailed, server, blamed>>

\* OnMessage appends, also when run is over, and counts.
Arrive ==
    /\ Running
    /\ wire > 0
    /\ wire' = wire - 1
    /\ output' = [output EXCEPT !.messages = @ + 1]
    /\ received' = (received \/ output.messages + 1 = Messages)
    /\ UNCHANGED <<kind, harness, stage, sent, opened, expired, stdout, exit,
                   endpoint, session, logFailed, server, blamed>>

\* The sixty seconds of the context.
Expire ==
    /\ Running
    /\ ~expired
    /\ expired' = TRUE
    /\ UNCHANGED <<kind, harness, stage, output, sent, opened, received, stdout,
                   exit, baresip, logFailed, server, blamed>>

-----------------------------------------------------------------------------
(* The harness: starting.                                                  *)

\* An exception; the deadlines of the harness among them.
Raise == pc' = "except" /\ blamed' = TRUE

Goto(place) == pc' = place /\ UNCHANGED blamed

\* An oracle that looks at something not modelled may fail.
Oracle(failure) ==
    \E F \in SUBSET {failure} :
        /\ failures' = failures \cup F
        /\ blamed' = (blamed \/ F # {})

SpawnTurn ==
    /\ pc = "turn"
    /\ \/ Goto("ready") /\ turn' = "starting"
       \/ Raise /\ UNCHANGED turn
    /\ UNCHANGED <<kind, judgement, files, pion, baresip, logFailed, signals,
                   line>>

\* The server says that it is ready, or does not in time.
TurnReady ==
    /\ pc = "ready"
    /\ \/ line = "ready" /\ line' = "none" /\ Goto("start")
       \/ Raise /\ UNCHANGED line
    /\ UNCHANGED <<kind, judgement, files, pion, baresip, logFailed, turn,
                   signals>>

\* BaresipEndpoint.start, which ends baresip again when it fails.
StartEndpoint ==
    /\ pc = "start"
    /\ \/ Goto("spawn") /\ endpoint' = "running"
       \/ Raise /\ endpoint' = "closed"
    /\ UNCHANGED <<kind, judgement, files, pion, session, wire, logFailed,
                   server>>

SpawnPion ==
    /\ pc = "spawn"
    /\ \/ Goto("talk") /\ stage' = "gather"
       \/ Raise /\ UNCHANGED stage
    /\ UNCHANGED <<kind, judgement, files, output, sent, opened, received,
                   expired, stdout, exit, baresip, logFailed, server>>

\* communicate returns when the Pion endpoint has ended.
Communicate ==
    /\ pc = "talk"
    /\ stage = "over"
    /\ evidence' = evidence \cup {"pion.stdout"}
    /\ Goto("judge")
    /\ UNCHANGED <<kind, judgement, result, pion, baresip, logFailed, server>>

\* The seventy-five seconds of the harness are more than the sixty of the
\* context, but less than those and the forty-five a deletion may take.
TalkTimeout ==
    /\ pc = "talk"
    /\ expired /\ stage = "delete"
    /\ Raise
    /\ UNCHANGED <<kind, judgement, files, pion, baresip, logFailed, server>>

-----------------------------------------------------------------------------
(* The harness: judging.                                                   *)

\* Faulty variant of Findings: the Pion endpoint's own verdict will do.
FindingsTrusting ==
    {f \in {"verdict", "exit"} :
        \/ f = "verdict" /\ stdout.verdict # "PASS"
        \/ f = "exit" /\ exit # IF kind = "abrupt" THEN "killed" ELSE "success"}

\* What the report says against the Pion endpoint, baresip or the exchange.
Findings ==
    {f \in {"verdict", "exit", "transcript", "transport", "session"} :
        \/ f = "verdict" /\ stdout.verdict # "PASS"
        \/ f = "exit" /\ exit # IF kind = "abrupt" THEN "killed" ELSE "success"
        \/ f = "transcript" /\ stdout.messages # Messages
        \/ f = "transport" /\ stdout.state # "connected"
        \/ f = "session" /\ kind = "abrupt" /\ ~stdout.id}

Unreadable ==
    /\ pc = "judge"
    /\ stdout = NoReport
    /\ Raise
    /\ UNCHANGED <<kind, judgement, files, pion, baresip, logFailed, server>>

\* run_pion_scenario judges the report and, on a relay, the route.
JudgeReport ==
    /\ pc = "judge"
    /\ kind # "abrupt"
    /\ stdout # NoReport
    /\ \E F \in IF kind \in Relay THEN SUBSET {"route"} ELSE {{}} :
          /\ failures' = Findings \cup F
          /\ blamed' = (blamed \/ F # {})
    /\ pc' = IF kind = "impaired" THEN "metrics" ELSE "close"
    /\ UNCHANGED <<kind, sessionId, autonomous, outcome, files, pion, baresip,
                   logFailed, server>>

\* run_abrupt_peer_death waits for baresip only if the death was as planned.
JudgeDeath ==
    /\ pc = "judge"
    /\ kind = "abrupt"
    /\ stdout # NoReport
    /\ failures' = Findings
    /\ sessionId' = stdout.id
    /\ Goto(IF stdout.id /\ {"verdict", "exit"} \cap Findings = {}
            THEN "watch" ELSE "measure")
    /\ UNCHANGED <<kind, autonomous, outcome, files, pion, baresip, logFailed,
                   server>>

\* wait_session_missing: a request is answered with 404.
Missing ==
    /\ pc = "watch"
    /\ endpoint = "running" /\ session # "held"
    /\ autonomous' = TRUE
    /\ Goto("measure")
    /\ UNCHANGED <<kind, failures, sessionId, outcome, files, pion, baresip,
                   logFailed, server>>

\* Faulty variant of WatchTimeout: that is nobody's failure.
WatchTimeoutLenient ==
    /\ pc = "watch"
    /\ Goto("measure")
    /\ UNCHANGED <<kind, judgement, files, pion, baresip, logFailed, server>>

\* The teardown budget is spent, or a request had no answer in time.
WatchTimeout ==
    /\ pc = "watch"
    /\ failures' = failures \cup {"retained"}
    /\ pc' = "measure"
    /\ blamed' = TRUE
    /\ UNCHANGED <<kind, sessionId, autonomous, outcome, files, pion, baresip,
                   logFailed, server>>

\* resource_snapshot needs the process.
Measure ==
    /\ pc = "measure"
    /\ endpoint = "running"
    /\ Oracle("growth")
    /\ pc' = IF sessionId THEN "remove" ELSE "close"
    /\ UNCHANGED <<kind, sessionId, autonomous, outcome, files, pion, baresip,
                   logFailed, server>>

\* delete_session_id tells whether there was a session left.
Remove ==
    /\ pc = "remove"
    /\ endpoint = "running"
    /\ session' = IF session = "held" THEN "deleted" ELSE session
    /\ failures' = failures \cup IF autonomous /\ session = "held"
                                 THEN {"retained"} ELSE {}
    /\ sessionId' = FALSE
    /\ Goto("close")
    /\ UNCHANGED <<kind, autonomous, outcome, files, pion, endpoint, wire,
                   logFailed, server>>

\* The process is gone, a request is refused or has no answer.
WatchFails ==
    /\ \/ pc = "remove"
       \/ pc \in {"watch", "measure"} /\ endpoint = "dead"
    /\ Raise
    /\ UNCHANGED <<kind, judgement, files, pion, baresip, logFailed, server>>

\* A signal to the TURN server: before it listens to signals it dies of it,
\* later the channel has room for one.
Notify(signal) ==
    IF turn = "running"
    THEN /\ signals' = IF signals = "none" THEN signal ELSE signals
         /\ UNCHANGED turn
    ELSE turn' = "over" /\ UNCHANGED signals

AskMetrics ==
    /\ pc = "metrics"
    /\ \/ turn # "over" /\ Notify("snapshot") /\ Goto("metering")
       \/ turn = "over" /\ Raise /\ UNCHANGED <<turn, signals>>
    /\ UNCHANGED <<kind, judgement, files, pion, baresip, logFailed, line>>

ReadMetrics ==
    /\ pc = "metering"
    /\ line = "metrics"
    /\ line' = "none"
    /\ Oracle("impairment")
    /\ evidence' = evidence \cup {"turn-metrics.json"}
    /\ pc' = "close"
    /\ UNCHANGED <<kind, sessionId, autonomous, outcome, result, pion, baresip,
                   logFailed, turn, signals>>

\* Ten seconds, or the end of the server's output.
MetricsFail ==
    /\ pc = "metering"
    /\ Raise
    /\ UNCHANGED <<kind, judgement, files, pion, baresip, logFailed, server>>

\* BaresipEndpoint.close takes its session with it; it raises when the log
\* task has failed, each time.
Terminate ==
    /\ endpoint' = IF endpoint = "none" THEN "none" ELSE "closed"
    /\ session' = IF session = "held" THEN "ended" ELSE session
    /\ UNCHANGED wire

CloseEndpoint ==
    /\ pc = "close"
    /\ Terminate
    /\ IF logFailed THEN Raise ELSE Goto("log")
    /\ UNCHANGED <<kind, judgement, files, pion, logFailed, server>>

\* baresip's log is judged, the evidence written, the verdict made.
Conclude ==
    /\ pc = "log"
    /\ Oracle("log")
    /\ evidence' = evidence \cup {"offer.sdp", "answer.sdp", "peer-stats.json",
          "sent-manifest.json", "received-manifest.json"}
    /\ outcome' = IF failures' = {} THEN "PASS" ELSE "FAIL"
    /\ pc' = "finally"
    /\ UNCHANGED <<kind, sessionId, autonomous, result, pion, baresip,
                   logFailed, server>>

\* Whatever was raised, a timeout included.
Except ==
    /\ pc = "except"
    /\ outcome' = "INFRA_ERROR"
    /\ Goto("finally")
    /\ UNCHANGED <<kind, failures, sessionId, autonomous, files, pion, baresip,
                   logFailed, server>>

-----------------------------------------------------------------------------
(* The harness: cleaning up.                                               *)

\* A session that is still known is deleted if baresip lets it; then baresip
\* is ended, and if that raises, nothing else is.
Finally ==
    /\ pc = "finally"
    /\ Terminate
    /\ Goto(IF logFailed /\ endpoint # "none" THEN "raised" ELSE "reap")
    /\ UNCHANGED <<kind, judgement, files, pion, logFailed, server>>

\* Faulty variant of ReapPion: a timed-out endpoint is left to itself.
ReapPionLater ==
    /\ pc = "reap"
    /\ evidence' = evidence \cup {"pion.stdout", "pion.log"}
    /\ Goto(IF turn = "none" THEN "publish" ELSE "reap turn")
    /\ UNCHANGED <<kind, judgement, result, pion, baresip, logFailed, server>>

\* terminate_and_reap: the Pion endpoint dies of SIGTERM.
ReapPion ==
    /\ pc = "reap"
    /\ stage' = IF Running THEN "over" ELSE stage
    /\ exit' = IF Running THEN "terminated" ELSE exit
    /\ evidence' = evidence \cup {"pion.stdout", "pion.log"}
    /\ Goto(IF turn = "none" THEN "publish" ELSE "reap turn")
    /\ UNCHANGED <<kind, judgement, result, output, sent, opened, received,
                   expired, stdout, baresip, logFailed, server>>

ReapTurn ==
    /\ pc = "reap turn"
    /\ Notify("terminate")
    /\ Goto("turn stopping")
    /\ UNCHANGED <<kind, judgement, files, pion, baresip, logFailed, line>>

TurnReaped ==
    /\ pc = "turn stopping"
    /\ turn = "over"
    /\ evidence' = evidence \cup {"turn-server.log"}
    /\ Goto("publish")
    /\ UNCHANGED <<kind, judgement, result, pion, baresip, logFailed, server>>

\* Faulty variant of KillTurn: SIGTERM has to do.
KillTurnNever == FALSE

\* Five seconds later, SIGKILL.
KillTurn ==
    /\ pc = "turn stopping"
    /\ turn # "over"
    /\ turn' = "over"
    /\ UNCHANGED <<kind, harness, pion, baresip, logFailed, signals, line,
                   blamed>>

Publish ==
    /\ pc = "publish"
    /\ result' = outcome
    /\ evidence' = evidence \cup {"result.json"}
    /\ Goto("done")
    /\ UNCHANGED <<kind, judgement, pion, baresip, logFailed, server>>

-----------------------------------------------------------------------------
(* The TURN server.                                                        *)

\* It announces itself before it listens to signals.
Announce ==
    /\ turn = "starting"
    /\ turn' = "announced"
    /\ line' = "ready"
    /\ UNCHANGED <<kind, harness, pion, baresip, logFailed, signals, blamed>>

Listen ==
    /\ turn = "announced"
    /\ turn' = "running"
    /\ UNCHANGED <<kind, harness, pion, baresip, logFailed, signals, line,
                   blamed>>

TakeSignal ==
    /\ turn = "running"
    /\ signals # "none"
    /\ signals' = "none"
    /\ IF signals = "snapshot" THEN line' = "metrics" /\ UNCHANGED turn
       ELSE turn' = "over" /\ UNCHANGED line
    /\ UNCHANGED <<kind, harness, pion, baresip, logFailed, blamed>>

-----------------------------------------------------------------------------
(* What may go wrong around the harness.                                   *)

\* baresip exits.
BaresipDies ==
    /\ endpoint = "running"
    /\ endpoint' = "dead"
    /\ session' = IF session = "held" THEN "ended" ELSE session
    /\ blamed' = TRUE
    /\ UNCHANGED <<kind, harness, pion, wire, logFailed, server>>

\* baresip closes the session: rightly so when its peer has died.
BaresipCloses ==
    /\ endpoint = "running" /\ session = "held"
    /\ session' = "closed"
    /\ blamed' = (blamed \/ exit # "killed")
    /\ UNCHANGED <<kind, harness, pion, endpoint, wire, logFailed, server>>

\* An echo is lost, or there is one too many.
EchoFault ==
    /\ wire > 0
    /\ \/ wire' = wire - 1
       \/ wire + output.messages <= sent /\ wire' = wire + 1
    /\ blamed' = TRUE
    /\ UNCHANGED <<kind, harness, pion, endpoint, session, logFailed, server>>

TurnDies ==
    /\ turn \in {"starting", "announced", "running"}
    /\ turn' = "over"
    /\ blamed' = TRUE
    /\ UNCHANGED <<kind, harness, pion, baresip, logFailed, signals, line>>

-----------------------------------------------------------------------------
Main ==
    \/ Gather \/ CreateSession \/ Describe \/ Open \/ Send \/ Receive \/ Fails
    \/ DeleteSession \/ PrintReport \/ Torn

Callbacks == Opens \/ Arrive \/ Expire

Coroutine ==
    \/ SpawnTurn \/ TurnReady \/ StartEndpoint \/ SpawnPion
    \/ Communicate \/ TalkTimeout
    \/ Unreadable \/ JudgeReport \/ JudgeDeath
    \/ Missing \/ WatchTimeout \/ Measure \/ Remove \/ WatchFails
    \/ AskMetrics \/ ReadMetrics \/ MetricsFail
    \/ CloseEndpoint \/ Conclude \/ Except
    \/ Finally \/ ReapPion \/ ReapTurn \/ TurnReaped \/ KillTurn \/ Publish

Turn == Announce \/ Listen \/ TakeSignal

Faults == BaresipDies \/ BaresipCloses \/ EchoFault \/ TurnDies

Next == Main \/ Callbacks \/ Coroutine \/ Turn \/ Faults

Spec == Init /\ [][Next]_vars

\* The harness and the Pion endpoint run and their deadlines pass; nothing is
\* expected of baresip, of the network and of the TURN server.
FairSpec ==
    Spec /\ WF_vars(Coroutine) /\ WF_vars(Main) /\ WF_vars(Expire)

-----------------------------------------------------------------------------
(* What these scenarios promise.                                           *)

\* Every variable has its type.
TypeOK ==
    /\ kind \in Kinds
    /\ pc \in {"turn", "ready", "start", "spawn", "talk", "judge", "watch",
               "measure", "remove", "metrics", "metering", "close", "log",
               "except", "finally", "reap", "reap turn", "turn stopping",
               "publish", "done", "raised"}
    /\ failures \subseteq {"verdict", "exit", "transcript", "transport",
          "session", "route", "retained", "growth", "impairment", "log"}
    /\ sessionId \in BOOLEAN /\ autonomous \in BOOLEAN
    /\ outcome \in {"PASS", "FAIL", "INFRA_ERROR"}
    /\ result \in {"none", "PASS", "FAIL", "INFRA_ERROR"}
    /\ stage \in {"idle", "gather", "create", "describe", "open", "send",
                  "receive", "delete", "report", "over"}
    /\ output \in Report
    /\ sent \in 0..Count
    /\ opened \in BOOLEAN /\ received \in BOOLEAN /\ expired \in BOOLEAN
    /\ stdout \in Report \cup {NoReport}
    /\ exit \in {"none", "success", "failure", "killed", "terminated"}
    /\ endpoint \in {"none", "running", "dead", "closed"}
    /\ logFailed \in BOOLEAN
    /\ session \in {"none", "held", "closed", "deleted", "ended"}
    /\ wire \in 0..(Count + 1)
    /\ turn \in {"none", "starting", "announced", "running", "over"}
    /\ signals \in {"none", "snapshot", "terminate"}
    /\ line \in {"none", "ready", "metrics"}
    /\ blamed \in BOOLEAN

\* Where the goroutines, the TURN server and the harness race, the race is
\* never what a scenario fails for: without a fault of baresip, the network
\* or the machine and without a deadline that passed, it is a PASS.
NoFalseAlarm == result # "none" /\ ~blamed => result = "PASS"

\* A pass means that the Pion endpoint ended by itself, after exactly as many
\* echoes as there were messages and none too many until it read its own
\* report, and that an impaired relay gave its counters afterwards.
PassMeansEchoed ==
    result = "PASS" =>
        /\ received /\ stdout.messages = Messages /\ exit # "terminated"
        /\ kind = "impaired" => "turn-metrics.json" \in evidence

\* The scenario is about baresip closing the session of a dead peer: it does
\* not pass when the session was deleted for it or ended with the process
\* (wait_session_missing, delete_session_id).
AutonomousClose == kind = "abrupt" /\ result = "PASS" => session = "closed"

Contract == INSTANCE ScenarioContract WITH
    Evidence <- Identity \cup {"pion.stdout", "pion.log", "turn-metrics.json",
        "turn-server.log", "offer.sdp", "answer.sdp", "peer-stats.json",
        "sent-manifest.json", "received-manifest.json", "result.json"},
    collected <- evidence,
    alive <- \/ Running \/ endpoint \in {"running", "dead"}
             \/ turn \notin {"none", "over"},
    verdict <- result

\* These scenarios implement the contract of the evidence directory as well:
\* the verdict is published once, when all three processes are gone.
ImplementsContract == Contract!Spec

\* Every scenario ends, whatever becomes of the signals, the requests and the
\* messages.
Ends == <>(pc \in {"done", "raised"})

=============================================================================
