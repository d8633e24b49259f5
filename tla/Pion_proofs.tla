----------------------------- MODULE Pion_proofs -----------------------------
(***************************************************************************)
(* What the Pion scenarios promise, for any number of messages: a PASS     *)
(* means that all of them came back to an endpoint that ended by itself,   *)
(* the session of a dead peer was closed by baresip alone, and the         *)
(* evidence directory is what its contract says.                           *)
(***************************************************************************)
EXTENDS Pion, TLAPS

\* The echoes that are under way or have arrived, one too many at most.
Echoes ==
    /\ sent \in 0..Messages
    /\ wire + output.messages <= sent + 1
    /\ stage \in {"idle", "gather", "create", "describe", "open"} =>
          sent = 0 /\ wire = 0 /\ output.messages = 0
    /\ stage = "send" => sent < Messages

\* How the Pion endpoint ends, and what its report is worth.
Ended ==
    /\ stage # "over" => stdout = NoReport /\ exit = "none"
    /\ stdout # NoReport => exit # "terminated"
    /\ output.verdict = "PASS" => received
    /\ stdout.verdict = "PASS" => received

Judging == {"watch", "measure", "remove", "metrics", "metering", "close", "log"}

\* What the harness has found, it found in the final report, and a PASS is
\* the absence of findings.
Judged ==
    /\ pc = "judge" => stage = "over"
    /\ pc \in {"metrics", "metering"} => kind = "impaired"
    /\ pc \in {"watch", "measure", "remove"} => kind = "abrupt"
    /\ pc \in Judging =>
          stage = "over" /\ stdout # NoReport /\ Findings \subseteq failures
    /\ pc \in {"close", "log"} =>
          /\ kind = "impaired" => "turn-metrics.json" \in evidence
          /\ kind = "abrupt" => autonomous \/ failures # {}
    /\ pc \in {"measure", "remove"} => autonomous \/ failures # {}
    /\ outcome = "PASS" =>
          /\ stage = "over" /\ stdout # NoReport /\ Findings = {}
          /\ kind = "impaired" => "turn-metrics.json" \in evidence
          /\ kind = "abrupt" => autonomous
    /\ result = "PASS" => outcome = "PASS"

\* Who can have ended the session, and when.
Sessions ==
    /\ pc \in {"turn", "ready", "start"} => endpoint = "none"
    /\ output.id \/ stdout.id => session # "none"
    /\ session # "none" => endpoint # "none"
    /\ session = "ended" => endpoint \in {"dead", "closed"}
    /\ pc = "watch" => stdout.id
    /\ kind = "abrupt" => stage # "delete"
    /\ kind = "abrupt" /\ session = "deleted" =>
          pc \in {"close", "log", "except", "finally", "reap", "reap turn",
                  "turn stopping", "publish", "done", "raised"}
    /\ autonomous => session = "closed" /\ stage = "over"

\* Everything that can be found in the evidence directory.
Files ==
    Identity \cup {"pion.stdout", "pion.log", "turn-metrics.json",
        "turn-server.log", "offer.sdp", "answer.sdp", "peer-stats.json",
        "sent-manifest.json", "received-manifest.json", "result.json"}

\* The cleanup ends one process after the other, and the verdict comes last.
Cleanup ==
    /\ evidence \subseteq Files
    /\ pc \in {"turn", "ready", "start", "spawn"} => stage = "idle"
    /\ pc \in {"reap", "reap turn", "turn stopping", "publish", "done"} =>
          endpoint \in {"none", "closed"}
    /\ pc \in {"reap turn", "turn stopping", "publish", "done"} => ~Running
    /\ pc \in {"publish", "done"} => turn \in {"none", "over"}
    /\ "result.json" \in evidence => result # "none"
    /\ result # "none" => pc = "done"

IInv == TypeOK /\ Echoes /\ Ended /\ Judged /\ Sessions /\ Cleanup

\* The types of what the harness, the Pion endpoint and the others keep, the
\* report and the echoes apart.
HarnessTypes ==
    /\ pc \in {"turn", "ready", "start", "spawn", "talk", "judge", "watch",
               "measure", "remove", "metrics", "metering", "close", "log",
               "except", "finally", "reap", "reap turn", "turn stopping",
               "publish", "done", "raised"}
    /\ failures \subseteq {"verdict", "exit", "transcript", "transport",
          "session", "route", "retained", "growth", "impairment", "log"}
    /\ sessionId \in BOOLEAN /\ autonomous \in BOOLEAN
    /\ outcome \in {"PASS", "FAIL", "INFRA_ERROR"}
    /\ result \in {"none", "PASS", "FAIL", "INFRA_ERROR"}

PionTypes ==
    /\ stage \in {"idle", "gather", "create", "describe", "open", "send",
                  "receive", "delete", "report", "over"}
    /\ opened \in BOOLEAN /\ received \in BOOLEAN /\ expired \in BOOLEAN
    /\ exit \in {"none", "success", "failure", "killed", "terminated"}

OtherTypes ==
    /\ endpoint \in {"none", "running", "dead", "closed"}
    /\ session \in {"none", "held", "closed", "deleted", "ended"}
    /\ turn \in {"none", "starting", "announced", "running", "over"}
    /\ signals \in {"none", "snapshot", "terminate"}
    /\ line \in {"none", "ready", "metrics"}
    /\ blamed \in BOOLEAN

-----------------------------------------------------------------------------
LEMMA Initially == Init => IInv
  <1> SUFFICES ASSUME Init PROVE IInv
    OBVIOUS
  <1> USE PionAssumption
  <1>1. TypeOK
    <2>1. 0 \in 0..(Count + 1)
      OBVIOUS
    <2>2. output \in Report
      BY <2>1 DEF Init, Report, NoReport, Preset
    <2>3. logFailed \in BOOLEAN /\ stdout \in Report \cup {NoReport}
      BY DEF Init
    <2>4. wire \in 0..(Count + 1)
      BY <2>1 DEF Init
    <2>5. /\ kind \in Kinds
          /\ pc \in {"turn", "start"}
          /\ failures = {} /\ sessionId = FALSE /\ autonomous = FALSE
          /\ outcome = "INFRA_ERROR" /\ result = "none" /\ stage = "idle"
      BY DEF Init
    <2>6. /\ sent \in 0..Count
          /\ opened = FALSE /\ received = FALSE /\ expired = FALSE
          /\ exit = "none" /\ endpoint = "none" /\ session = "none"
          /\ turn = "none" /\ signals = "none" /\ line = "none"
          /\ blamed = FALSE
      BY DEF Init
    <2> QED
      BY <2>2, <2>3, <2>4, <2>5, <2>6 DEF TypeOK
  <1>2. Echoes
    BY DEF Init, NoReport, Echoes, Messages
  <1>3. Ended /\ Sessions
    BY DEF Init, NoReport, Preset, Ended, Sessions
  <1>4. Judged
    BY DEF Init, Judged, Judging
  <1>5. Cleanup
    BY DEF Init, Cleanup, Files, Identity
  <1> QED
    BY <1>1, <1>2, <1>3, <1>4, <1>5 DEF IInv

\* Appending to the report, or noting a state in it.
LEMMA ReportStep ==
    ASSUME output \in Report,
           \/ output.messages + 1 \in 0..(Count + 1)
              /\ output' = [output EXCEPT !.messages = @ + 1]
           \/ output' = [output EXCEPT !.id = TRUE]
           \/ output' = [output EXCEPT !.verdict = "PASS"]
           \/ \E s \in {"connected", "lost"} :
                  output' = [output EXCEPT !.state = s]
    PROVE  output' \in Report
  BY DEF Report

\* What each part of the system leaves alone.
LEMMA PionFrame ==
    ASSUME Main \/ Callbacks
    PROVE  UNCHANGED <<kind, harness, endpoint, server, logFailed>>
  <1> USE DEF harness, judgement, files, pion, baresip, server
  <1>1. CASE Main
    BY <1>1 DEF Main, Gather, CreateSession, Describe, Open, Send, Receive,
       Fails, DeleteSession, PrintReport, Torn
  <1>2. CASE Callbacks
    BY <1>2 DEF Callbacks, Opens, Arrive, Expire
  <1> QED
    BY <1>1, <1>2

LEMMA CoroutineFrame ==
    ASSUME Coroutine
    PROVE  UNCHANGED <<kind, output, sent, opened, received, expired, stdout,
                       wire, logFailed>>
  BY DEF Coroutine, SpawnTurn, TurnReady, StartEndpoint, SpawnPion,
     Communicate, TalkTimeout, Unreadable, JudgeReport, JudgeDeath, Missing,
     WatchTimeout, Measure, Remove, WatchFails, AskMetrics, ReadMetrics,
     MetricsFail, CloseEndpoint, Conclude, Except, Finally, ReapPion,
     ReapTurn, TurnReaped, KillTurn, Publish, Terminate,
     harness, judgement, files, pion, baresip, server

LEMMA OutsideFrame ==
    ASSUME Turn \/ Faults
    PROVE  UNCHANGED <<kind, harness, pion, logFailed>>
  BY DEF Turn, Announce, Listen, TakeSignal,
     Faults, BaresipDies, BaresipCloses, EchoFault, TurnDies,
     harness, judgement, files, pion, baresip, server

\* The harness starts the Pion endpoint once and ends it at the end.
LEMMA CoroutineStages ==
    ASSUME IInv, Coroutine
    PROVE  \/ stage' = stage /\ exit' = exit
           \/ /\ pc = "spawn" /\ stage = "idle"
              /\ stage' = "gather" /\ exit' = exit
           \/ Running /\ stage' = "over" /\ exit' = "terminated"
  <1>1. CASE SpawnPion
    BY <1>1 DEF SpawnPion, IInv, Cleanup
  <1>2. CASE ReapPion
    BY <1>2 DEF ReapPion
  <1>3. CASE ~(SpawnPion \/ ReapPion)
    BY <1>3 DEF Coroutine, SpawnTurn, TurnReady, StartEndpoint,
       Communicate, TalkTimeout, Unreadable, JudgeReport, JudgeDeath, Missing,
       WatchTimeout, Measure, Remove, WatchFails, AskMetrics, ReadMetrics,
       MetricsFail, CloseEndpoint, Conclude, Except, Finally, ReapTurn,
       TurnReaped, KillTurn, Publish, pion
  <1> QED
    BY <1>1, <1>2, <1>3

\* The goroutines run from the start of the Pion endpoint to its end.
LEMMA PionRuns ==
    ASSUME Main \/ Callbacks
    PROVE  Running /\ stage' # "idle"
  BY DEF Main, Gather, CreateSession, Describe, Open, Send, Receive, Fails,
     DeleteSession, PrintReport, Torn, Callbacks, Opens, Arrive, Expire,
     Running, Unwind

LEMMA EchoesStep == IInv /\ Next => Echoes'
  <1> SUFFICES ASSUME IInv, Next PROVE Echoes'
    OBVIOUS
  <1>1. wire \in Nat
    <2>1. wire \in 0..(Count + 1)
      BY DEF IInv, TypeOK
    <2> QED
      BY <2>1, PionAssumption
  <1>2. output \in Report /\ output.messages \in Nat
    <2>1. output \in Report
      BY DEF IInv, TypeOK
    <2>2. output.messages \in 0..(Count + 1)
      BY <2>1 DEF Report
    <2> QED
      BY <2>1, <2>2, PionAssumption
  <1>3. Messages \in Nat \ {0} /\ Messages' = Messages
    <2>1. kind' = kind
      BY PionFrame, CoroutineFrame, OutsideFrame DEF Next
    <2> QED
      BY <2>1, PionAssumption DEF Messages
  <1>4. Echoes
    BY DEF IInv
  <1> HIDE DEF Messages
  <1>5. CASE Main
    <2>1. CASE Send
      <3>1. /\ stage = "send" /\ sent' = sent + 1 /\ wire' = wire + 1
            /\ stage' = IF sent + 1 = Messages THEN "receive" ELSE "send"
            /\ output' = output
        BY <2>1 DEF Send
      <3>2. sent \in Nat /\ sent < Messages
        BY <1>3, <1>4, <3>1 DEF Echoes
      <3> QED
        BY <1>1, <1>2, <1>3, <1>4, <3>1, <3>2 DEF Echoes
    <2>2. CASE CreateSession \/ Open \/ Receive
      <3>1. output'.messages = output.messages /\ wire' = wire /\ sent' = sent
        BY <1>2, <2>2 DEF CreateSession, Open, Receive, Report, baresip
      <3>2. \/ stage' \notin {"idle", "gather", "create", "describe", "open",
                              "send"}
            \/ stage \in {"create", "open"}
        BY <2>2 DEF CreateSession, Open, Receive, Unwind
      <3> QED
        BY <1>1, <1>2, <1>3, <1>4, <3>1, <3>2 DEF Echoes
    <2>3. CASE Gather \/ Describe \/ Fails \/ DeleteSession \/ PrintReport \/ Torn
      <3>1. output' = output /\ wire' = wire /\ sent' = sent
        BY <2>3 DEF Gather, Describe, Fails, DeleteSession, PrintReport, Torn,
           baresip
      <3>2. \/ stage' \notin {"idle", "gather", "create", "describe", "open",
                              "send"}
            \/ stage \in {"gather", "describe"}
        BY <2>3 DEF Gather, Describe, Fails, DeleteSession, PrintReport, Torn,
           Unwind
      <3> QED
        BY <1>1, <1>2, <1>3, <1>4, <3>1, <3>2 DEF Echoes
    <2> QED
      BY <1>5, <2>1, <2>2, <2>3 DEF Main
  <1>6. CASE Callbacks
    <2>1. CASE Arrive
      <3>1. /\ wire > 0 /\ wire' = wire - 1 /\ stage' = stage
            /\ output'.messages = output.messages + 1 /\ sent' = sent
        BY <1>2, <2>1 DEF Arrive, Report
      <3> QED
        BY <1>1, <1>2, <1>3, <1>4, <3>1 DEF Echoes
    <2>2. CASE Opens \/ Expire
      BY <1>3, <1>4, <2>2 DEF Opens, Expire, Echoes, baresip
    <2> QED
      BY <1>6, <2>1, <2>2 DEF Callbacks
  <1>7. CASE Coroutine
    <2>1. output' = output /\ wire' = wire /\ sent' = sent
      BY <1>7, CoroutineFrame
    <2>2. stage' = stage \/ stage' = "over" \/ (stage = "idle" /\ stage' = "gather")
      BY <1>7, CoroutineStages
    <2> QED
      BY <1>3, <1>4, <2>1, <2>2 DEF Echoes
  <1>8. CASE Turn \/ Faults
    <2>1. output' = output /\ stage' = stage /\ sent' = sent
      BY <1>8, OutsideFrame DEF pion
    <2>2. CASE EchoFault
      BY <1>1, <1>2, <1>3, <1>4, <2>1, <2>2 DEF EchoFault, Echoes
    <2>3. CASE ~EchoFault
      <3>1. wire' = wire
        BY <1>8, <2>3 DEF Faults, BaresipDies, BaresipCloses, TurnDies, Turn,
           Announce, Listen, TakeSignal, baresip
      <3> QED
        BY <1>3, <1>4, <2>1, <3>1 DEF Echoes
    <2> QED
      BY <2>2, <2>3
  <1> QED
    BY <1>5, <1>6, <1>7, <1>8 DEF Next

\* The report, printed or not, and the count of echoes stay within bounds.
LEMMA ReportTypes == IInv /\ Echoes' /\ Next =>
        /\ output' \in Report
        /\ stdout' \in Report \cup {NoReport}
        /\ wire' \in 0..(Count + 1)
  <1> SUFFICES ASSUME IInv, Echoes', Next
               PROVE  /\ output' \in Report
                      /\ stdout' \in Report \cup {NoReport}
                      /\ wire' \in 0..(Count + 1)
    OBVIOUS
  <1>1. /\ output \in Report
        /\ stdout \in Report \cup {NoReport}
        /\ wire \in 0..(Count + 1)
    BY DEF IInv, TypeOK
  <1>2. output.messages \in Nat
    BY <1>1, PionAssumption DEF Report
  <1>3. Messages \in Nat /\ Messages <= Count
    BY PionAssumption DEF Messages
  <1>4. Echoes
    BY DEF IInv
  <1>5. CASE Main
    <2>1. output' \in Report
      BY <1>1, <1>5, ReportStep DEF Main, Gather, CreateSession, Describe, Open,
         Send, Receive, Fails, DeleteSession, PrintReport, Torn, pion
    <2>2. stdout' \in {stdout, output}
      BY <1>5 DEF Main, Gather, CreateSession, Describe, Open,
         Send, Receive, Fails, DeleteSession, PrintReport, Torn, pion
    <2>3. wire' \in {wire, wire + 1}
      BY <1>5 DEF Main, Gather, CreateSession, Describe, Open,
         Send, Receive, Fails, DeleteSession, PrintReport, Torn, baresip
    <2>4. wire' \in 0..(Count + 1)
      <3>1. output'.messages \in 0..(Count + 1)
        BY <2>1 DEF Report
      <3>2. kind' = kind
        BY <1>5, PionFrame
      <3>3. sent' \in 0..Messages /\ wire' + output'.messages <= sent' + 1
        BY <3>2 DEF Echoes, Messages
      <3> HIDE DEF Messages
      <3>4. wire' \in Nat
        BY <1>1, <2>3, PionAssumption
      <3> QED
        BY <1>3, <3>1, <3>3, <3>4, PionAssumption
    <2> QED
      BY <1>1, <2>1, <2>2, <2>4
  <1>6. CASE Arrive
    <2>1. /\ wire > 0 /\ wire' = wire - 1 /\ stdout' = stdout
          /\ output' = [output EXCEPT !.messages = @ + 1]
      BY <1>6 DEF Arrive
    <2>2. wire + output.messages <= sent + 1 /\ sent \in 0..Messages
      BY <1>4 DEF Echoes
    <2>3. output.messages + 1 \in 0..(Count + 1)
      BY <1>1, <1>2, <1>3, <2>1, <2>2, PionAssumption
    <2>4. output' \in Report
      BY <1>1, <2>1, <2>3, ReportStep
    <2> QED
      BY <1>1, <2>1, <2>4, PionAssumption
  <1>7. CASE Opens \/ Expire
    BY <1>1, <1>7 DEF Opens, Expire, baresip
  <1>8. CASE Coroutine
    BY <1>1, <1>8, CoroutineFrame
  <1>9. CASE Turn \/ Faults
    <2>1. output' = output /\ stdout' = stdout
      BY <1>9, OutsideFrame DEF pion
    <2>2. wire' \in {wire, wire - 1, wire + 1} /\ (wire' = wire - 1 => wire > 0)
      <3>1. CASE EchoFault
        BY <3>1 DEF EchoFault
      <3>2. CASE ~EchoFault
        <4>1. wire' = wire
          BY <1>9, <3>2 DEF Turn, Announce, Listen, TakeSignal, Faults,
             BaresipDies, BaresipCloses, TurnDies, baresip
        <4> QED
          BY <1>1, <4>1
      <3> QED
        BY <3>1, <3>2
    <2>3. wire' + output.messages <= sent' + 1 /\ sent' \in 0..Messages
      <3>1. kind' = kind
        BY <1>9, OutsideFrame
      <3> QED
        BY <2>1, <3>1 DEF Echoes, Messages
    <2> QED
      BY <1>1, <1>2, <1>3, <2>1, <2>2, <2>3, PionAssumption
  <1> QED
    BY <1>5, <1>6, <1>7, <1>8, <1>9 DEF Next, Callbacks

LEMMA HarnessTypesStep == TypeOK /\ HarnessTypes /\ Next => HarnessTypes'
  <1> SUFFICES ASSUME TypeOK, HarnessTypes, Next PROVE HarnessTypes'
    OBVIOUS
  <1>1. CASE Coroutine
    <2>1. CASE SpawnTurn \/ TurnReady \/ StartEndpoint \/ SpawnPion
      BY <2>1 DEF SpawnTurn, TurnReady, StartEndpoint, SpawnPion,
         HarnessTypes, Raise, Goto, Oracle,
         judgement, files, harness
    <2>2. CASE Communicate \/ TalkTimeout \/ Unreadable
      BY <2>2 DEF Communicate, TalkTimeout, Unreadable,
         HarnessTypes, Raise, Goto, Oracle,
         judgement, files, harness
    <2>3. CASE JudgeReport \/ JudgeDeath
      <3>1. /\ Findings \subseteq {"verdict", "exit", "transcript", "transport",
                                   "session"}
            /\ stdout.id \in BOOLEAN
        <4>1. Findings \subseteq {"verdict", "exit", "transcript", "transport",
                                  "session"}
          BY DEF Findings
        <4>2. stdout \in Report \cup {NoReport}
          BY DEF TypeOK
        <4>3. CASE stdout \in Report
          BY <4>1, <4>3 DEF Report
        <4>4. CASE stdout = NoReport
          BY <4>1, <4>4 DEF NoReport
        <4> QED
          BY <4>2, <4>3, <4>4
      <3>2. failures' \subseteq Findings \cup {"route"}
        BY <2>3 DEF JudgeReport, JudgeDeath
      <3> QED
        BY <2>3, <3>1, <3>2 DEF JudgeReport, JudgeDeath, HarnessTypes, Goto,
           files
    <2>4. CASE Missing \/ WatchTimeout \/ Measure \/ Remove
      BY <2>4 DEF Missing, WatchTimeout, Measure, Remove,
         HarnessTypes, Raise, Goto, Oracle,
         judgement, files, harness
    <2>5. CASE WatchFails \/ AskMetrics \/ ReadMetrics \/ MetricsFail
      BY <2>5 DEF WatchFails, AskMetrics, ReadMetrics, MetricsFail,
         HarnessTypes, Raise, Goto, Oracle,
         judgement, files, harness
    <2>6. CASE CloseEndpoint \/ Conclude \/ Except \/ Finally
      BY <2>6 DEF CloseEndpoint, Conclude, Except, Finally,
         HarnessTypes, Raise, Goto, Oracle,
         judgement, files, harness
    <2>7. CASE ReapPion \/ ReapTurn \/ TurnReaped \/ KillTurn \/ Publish
      BY <2>7 DEF ReapPion, ReapTurn, TurnReaped, KillTurn, Publish,
         HarnessTypes, Raise, Goto, Oracle,
         judgement, files, harness
    <2> QED
      BY <1>1, <2>1, <2>2, <2>3, <2>4, <2>5, <2>6, <2>7 DEF Coroutine
  <1>2. CASE ~Coroutine
    BY <1>2, PionFrame, OutsideFrame DEF Next, HarnessTypes, harness, judgement,
       files
  <1> QED
    BY <1>1, <1>2

LEMMA PionTypesStep == PionTypes /\ Next => PionTypes'
  <1> SUFFICES ASSUME PionTypes, Next PROVE PionTypes'
    OBVIOUS
  <1>1. CASE Main
    BY <1>1 DEF Main, Gather, CreateSession, Describe, Open, Send, Receive,
       Fails, DeleteSession, PrintReport, Torn, Unwind, PionTypes
  <1>2. CASE Callbacks
    BY <1>2 DEF Callbacks, Opens, Arrive, Expire, PionTypes
  <1>3. CASE Coroutine
    <2>1. CASE SpawnPion \/ ReapPion
      BY <2>1 DEF SpawnPion, ReapPion, PionTypes
    <2>2. CASE ~(SpawnPion \/ ReapPion)
      BY <1>3, <2>2 DEF Coroutine, SpawnTurn, TurnReady, StartEndpoint,
         Communicate, TalkTimeout, Unreadable, JudgeReport, JudgeDeath, Missing,
         WatchTimeout, Measure, Remove, WatchFails, AskMetrics, ReadMetrics,
         MetricsFail, CloseEndpoint, Conclude, Except, Finally, ReapTurn,
         TurnReaped, KillTurn, Publish, PionTypes, pion
    <2> QED
      BY <2>1, <2>2
  <1>4. CASE Turn \/ Faults
    BY <1>4, OutsideFrame DEF PionTypes, pion
  <1> QED
    BY <1>1, <1>2, <1>3, <1>4 DEF Next

LEMMA OtherTypesStep == OtherTypes /\ Next => OtherTypes'
  <1> SUFFICES ASSUME OtherTypes, Next PROVE OtherTypes'
    OBVIOUS
  <1>1. CASE Main
    BY <1>1 DEF Main, Gather, CreateSession, Describe, Open, Send, Receive,
       Fails, DeleteSession, PrintReport, Torn, OtherTypes, baresip, server
  <1>2. CASE Callbacks
    BY <1>2 DEF Callbacks, Opens, Arrive, Expire, OtherTypes, baresip, server
  <1>3. CASE Coroutine
    <2>1. CASE SpawnTurn \/ TurnReady \/ StartEndpoint \/ SpawnPion
      BY <2>1 DEF SpawnTurn, TurnReady, StartEndpoint, SpawnPion,
         OtherTypes, Raise, Goto, Oracle, Terminate, Notify, baresip, server, harness
    <2>2. CASE Communicate \/ TalkTimeout \/ Unreadable
      BY <2>2 DEF Communicate, TalkTimeout, Unreadable,
         OtherTypes, Raise, Goto, Oracle, Terminate, Notify, baresip, server, harness
    <2>3. CASE JudgeReport \/ JudgeDeath
      BY <2>3 DEF JudgeReport, JudgeDeath,
         OtherTypes, Raise, Goto, Oracle, Terminate, Notify, baresip, server, harness
    <2>4. CASE Missing \/ WatchTimeout \/ Measure \/ Remove
      BY <2>4 DEF Missing, WatchTimeout, Measure, Remove,
         OtherTypes, Raise, Goto, Oracle, Terminate, Notify, baresip, server, harness
    <2>5. CASE WatchFails \/ AskMetrics \/ ReadMetrics \/ MetricsFail
      BY <2>5 DEF WatchFails, AskMetrics, ReadMetrics, MetricsFail,
         OtherTypes, Raise, Goto, Oracle, Terminate, Notify, baresip, server, harness
    <2>6. CASE CloseEndpoint \/ Conclude \/ Except \/ Finally
      BY <2>6 DEF CloseEndpoint, Conclude, Except, Finally,
         OtherTypes, Raise, Goto, Oracle, Terminate, Notify, baresip, server, harness
    <2>7. CASE ReapPion \/ ReapTurn \/ TurnReaped \/ KillTurn \/ Publish
      BY <2>7 DEF ReapPion, ReapTurn, TurnReaped, KillTurn, Publish,
         OtherTypes, Raise, Goto, Oracle, Terminate, Notify, baresip, server, harness
    <2> QED
      BY <1>3, <2>1, <2>2, <2>3, <2>4, <2>5, <2>6, <2>7 DEF Coroutine
  <1>4. CASE Turn
    BY <1>4 DEF Turn, Announce, Listen, TakeSignal, OtherTypes, baresip
  <1>5. CASE Faults
    <2>1. CASE BaresipDies \/ BaresipCloses
      BY <2>1 DEF BaresipDies, BaresipCloses, OtherTypes, server
    <2>2. CASE EchoFault \/ TurnDies
      BY <2>2 DEF EchoFault, TurnDies, OtherTypes, baresip, server
    <2> QED
      BY <1>5, <2>1, <2>2 DEF Faults
  <1> QED
    BY <1>1, <1>2, <1>3, <1>4, <1>5 DEF Next

LEMMA TypeStep == IInv /\ Next => TypeOK'
  <1> SUFFICES ASSUME IInv, Next PROVE TypeOK'
    OBVIOUS
  <1>1. TypeOK
    BY DEF IInv
  <1>2. HarnessTypes /\ PionTypes /\ OtherTypes
    BY <1>1 DEF TypeOK, HarnessTypes, PionTypes, OtherTypes
  <1>3. HarnessTypes' /\ PionTypes' /\ OtherTypes'
    BY <1>1, <1>2, HarnessTypesStep, PionTypesStep, OtherTypesStep
  <1>4. kind' = kind /\ logFailed' = logFailed
    BY PionFrame, CoroutineFrame, OutsideFrame DEF Next
  <1>5. kind' \in Kinds /\ logFailed' \in BOOLEAN
    BY <1>1, <1>4 DEF TypeOK
  <1>6. /\ output' \in Report
        /\ stdout' \in Report \cup {NoReport}
        /\ wire' \in 0..(Count + 1)
    BY EchoesStep, ReportTypes
  <1>7. sent' \in 0..Count
    <2>1. sent' \in 0..Messages'
      BY EchoesStep DEF Echoes
    <2>2. Messages' \in Nat /\ Messages' <= Count
      BY PionAssumption DEF Messages
    <2> HIDE DEF Messages
    <2> QED
      BY <2>1, <2>2, PionAssumption
  <1> QED
    BY <1>3, <1>5, <1>6, <1>7 DEF TypeOK, HarnessTypes, PionTypes, OtherTypes

LEMMA EndedStep == IInv /\ Next => Ended'
  <1> SUFFICES ASSUME IInv, Next PROVE Ended'
    OBVIOUS
  <1>1. Ended
    BY DEF IInv
  <1>2. output \in Report
    BY DEF IInv, TypeOK
  <1>3. CASE Main
    <2>1. stage # "over"
      BY <1>3, PionRuns DEF Running
    <2>2. CASE Receive
      <3>1. output'.verdict = "PASS" => received'
        BY <2>2 DEF Receive
      <3> QED
        BY <1>1, <2>1, <2>2, <3>1 DEF Receive, Ended
    <2>3. CASE CreateSession \/ Open
      <3>1. output'.verdict = output.verdict
        BY <1>2, <2>3 DEF CreateSession, Open, Report
      <3> QED
        BY <1>1, <2>1, <2>3, <3>1 DEF CreateSession, Open, Ended
    <2>4. CASE PrintReport
      BY <1>1, <2>4 DEF PrintReport, Ended
    <2>5. CASE Torn
      BY <1>1, <2>5 DEF Torn, Ended
    <2>6. CASE Gather \/ Describe \/ Send \/ Fails \/ DeleteSession
      BY <1>1, <2>1, <2>6 DEF Gather, Describe, Send, Fails, DeleteSession, Ended
    <2> QED
      BY <1>3, <2>2, <2>3, <2>4, <2>5, <2>6 DEF Main
  <1>4. CASE Callbacks
    <2>1. stage' = stage /\ stdout' = stdout /\ exit' = exit
      BY <1>4 DEF Callbacks, Opens, Arrive, Expire
    <2>2. output'.verdict = output.verdict /\ (received => received')
      <3>1. CASE Arrive
        BY <1>2, <3>1 DEF Arrive, Report, IInv, TypeOK
      <3>2. CASE Opens \/ Expire
        BY <3>2 DEF Opens, Expire
      <3> QED
        BY <1>4, <3>1, <3>2 DEF Callbacks
    <2> QED
      BY <1>1, <2>1, <2>2 DEF Ended
  <1>5. CASE Coroutine
    BY <1>1, <1>5, CoroutineFrame, CoroutineStages DEF Ended, Running
  <1>6. CASE Turn \/ Faults
    BY <1>1, <1>6, OutsideFrame DEF Ended, pion
  <1> QED
    BY <1>3, <1>4, <1>5, <1>6 DEF Next

\* Once the Pion endpoint has ended, the findings are what they are.
LEMMA FindingsStep ==
    ASSUME IInv, Next, stage = "over"
    PROVE  stage' = "over" /\ stdout' = stdout /\ Findings' = Findings
  <1>1. ~(Main \/ Callbacks)
    BY PionRuns DEF Running
  <1>2. stage' = "over" /\ stdout' = stdout /\ exit' = exit /\ kind' = kind
    BY <1>1, CoroutineFrame, CoroutineStages, OutsideFrame DEF Next, Running, pion
  <1> QED
    BY <1>2 DEF Findings, Messages

LEMMA JudgedStep == IInv /\ Next => Judged'
  <1> SUFFICES ASSUME IInv, Next PROVE Judged'
    OBVIOUS
  <1>1. Judged
    BY DEF IInv
  <1>2. CASE Main \/ Callbacks
    <2>1. stage # "over"
      BY <1>2, PionRuns DEF Running
    <2>2. UNCHANGED <<kind, harness>>
      BY <1>2, PionFrame
    <2> QED
      BY <1>1, <2>1, <2>2 DEF Judged, Judging, harness, judgement, files
  <1>3. CASE Turn \/ Faults
    <2>1. UNCHANGED <<kind, harness, pion>>
      BY <1>3, OutsideFrame
    <2>2. Findings' = Findings
      BY <2>1 DEF Findings, Messages, pion
    <2> QED
      BY <1>1, <2>1, <2>2 DEF Judged, Judging, harness, judgement, files, pion
  <1>4. CASE Coroutine
    <2>1. kind' = kind
      BY <1>4, CoroutineFrame
    <2>2. stage = "over" =>
             stage' = "over" /\ stdout' = stdout /\ Findings' = Findings
      BY FindingsStep
    <2>3. result # "none" => pc = "done"
      BY DEF IInv, Cleanup
    <2> USE <1>1, <2>1, <2>2, <2>3
    <2> USE DEF Judged, Judging, Goto, Raise, judgement, files, harness
    <2>4. CASE SpawnTurn \/ TurnReady \/ StartEndpoint \/ SpawnPion \/ TalkTimeout
      BY <2>4 DEF SpawnTurn, TurnReady, StartEndpoint, SpawnPion, TalkTimeout
    <2>5. CASE Communicate \/ Unreadable
      BY <2>5 DEF Communicate, Unreadable
    <2>6. CASE JudgeReport
      BY <2>6 DEF JudgeReport
    <2>7. CASE JudgeDeath
      <3>1. ~stdout.id /\ kind = "abrupt" => "session" \in Findings
        BY DEF Findings
      <3> QED
        BY <2>7, <3>1 DEF JudgeDeath
    <2>8. CASE Missing \/ WatchTimeout
      BY <2>8 DEF Missing, WatchTimeout
    <2>9. CASE Measure \/ Remove
      BY <2>9 DEF Measure, Remove, Oracle
    <2>10. CASE WatchFails \/ AskMetrics \/ MetricsFail
      BY <2>10 DEF WatchFails, AskMetrics, MetricsFail
    <2>11. CASE ReadMetrics
      BY <2>11 DEF ReadMetrics, Oracle
    <2>12. CASE CloseEndpoint
      BY <2>12 DEF CloseEndpoint
    <2>13. CASE Conclude
      BY <2>13 DEF Conclude, Oracle
    <2>14. CASE Except \/ Finally
      BY <2>14 DEF Except, Finally
    <2>15. CASE ReapPion \/ ReapTurn \/ TurnReaped \/ KillTurn
      BY <2>15 DEF ReapPion, ReapTurn, TurnReaped, KillTurn
    <2>16. CASE Publish
      BY <2>16 DEF Publish
    <2> QED
      BY <1>4, <2>4, <2>5, <2>6, <2>7, <2>8, <2>9, <2>10, <2>11, <2>12, <2>13,
         <2>14, <2>15, <2>16 DEF Coroutine
  <1> QED
    BY <1>2, <1>3, <1>4 DEF Next

LEMMA SessionsStep == IInv /\ Next => Sessions'
  <1> SUFFICES ASSUME IInv, Next PROVE Sessions'
    OBVIOUS
  <1>1. Sessions
    BY DEF IInv
  <1>2. output \in Report
    BY DEF IInv, TypeOK
  <1>3. CASE Main
    <2>1. Running /\ UNCHANGED <<kind, harness, endpoint>>
      BY <1>3, PionRuns, PionFrame
    <2>2. stage # "over" /\ ~autonomous
      BY <1>1, <2>1 DEF Running, Sessions
    <2>3. CASE CreateSession
      <3>1. /\ stdout' = stdout /\ session' = "held" /\ endpoint = "running"
            /\ stage' \in {"describe", "report"}
        BY <2>3 DEF CreateSession
      <3> QED
        BY <1>1, <2>1, <2>2, <3>1 DEF Sessions, harness, judgement
    <2>4. CASE DeleteSession
      <3>1. /\ output' = output /\ stdout' = stdout /\ stage = "delete"
            /\ stage' = "report"
        BY <2>4 DEF DeleteSession
      <3>2. session' = session \/ (session = "held" /\ session' = "deleted")
        BY <2>4 DEF DeleteSession
      <3> QED
        BY <1>1, <2>1, <2>2, <3>1, <3>2 DEF Sessions, harness, judgement
    <2>5. CASE ~(CreateSession \/ DeleteSession)
      <3>1. session' = session /\ output'.id = output.id
        BY <1>2, <1>3, <2>5 DEF Main, Gather, Describe, Open, Send, Receive,
           Fails, PrintReport, Torn, baresip, Report
      <3>2. stdout' = stdout \/ stdout' = output
        BY <1>3, <2>5 DEF Main, Gather, Describe, Open, Send, Receive, Fails,
           PrintReport, Torn
      <3>3. kind = "abrupt" => stage' # "delete"
        BY <1>3, <2>5 DEF Main, Gather, Describe, Open, Send, Receive, Fails,
           PrintReport, Torn, Unwind
      <3>4. pc' = pc /\ autonomous' = autonomous
        BY <2>1 DEF harness, judgement
      <3>5. stdout'.id => session # "none"
        BY <1>1, <3>2 DEF Sessions
      <3>6. pc # "watch" \/ stdout' = stdout
        BY <2>2 DEF IInv, Judged, Judging
      <3> QED
        BY <1>1, <2>1, <2>2, <3>1, <3>3, <3>4, <3>5, <3>6 DEF Sessions
    <2> QED
      BY <2>3, <2>4, <2>5
  <1>4. CASE Callbacks
    <2>1. /\ UNCHANGED <<kind, harness, endpoint>>
          /\ stage' = stage /\ stdout' = stdout /\ session' = session
      BY <1>4, PionFrame DEF Callbacks, Opens, Arrive, Expire, baresip
    <2>2. output'.id = output.id
      BY <1>2, <1>4 DEF Callbacks, Opens, Arrive, Expire, Report
    <2> QED
      BY <1>1, <2>1, <2>2 DEF Sessions, harness, judgement
  <1>5. CASE Coroutine
    <2>1. kind' = kind /\ output' = output /\ stdout' = stdout
      BY <1>5, CoroutineFrame
    <2>2. stage' = stage \/ stage' = "over" \/ (stage = "idle" /\ stage' = "gather")
      BY <1>5, CoroutineStages
    <2>3. session \in {"none", "held", "closed", "deleted", "ended"}
      BY DEF IInv, TypeOK
    <2>4. pc \in Judging => stage = "over"
      BY DEF IInv, Judged
    <2>5. pc \in {"watch", "remove"} => kind = "abrupt"
      BY DEF IInv, Judged
    <2>6. stage = "over" => stage' = "over"
      BY FindingsStep
    <2> DEFINE Early == {"turn", "ready", "start"}
    <2> DEFINE Late == {"close", "log", "except", "finally", "reap", "reap turn",
                        "turn stopping", "publish", "done", "raised"}
    <2> DEFINE Walk == /\ autonomous' = autonomous
                       /\ pc' \in Early => pc \in Early
                       /\ pc \in Late => pc' \in Late
                       /\ pc' = "watch" => stdout.id
    <2>7. ASSUME Walk, session' = session, endpoint' = endpoint
          PROVE  Sessions'
      BY <1>1, <2>1, <2>2, <2>6, <2>7 DEF Sessions
    <2> USE DEF Goto, Raise, judgement, files, harness, baresip
    <2>8. CASE SpawnTurn \/ TurnReady \/ SpawnPion \/ TalkTimeout
      BY <2>7, <2>8 DEF SpawnTurn, TurnReady, SpawnPion, TalkTimeout
    <2>9. CASE StartEndpoint
      BY <1>1, <2>1, <2>2, <2>6, <2>9 DEF StartEndpoint, Sessions
    <2>10. CASE Communicate \/ Unreadable \/ JudgeReport
      BY <2>7, <2>10 DEF Communicate, Unreadable, JudgeReport
    <2>11. CASE JudgeDeath
      BY <2>7, <2>11 DEF JudgeDeath
    <2>12. CASE Missing
      <3>1. session = "closed"
        BY <1>1, <2>3, <2>5, <2>12 DEF Missing, Sessions
      <3>2. stage' = "over"
        BY <2>4, <2>6, <2>12 DEF Missing, Judging
      <3>3. /\ session' = session /\ endpoint' = endpoint
            /\ pc' = "measure" /\ kind' = kind
        BY <2>12 DEF Missing
      <3> QED
        BY <1>1, <2>1, <3>1, <3>2, <3>3 DEF Sessions
    <2>13. CASE Remove
      <3>1. /\ endpoint' = endpoint /\ pc' = "close"
            /\ autonomous' = autonomous
            /\ session' = session \/ (session = "held" /\ session' = "deleted")
        BY <2>13 DEF Remove
      <3> QED
        BY <1>1, <2>1, <2>2, <2>6, <3>1 DEF Sessions
    <2>14. CASE WatchTimeout \/ Measure \/ WatchFails
      BY <2>7, <2>14 DEF WatchTimeout, Measure, Oracle, WatchFails
    <2>15. CASE AskMetrics \/ ReadMetrics \/ MetricsFail
      BY <2>7, <2>15 DEF AskMetrics, ReadMetrics, Oracle, MetricsFail
    <2>16. CASE CloseEndpoint \/ Finally
      <3>1. /\ Terminate /\ autonomous' = autonomous
            /\ pc' \in {"log", "except", "reap", "raised"}
        BY <2>16 DEF CloseEndpoint, Finally
      <3> QED
        BY <1>1, <2>1, <2>2, <2>6, <3>1 DEF Sessions, Terminate
    <2>17. CASE Conclude \/ Except \/ Publish
      BY <2>7, <2>17 DEF Conclude, Oracle, Except, Publish
    <2>18. CASE ReapPion \/ ReapTurn \/ TurnReaped \/ KillTurn
      BY <2>7, <2>18 DEF ReapPion, ReapTurn, TurnReaped, KillTurn
    <2> QED
      BY <1>5, <2>8, <2>9, <2>10, <2>11, <2>12, <2>13, <2>14, <2>15, <2>16,
         <2>17, <2>18 DEF Coroutine
  <1>6. CASE Turn \/ Faults
    <2>1. UNCHANGED <<kind, harness, pion>>
      BY <1>6, OutsideFrame
    <2>2. CASE Turn \/ EchoFault \/ TurnDies
      <3>1. session' = session /\ endpoint' = endpoint
        BY <2>2 DEF Turn, Announce, Listen, TakeSignal, EchoFault, TurnDies,
           baresip
      <3> QED
        BY <1>1, <2>1, <3>1 DEF Sessions, harness, judgement, pion
    <2>3. CASE BaresipDies \/ BaresipCloses
      BY <1>1, <2>1, <2>3 DEF BaresipDies, BaresipCloses, Sessions, harness,
         judgement, pion
    <2> QED
      BY <1>6, <2>2, <2>3 DEF Faults
  <1> QED
    BY <1>3, <1>4, <1>5, <1>6 DEF Next

LEMMA CleanupStep == IInv /\ Next => Cleanup'
  <1> SUFFICES ASSUME IInv, Next PROVE Cleanup'
    OBVIOUS
  <1>1. Cleanup
    BY DEF IInv
  <1>2. CASE Main \/ Callbacks
    <2>1. Running /\ stage' # "idle" /\ UNCHANGED <<harness, endpoint, server>>
      BY <1>2, PionRuns, PionFrame
    <2>2. pc \notin {"turn", "ready", "start", "spawn"}
      BY <1>1, <2>1 DEF Cleanup, Running
    <2> QED
      BY <1>1, <2>1, <2>2 DEF Cleanup, harness, files, server
  <1>3. CASE Turn \/ Faults
    <2>1. UNCHANGED <<harness, pion>>
      BY <1>3, OutsideFrame
    <2>2. /\ turn \in {"none", "over"} => turn' = turn
          /\ endpoint \in {"none", "closed"} => endpoint' = endpoint
      BY <1>3 DEF Turn, Announce, Listen, TakeSignal, Faults, BaresipDies,
         BaresipCloses, EchoFault, TurnDies, baresip, server
    <2> QED
      BY <1>1, <2>1, <2>2 DEF Cleanup, Running, harness, files, pion
  <1>4. CASE Coroutine
    <2>1. stage' = stage \/ stage' = "over" \/ pc = "spawn"
      BY <1>4, CoroutineStages
    <2>2. turn \in {"none", "starting", "announced", "running", "over"}
      BY DEF IInv, TypeOK
    <2> USE <1>1, <2>1
    <2> USE DEF Cleanup, Files, Running, Goto, Raise, judgement, files, harness,
            baresip, server
    <2>3. CASE SpawnTurn \/ TurnReady \/ SpawnPion
      BY <2>3 DEF SpawnTurn, TurnReady, SpawnPion, pion
    <2>4. CASE StartEndpoint
      BY <2>4 DEF StartEndpoint, pion
    <2>5. CASE Communicate \/ TalkTimeout \/ Unreadable \/ JudgeReport \/ JudgeDeath
      BY <2>5 DEF Communicate, TalkTimeout, Unreadable, JudgeReport, JudgeDeath,
         pion
    <2>6. CASE Missing \/ WatchTimeout \/ Measure \/ Remove \/ WatchFails
      BY <2>6 DEF Missing, WatchTimeout, Measure, Oracle, Remove, WatchFails, pion
    <2>7. CASE AskMetrics \/ ReadMetrics \/ MetricsFail
      BY <2>7 DEF AskMetrics, ReadMetrics, Oracle, MetricsFail, pion
    <2>8. CASE CloseEndpoint \/ Finally
      BY <2>8 DEF CloseEndpoint, Finally, Terminate, pion
    <2>9. CASE Conclude \/ Except
      BY <2>9 DEF Conclude, Oracle, Except, pion
    <2>10. CASE ReapPion
      BY <2>10 DEF ReapPion
    <2>11. CASE ReapTurn \/ TurnReaped \/ KillTurn
      BY <2>11 DEF ReapTurn, TurnReaped, KillTurn, pion
    <2>12. CASE Publish
      <3>1. outcome # "none"
        BY DEF IInv, TypeOK
      <3> QED
        BY <2>12, <3>1 DEF Publish, pion
    <2> QED
      BY <1>4, <2>3, <2>4, <2>5, <2>6, <2>7, <2>8, <2>9, <2>10, <2>11, <2>12
         DEF Coroutine
  <1> QED
    BY <1>2, <1>3, <1>4 DEF Next

LEMMA Invariance == IInv /\ [Next]_vars => IInv'
  <1>1. CASE Next
    BY <1>1, TypeStep, EchoesStep, EndedStep, JudgedStep, SessionsStep,
       CleanupStep DEF IInv
  <1>2. CASE UNCHANGED vars
    <2>1. /\ UNCHANGED <<kind, pc, failures, sessionId, autonomous, outcome>>
          /\ UNCHANGED <<evidence, result, stage, output, opened, received>>
          /\ UNCHANGED <<sent, expired, stdout, exit, endpoint, session, wire>>
          /\ UNCHANGED <<logFailed, turn, signals, line, blamed>>
      BY <1>2 DEF vars, harness, judgement, files, pion, baresip, server
    <2>2. IInv => TypeOK'
      <3>1. IInv => HarnessTypes /\ PionTypes /\ OtherTypes
        BY DEF IInv, TypeOK, HarnessTypes, PionTypes, OtherTypes
      <3>2. HarnessTypes => HarnessTypes'
        BY <2>1 DEF HarnessTypes
      <3>3. PionTypes => PionTypes'
        BY <2>1 DEF PionTypes
      <3>4. OtherTypes => OtherTypes'
        BY <2>1 DEF OtherTypes
      <3>5. IInv => /\ kind' \in Kinds /\ output' \in Report
                    /\ stdout' \in Report \cup {NoReport}
                    /\ logFailed' \in BOOLEAN /\ wire' \in 0..(Count + 1)
                    /\ sent' \in 0..Count
        <4>1. IInv => /\ kind \in Kinds /\ output \in Report
                      /\ stdout \in Report \cup {NoReport}
                      /\ logFailed \in BOOLEAN /\ wire \in 0..(Count + 1)
                      /\ sent \in 0..Count
          BY DEF IInv, TypeOK
        <4> QED
          BY <2>1, <4>1
      <3> QED
        BY <3>1, <3>2, <3>3, <3>4, <3>5
           DEF TypeOK, HarnessTypes, PionTypes, OtherTypes
    <2>3. IInv => Echoes' /\ Ended'
      BY <2>1 DEF IInv, Echoes, Messages, Ended
    <2>4. IInv => Judged'
      BY <2>1 DEF IInv, Judged, Judging, Findings, Messages
    <2>5. IInv => Sessions' /\ Cleanup'
      BY <2>1 DEF IInv, Sessions, Cleanup, Running
    <2> QED
      BY <2>2, <2>3, <2>4, <2>5 DEF IInv
  <1> QED
    BY <1>1, <1>2

LEMMA Correct == Spec => []IInv
  BY Initially, Invariance, PTL DEF Spec

-----------------------------------------------------------------------------
(* What follows from the invariant.                                        *)

\* Every variable keeps its type, for any number of messages.
THEOREM TypeCorrect == Spec => []TypeOK
  <1>1. IInv => TypeOK
    BY DEF IInv
  <1> QED
    BY <1>1, Correct, PTL

\* For any number of messages, whatever the goroutines, the callbacks, the
\* deadlines and the faults do: a scenario that passes had exactly its
\* messages back, from an endpoint that was not terminated, and an impaired
\* relay's counters in its evidence (run_pion_scenario, run of the endpoint).
THEOREM PassIsEchoed == Spec => []PassMeansEchoed
  <1>1. IInv => PassMeansEchoed
    <2> SUFFICES ASSUME IInv, result = "PASS" PROVE PassMeansEchoed
      BY DEF PassMeansEchoed
    <2>1. /\ stdout # NoReport /\ Findings = {}
          /\ kind = "impaired" => "turn-metrics.json" \in evidence
      BY DEF IInv, Judged
    <2>2. stdout.verdict = "PASS" /\ stdout.messages = Messages
      BY <2>1 DEF Findings
    <2>3. received /\ exit # "terminated"
      BY <2>1, <2>2 DEF IInv, Ended
    <2> QED
      BY <2>1, <2>2, <2>3 DEF PassMeansEchoed
  <1> QED
    BY <1>1, Correct, PTL

\* The abrupt scenario passes only if baresip itself closed the session of
\* its dead peer: the harness's own deletion and the end of the process never
\* count (wait_session_missing, delete_session_id, close).
THEOREM ClosedByBaresip == Spec => []AutonomousClose
  <1>1. IInv => AutonomousClose
    BY DEF IInv, Judged, Sessions, AutonomousClose
  <1> QED
    BY <1>1, Correct, PTL

\* The way of a Pion endpoint that nobody is to blame for anything: it knows
\* its session, its echoes are on their way or there, and its report is good.
Straight ==
    /\ stage \in {"idle", "gather", "create", "describe", "open"} => ~received
    /\ ~blamed =>
          /\ stage \in {"describe", "open", "send", "receive", "delete", "report"} =>
                output.id
          /\ stage \in {"send", "receive", "delete", "report"} =>
                output.state = "connected"
          /\ stage = "send" => wire + output.messages = sent /\ ~received
          /\ stage \in {"receive", "delete", "report"} =>
                /\ wire + output.messages = Messages
                /\ received => output.messages = Messages
          /\ stage \in {"delete", "report"} => output.verdict = "PASS"
          /\ stage = "over" => stdout # NoReport /\ Findings = {}

\* The way of the harness: nothing is found and nothing is raised.
Clear ==
    ~blamed =>
        /\ pc # "except"
        /\ pc \in Judging => failures = {}
        /\ pc \in {"finally", "reap", "reap turn", "turn stopping", "publish",
                   "done"} => outcome = "PASS" /\ stage = "over"
        /\ result # "none" => result = "PASS"

LEMMA Blamed == Next => (blamed => blamed')
  <1> SUFFICES ASSUME Next, blamed PROVE blamed'
    OBVIOUS
  <1>1. CASE Main
    BY <1>1 DEF Main, Gather, CreateSession, Describe, Open, Send, Receive,
       Fails, DeleteSession, PrintReport, Torn
  <1>2. CASE Callbacks
    BY <1>2 DEF Callbacks, Opens, Arrive, Expire
  <1>3. CASE Coroutine
    BY <1>3 DEF Coroutine, SpawnTurn, TurnReady, StartEndpoint, SpawnPion,
     Communicate, TalkTimeout, Unreadable, JudgeReport, JudgeDeath, Missing,
     WatchTimeout, Measure, Remove, WatchFails, AskMetrics, ReadMetrics,
     MetricsFail, CloseEndpoint, Conclude, Except, Finally, ReapPion,
     ReapTurn, TurnReaped, KillTurn, Publish, Goto, Raise, Oracle
  <1>4. CASE Turn \/ Faults
    BY <1>4 DEF Turn, Announce, Listen, TakeSignal,
     Faults, BaresipDies, BaresipCloses, EchoFault, TurnDies
  <1>. QED
    BY <1>1, <1>2, <1>3, <1>4 DEF Next

LEMMA StraightStep == IInv /\ Straight /\ Clear /\ Next => Straight'
  <1> SUFFICES ASSUME IInv, Straight, Clear, Next PROVE Straight'
    OBVIOUS
  <1>1. /\ wire \in Nat /\ output \in Report /\ output.messages \in Nat
        /\ output.id \in BOOLEAN /\ blamed \in BOOLEAN /\ received \in BOOLEAN
        /\ sent \in Nat
    <2>1. wire \in 0..(Count + 1) /\ output \in Report
          /\ blamed \in BOOLEAN /\ received \in BOOLEAN /\ sent \in 0..Count
      BY DEF IInv, TypeOK
    <2>2. output.messages \in 0..(Count + 1) /\ output.id \in BOOLEAN
      BY <2>1 DEF Report
    <2> QED
      BY <2>1, <2>2, PionAssumption
  <1>2. Messages \in Nat \ {0} /\ Messages' = Messages /\ kind' = kind
    <2>1. kind' = kind
      BY PionFrame, CoroutineFrame, OutsideFrame DEF Next
    <2> QED
      BY <2>1, PionAssumption DEF Messages
  <1>3. Echoes /\ Ended
    BY DEF IInv
  <1>4. blamed => blamed'
    BY Blamed
  <1> HIDE DEF Messages
  <1>5. CASE Main
    <2>1. stage # "over" /\ stage # "idle"
      BY <1>5, PionRuns DEF Running
    <2>2. CASE Torn \/ Fails
      <3>1. blamed' /\ received' = received
            /\ stage' \notin {"idle", "gather", "create", "describe", "open", "send"}
        BY <2>2 DEF Torn, Fails, Unwind
      <3>. QED
        BY <3>1 DEF Straight
    <2>3. CASE Gather \/ Describe
      <3>1. /\ output' = output /\ received' = received /\ blamed' = blamed
            /\ \/ stage = "gather" /\ stage' = "create"
               \/ stage = "describe" /\ stage' = "open"
        BY <2>3 DEF Gather, Describe
      <3>. QED
        BY <3>1 DEF Straight
    <2>4. CASE CreateSession
      <3>1. CASE blamed' /\ stage' = "report"
        BY <3>1 DEF Straight
      <3>2. CASE stage' = "describe" /\ output' = [output EXCEPT !.id = TRUE]
        <4>1. output'.id /\ received' = received /\ stage = "create"
          BY <1>1, <2>4, <3>2 DEF CreateSession, Report
        <4>. QED
          BY <3>2, <4>1 DEF Straight
      <3>. QED
        BY <2>4, <3>1, <3>2 DEF CreateSession
    <2>5. CASE Open
      <3>1. PICK s \in {"connected", "lost"} :
               /\ output' = [output EXCEPT !.state = s]
               /\ blamed' = (blamed \/ s = "lost")
        BY <2>5 DEF Open
      <3>2. /\ output'.state = s /\ output'.id = output.id
            /\ stage = "open" /\ stage' = "send" /\ received' = received
            /\ output'.messages = output.messages /\ wire' = wire /\ sent' = sent
        BY <1>1, <2>5, <3>1 DEF Open, Report, baresip
      <3>3. ~blamed' => s = "connected" /\ ~blamed
        BY <3>1
      <3>4. /\ ~received
            /\ sent = 0 /\ wire = 0 /\ output.messages = 0
        BY <1>3, <3>2 DEF Echoes, Straight
      <3>. QED
        BY <3>2, <3>3, <3>4 DEF Straight
    <2>6. CASE Send
      <3>1. /\ stage = "send" /\ sent' = sent + 1 /\ wire' = wire + 1
            /\ stage' = IF sent + 1 = Messages THEN "receive" ELSE "send"
            /\ UNCHANGED <<output, received, blamed>>
        BY <2>6 DEF Send
      <3>2. ~blamed => /\ wire + output.messages = sent /\ ~received
                       /\ wire' + output'.messages = sent'
        BY <1>1, <3>1 DEF Straight
      <3>3. CASE sent + 1 = Messages
        BY <1>2, <3>1, <3>2, <3>3 DEF Straight
      <3>4. CASE sent + 1 # Messages
        BY <1>2, <3>1, <3>2, <3>4 DEF Straight
      <3>. QED
        BY <3>3, <3>4
    <2>7. CASE Receive
      <3>1. /\ stage = "receive" /\ received /\ received' = received
            /\ stage' \in {"delete", "report"} /\ blamed' = blamed
            /\ wire' = wire
            /\ output' = [output EXCEPT !.verdict = "PASS"]
        BY <2>7 DEF Receive, Unwind, baresip
      <3>2. /\ output'.verdict = "PASS" /\ output'.id = output.id
            /\ output'.state = output.state
            /\ output'.messages = output.messages
        BY <1>1, <3>1 DEF Report
      <3>. QED
        BY <1>1, <1>2, <3>1, <3>2 DEF Straight
    <2>8. CASE DeleteSession
      <3>1. /\ stage = "delete" /\ stage' = "report"
            /\ UNCHANGED <<output, received, blamed, wire>>
        BY <2>8 DEF DeleteSession
      <3>. QED
        BY <1>1, <1>2, <3>1 DEF Straight
    <2>9. CASE PrintReport
      <3>1. /\ stage = "report" /\ stage' = "over" /\ stdout' = output
            /\ received' = received /\ blamed' = blamed
            /\ exit' = IF output.verdict # "PASS" THEN "failure"
                       ELSE IF kind = "abrupt" THEN "killed" ELSE "success"
        BY <2>9 DEF PrintReport
      <3>2. ASSUME ~blamed PROVE stdout' # NoReport /\ Findings' = {}
        <4>1. /\ output.id /\ output.state = "connected"
              /\ output.verdict = "PASS" /\ received
              /\ output.messages = Messages
          BY <1>3, <3>1, <3>2 DEF Straight, Ended
        <4>2. stdout' # NoReport
          BY <3>1, <4>1 DEF NoReport
        <4>3. Findings' = {}
          BY <1>2, <3>1, <4>1 DEF Findings
        <4>. QED
          BY <4>2, <4>3
      <3>. QED
        BY <3>1, <3>2 DEF Straight
    <2>. QED
      BY <1>5, <2>2, <2>3, <2>4, <2>5, <2>6, <2>7, <2>8, <2>9 DEF Main
  <1>6. CASE Callbacks
    <2>1. CASE Arrive
      <3>1. /\ wire > 0 /\ wire' = wire - 1 /\ stage' = stage
            /\ stage \notin {"idle", "over"} /\ blamed' = blamed
            /\ received' = (received \/ output.messages + 1 = Messages)
            /\ output' = [output EXCEPT !.messages = @ + 1]
            /\ sent' = sent
        BY <2>1 DEF Arrive, Running
      <3>2. /\ output'.verdict = output.verdict /\ output'.id = output.id
            /\ output'.state = output.state
            /\ output'.messages = output.messages + 1
        BY <1>1, <3>1 DEF Report
      <3>3. stage \notin {"gather", "create", "describe", "open"}
        BY <1>1, <1>3, <3>1 DEF Echoes
      <3>5. ASSUME ~blamed, stage = "send"
            PROVE  wire' + output'.messages = sent' /\ ~received'
        <4>1. wire + output.messages = sent /\ ~received /\ sent < Messages
          BY <1>3, <3>5 DEF Straight, Echoes
        <4>. QED
          BY <1>1, <1>2, <3>1, <3>2, <4>1
      <3>4. ASSUME ~blamed, stage \in {"receive", "delete", "report"}
            PROVE  /\ wire' + output'.messages = Messages
                   /\ received' => output'.messages = Messages
        <4>1. wire + output.messages = Messages /\ ~received
          BY <1>1, <1>2, <3>1, <3>4 DEF Straight
        <4>. QED
          BY <1>1, <1>2, <3>1, <3>2, <4>1
      <3>. QED
        BY <1>2, <3>1, <3>2, <3>3, <3>4, <3>5 DEF Straight
    <2>2. CASE Opens \/ Expire
      <3>1. /\ UNCHANGED <<stage, output, sent, received, blamed, wire>>
            /\ stage # "over"
        BY <2>2 DEF Opens, Expire, Running, baresip
      <3>. QED
        BY <1>2, <3>1 DEF Straight
    <2>. QED
      BY <1>6, <2>1, <2>2 DEF Callbacks
  <1>7. CASE Coroutine
    <2>1. UNCHANGED <<output, sent, received, wire, stdout>>
      BY <1>7, CoroutineFrame
    <2>2. CASE stage' = stage /\ exit' = exit
      <3>1. Findings' = Findings
        BY <1>2, <2>1, <2>2 DEF Findings
      <3>. QED
        BY <1>2, <1>4, <2>1, <2>2, <3>1 DEF Straight
    <2>3. CASE stage = "idle" /\ stage' = "gather"
      BY <1>4, <2>1, <2>3 DEF Straight
    <2>4. CASE Running /\ stage' = "over"
      <3>1. ReapPion
        <4>1. ~SpawnPion
          BY <2>4 DEF SpawnPion, Running
        <4>. QED
          BY <1>7, <2>4, <4>1 DEF Running, Coroutine, SpawnTurn, TurnReady,
             StartEndpoint, Communicate, TalkTimeout, Unreadable, JudgeReport,
             JudgeDeath, Missing, WatchTimeout, Measure, Remove, WatchFails,
             AskMetrics, ReadMetrics, MetricsFail, CloseEndpoint, Conclude,
             Except, Finally, ReapTurn, TurnReaped, KillTurn, Publish, pion
      <3>2. pc = "reap" /\ blamed' = blamed
        BY <3>1 DEF ReapPion, Goto
      <3>3. blamed
        BY <1>1, <2>4, <3>2 DEF Clear, Running
      <3>. QED
        BY <2>4, <3>2, <3>3 DEF Straight
    <2>. QED
      BY <1>7, <2>2, <2>3, <2>4, CoroutineStages
  <1>8. CASE Turn \/ Faults
    <2>1. UNCHANGED <<stage, output, sent, received, stdout, exit>>
      BY <1>8, OutsideFrame DEF pion
    <2>2. Findings' = Findings
      BY <1>2, <2>1 DEF Findings
    <2>3. CASE EchoFault
      <3>1. blamed'
        BY <2>3 DEF EchoFault
      <3>. QED
        BY <2>1, <3>1 DEF Straight
    <2>4. CASE ~EchoFault
      <3>1. wire' = wire
        BY <1>8, <2>4 DEF Faults, BaresipDies, BaresipCloses, TurnDies, Turn,
           Announce, Listen, TakeSignal, baresip
      <3>. QED
        BY <1>2, <1>4, <2>1, <2>2, <3>1 DEF Straight
    <2>. QED
      BY <2>3, <2>4
  <1>. QED
    BY <1>5, <1>6, <1>7, <1>8 DEF Next

LEMMA ClearStep == IInv /\ Straight /\ Clear /\ Next => Clear'
  <1> SUFFICES ASSUME IInv, Straight, Clear, Next, ~blamed' PROVE Clear'
    BY DEF Clear
  <1>1. ~blamed
    BY Blamed
  <1>2. stage = "over" => stage' = "over"
    BY FindingsStep
  <1>3. result # "none" => pc = "done"
    BY DEF IInv, Cleanup
  <1>4. CASE Main \/ Callbacks \/ Turn \/ Faults
    <2>1. UNCHANGED harness
      BY <1>4, PionFrame, OutsideFrame
    <2>. QED
      BY <1>1, <1>2, <2>1 DEF Clear, harness, judgement, files
  <1>5. CASE Coroutine
    <2> USE <1>1, <1>2, <1>3
    <2> USE DEF Clear, Judging, Goto, Raise, judgement, files, harness
    <2>1. CASE SpawnTurn \/ TurnReady \/ StartEndpoint \/ SpawnPion \/ TalkTimeout
      BY <2>1 DEF SpawnTurn, TurnReady, StartEndpoint, SpawnPion, TalkTimeout
    <2>2. CASE Communicate \/ Unreadable
      BY <2>2 DEF Communicate, Unreadable
    <2>3. CASE JudgeReport
      <3>1. stage = "over"
        BY <2>3 DEF JudgeReport, IInv, Judged
      <3>2. Findings = {}
        BY <3>1 DEF Straight
      <3>3. failures' = {}
        BY <2>3, <3>2 DEF JudgeReport
      <3>4. pc' \in {"metrics", "close"} /\ result' = result
        BY <2>3 DEF JudgeReport
      <3>. QED
        BY <2>3, <3>3, <3>4 DEF JudgeReport
    <2>4. CASE JudgeDeath
      <3>1. stage = "over"
        BY <2>4 DEF JudgeDeath, IInv, Judged
      <3>2. Findings = {}
        BY <3>1 DEF Straight
      <3>3. failures' = {} /\ pc' \in {"watch", "measure"} /\ result' = result
        BY <2>4, <3>2 DEF JudgeDeath
      <3>. QED
        BY <2>4, <3>3 DEF JudgeDeath
    <2>5. CASE Missing \/ WatchTimeout
      BY <2>5 DEF Missing, WatchTimeout
    <2>6. CASE Measure
      BY <2>6 DEF Measure, Oracle
    <2>7. CASE Remove
      <3>1. ~(autonomous /\ session = "held")
        BY DEF IInv, Sessions
      <3>. QED
        BY <2>7, <3>1 DEF Remove
    <2>8. CASE WatchFails \/ AskMetrics \/ MetricsFail
      BY <2>8 DEF WatchFails, AskMetrics, MetricsFail
    <2>9. CASE ReadMetrics
      BY <2>9 DEF ReadMetrics, Oracle
    <2>10. CASE CloseEndpoint
      BY <2>10 DEF CloseEndpoint
    <2>11. CASE Conclude
      <3>1. stage = "over"
        BY <2>11 DEF Conclude, IInv, Judged
      <3>. QED
        BY <2>11, <3>1 DEF Conclude, Oracle
    <2>12. CASE Except \/ Finally
      BY <2>12 DEF Except, Finally
    <2>13. CASE ReapPion \/ ReapTurn \/ TurnReaped \/ KillTurn
      BY <2>13 DEF ReapPion, ReapTurn, TurnReaped, KillTurn
    <2>14. CASE Publish
      BY <2>14 DEF Publish
    <2>. QED
      BY <1>5, <2>1, <2>2, <2>3, <2>4, <2>5, <2>6, <2>7, <2>8, <2>9, <2>10,
         <2>11, <2>12, <2>13, <2>14 DEF Coroutine
  <1>. QED
    BY <1>4, <1>5 DEF Next

\* The races of the goroutines, the callbacks, the TURN server and the harness
\* never fail a scenario, for any number of messages: without a fault of
\* baresip, the network or the machine and without a deadline that passed, the
\* result is a PASS (run_pion_scenario, run_abrupt_peer_death).
THEOREM RacesAreHarmless == Spec => []NoFalseAlarm
  <1>1. Init => Straight /\ Clear
    BY DEF Init, Straight, Clear, Judging
  <1>2. IInv /\ Straight /\ Clear /\ [Next]_vars => Straight' /\ Clear'
    <2>1. CASE Next
      BY <2>1, StraightStep, ClearStep
    <2>2. CASE UNCHANGED vars
      BY <2>2 DEF vars, harness, judgement, files, pion, baresip, server,
         Straight, Clear, Judging, Findings, Messages
    <2>. QED
      BY <2>1, <2>2
  <1>3. Clear => NoFalseAlarm
    BY DEF Clear, NoFalseAlarm
  <1>. QED
    BY <1>1, <1>2, <1>3, Correct, PTL DEF Spec

LEMMA ContractInit == Init => Contract!Init
  BY DEF Init, Contract!Init, Identity, Running

\* Nothing but Publish puts a result.json into the directory.
LEMMA CollectStep ==
    ASSUME Coroutine, ~Publish
    PROVE  /\ evidence \subseteq evidence'
           /\ evidence' \subseteq evidence \cup (Files \ {"result.json"})
           /\ result' = result
  BY DEF Coroutine, SpawnTurn, TurnReady, StartEndpoint, SpawnPion,
     Communicate, TalkTimeout, Unreadable, JudgeReport, JudgeDeath, Missing,
     WatchTimeout, Measure, Remove, WatchFails, AskMetrics, ReadMetrics,
     MetricsFail, CloseEndpoint, Conclude, Except, Finally, ReapPion,
     ReapTurn, TurnReaped, KillTurn, Files, Identity, files, harness

\* Each step either publishes, once and with nothing left alive, or collects
\* before that, or changes nothing the contract is about.
LEMMA ContractStep == IInv /\ [Next]_vars => [Contract!Next]_(Contract!vars)
  <1> SUFFICES ASSUME IInv, [Next]_vars PROVE [Contract!Next]_(Contract!vars)
    OBVIOUS
  <1> DEFINE Alive == \/ Running \/ endpoint \in {"running", "dead"}
                      \/ turn \notin {"none", "over"}
  <1>1. Cleanup /\ Cleanup' /\ HarnessTypes
    BY Invariance DEF IInv, TypeOK, HarnessTypes
  <1>2. CASE UNCHANGED vars
    <2>1. evidence' = evidence /\ Alive' = Alive /\ result' = result
      BY <1>2 DEF vars, harness, files, pion, baresip, server, Running
    <2> QED
      BY <2>1 DEF Contract!vars
  <1>3. CASE Publish
    <2>1. /\ pc = "publish" /\ result' = outcome
          /\ evidence' = evidence \cup {"result.json"}
          /\ Alive' = Alive
      BY <1>3 DEF Publish, Running, pion, baresip, server
    <2>2. result = "none" /\ ~Alive
      BY <1>1, <2>1 DEF Cleanup
    <2>3. outcome \in {"PASS", "FAIL", "INFRA_ERROR"}
      BY <1>1 DEF HarnessTypes
    <2>4. Contract!Publish
      BY <2>1, <2>2, <2>3 DEF Contract!Publish
    <2> QED
      BY <2>4 DEF Contract!Next
  <1>4. CASE Next /\ ~Publish /\ result = "none"
    <2>1. /\ evidence \subseteq evidence'
          /\ evidence' \subseteq evidence \cup (Files \ {"result.json"})
          /\ result' = result
      BY <1>4, CollectStep, PionFrame, OutsideFrame DEF Next, harness, files
    <2>2. evidence' \subseteq Files \ {"result.json"}
      BY <1>1, <1>4, <2>1 DEF Cleanup
    <2>3. Alive' \in BOOLEAN
      BY DEF Running
    <2>4. Contract!Collect
      BY <1>4, <2>1, <2>2, <2>3 DEF Contract!Collect, Files
    <2> QED
      BY <2>4 DEF Contract!Next
  <1>5. CASE Next /\ ~Publish /\ result # "none"
    <2>1. pc = "done"
      BY <1>1, <1>5 DEF Cleanup
    <2>2. ~Coroutine
      BY <2>1 DEF Coroutine, SpawnTurn, TurnReady, StartEndpoint, SpawnPion,
         Communicate, TalkTimeout, Unreadable, JudgeReport, JudgeDeath, Missing,
         WatchTimeout, Measure, Remove, WatchFails, AskMetrics, ReadMetrics,
         MetricsFail, CloseEndpoint, Conclude, Except, Finally, ReapPion,
         ReapTurn, TurnReaped, KillTurn, Publish
    <2>3. UNCHANGED harness
      BY <1>5, <2>2, PionFrame, OutsideFrame DEF Next
    <2>4. ~Alive /\ ~Alive'
      BY <1>1, <2>1, <2>3 DEF Cleanup, harness
    <2> QED
      BY <2>3, <2>4 DEF Contract!vars, harness, files
  <1> QED
    BY <1>2, <1>3, <1>4, <1>5

\* The Pion scenarios implement the contract of the evidence directory, for
\* any number of messages: what is collected stays, and one verdict is
\* published when the endpoints and the TURN server are gone.
THEOREM Refinement == Spec => ImplementsContract
  BY ContractInit, ContractStep, Correct, PTL
     DEF Spec, ImplementsContract, Contract!Spec

=============================================================================
