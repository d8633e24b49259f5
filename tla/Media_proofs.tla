----------------------------- MODULE Media_proofs -----------------------------
(***************************************************************************)
(* What one product scenario promises, whether or not another process may  *)
(* hold the port and the cleanup may fail: a PASS is about the process the *)
(* scenario started, it is a clean one, and the evidence directory is what *)
(* its contract says.  First for the scenarios of module Scenario, then    *)
(* for the media regression, too.                                          *)
(***************************************************************************)
EXTENDS Media, TLAPS

\* Where no exception is under way: nothing has gone wrong and nothing has
\* been decided.
Before == {"spawn", "check", "connect", "create"}
Agreed == {"open", "extra", "exchange", "judge", "delete", "log", "write"}
Closing == {"close", "stopping", "killing", "drain"}
Ending == {"finally", "publish", "done", "raised"}

\* At most one process has the session, the one that created it, and only
\* with a session of its own does the process log anything.
Session ==
    /\ sessions \subseteq {served} \ {"none"}
    /\ pc \in Before => served = "none"
    /\ log # {} => served = "own"
    /\ "own" \in sessions => own = "running"

\* How far the harness is with the process it started.
Process ==
    /\ pc = "stopping" \/ pc = "killing" => own # "none"
    /\ pc = "drain" => own \in {"none", "reaped"}
    /\ pc \in {"publish", "done"} => own = "none" /\ logTask = "none"
    /\ pc \in {"stopping", "killing", "drain", "publish", "done"} => ~session

\* Until something goes wrong there is no exception and no verdict, and what
\* a PASS needs has been seen where it was decided.
Judged ==
    /\ found = failures
    /\ pc \in Before \cup {"describe", "accept"} \cup Agreed => error = "none"
    /\ pc \in Agreed => negotiated
    /\ pc \in Closing /\ after = "log" => error = "none" /\ negotiated
    /\ pc = "write" => {"ice", "dtls"} \ log \subseteq failures
    /\ outcome.verdict = "PASS" =>
          /\ failures = {} /\ negotiated
          /\ {"ice", "dtls"} \subseteq log
          /\ pc \in Closing \cup Ending
          /\ pc \in Closing => after = "publish"
          /\ pc # "raised" => error = "none"

\* Nothing is published before everything is closed.
Files ==
    /\ evidence \subseteq Identity \cup {"offer.sdp", "answer.sdp",
          "peer-stats.json", "sent-manifest.json", "received-manifest.json",
          "events.ndjson", "baresip.log", "result.json"}
    /\ pc = "done" => result = outcome
    /\ pc # "done" => result = None /\ "result.json" \notin evidence
    /\ pc \in Closing /\ after = "publish" => ~peerOpen
    /\ pc \in {"publish", "done"} => ~peerOpen

IInv == TypeOK /\ Session /\ Process /\ Judged /\ Files

-----------------------------------------------------------------------------
\* The invariant holds initially.
LEMMA Initially == Init => IInv
  <1> SUFFICES ASSUME Init PROVE IInv
    OBVIOUS
  <1>1. TypeOK
    <2>1. foreign \in BOOLEAN
      BY ScenarioAssumption DEF Init, ScenarioAssumption
    <2>. QED
      BY <2>1 DEF Init, TypeOK, Errors, Reports, None
  <1>2. Session /\ Process /\ Judged /\ Files
    BY DEF Init, Session, Process, Judged, Files, None, Identity, Before,
           Agreed, Closing, Ending
  <1>. QED
    BY <1>1, <1>2 DEF IInv

\* What the fields of the configuration are, and who may serve.
LEMMA Fields ==
  TypeOK => /\ config.offerer \in BOOLEAN /\ config.extra \in BOOLEAN
            /\ config.media \subseteq {"audio", "video"}
  BY DEF TypeOK, Configs

\* What the records are called, the first of them in particular.
LEMMA RecordNames ==
  /\ FirstRecords(6) = {"offer.sdp", "answer.sdp", "peer-stats.json",
        "sent-manifest.json", "received-manifest.json", "events.ndjson"}
  /\ \A n \in 0..5 : FirstRecords(n) \subseteq FirstRecords(6)
  /\ \A n \in 0..3 :
        FirstRecords(n) \subseteq {"offer.sdp", "answer.sdp", "peer-stats.json"}
  <1>1. /\ Records[1] = "offer.sdp" /\ Records[2] = "answer.sdp"
        /\ Records[3] = "peer-stats.json" /\ Records[4] = "sent-manifest.json"
        /\ Records[5] = "received-manifest.json" /\ Records[6] = "events.ndjson"
    BY DEF Records
  <1>2. /\ 1..6 = {1, 2, 3, 4, 5, 6}
        /\ \A n \in 0..3 : 1..n \subseteq {1, 2, 3}
        /\ \A n \in 0..5 : 1..n \subseteq 1..6
    OBVIOUS
  <1>3. FirstRecords(6) = {Records[1], Records[2], Records[3], Records[4],
                           Records[5], Records[6]}
    BY <1>2 DEF FirstRecords
  <1>4. \A n \in 0..3 : FirstRecords(n) \subseteq {Records[1], Records[2], Records[3]}
    BY <1>2 DEF FirstRecords
  <1>5. \A n \in 0..5 : FirstRecords(n) \subseteq FirstRecords(6)
    BY <1>2 DEF FirstRecords
  <1>. QED
    BY <1>1, <1>3, <1>4, <1>5

LEMMA Servers == TypeOK => Server \in {"none", "own", "foreign"}
  BY DEF TypeOK, Server

\* Every step keeps the types.
LEMMA TypeStep == TypeOK /\ [Next]_vars => TypeOK'
  <1> SUFFICES ASSUME TypeOK, [Next]_vars PROVE TypeOK'
    OBVIOUS
  <1> USE DEF TypeOK,
             Errors, vars, process, signaling, control, judgement, files
  <1>1. CASE Spawn
    BY <1>1 DEF Spawn, Goto, Raise
  <1>2. CASE StartFails
    BY <1>2 DEF StartFails, Close, Exited
  <1>3. CASE CheckReady
    BY <1>3 DEF CheckReady, Goto, Exited
  <1>4. CASE Connect
    <2>1. pc' \in {"check", "create"} /\ peerOpen' \in BOOLEAN
      BY <1>4 DEF Connect, Goto
    <2>2. UNCHANGED <<config, foreign, own, bound, killed, logTask, log,
               sessions, served, session, after, error, negotiated, failures,
               outcome, evidence, result, found>>
      BY <1>4 DEF Connect, Goto
    <2>. QED
      BY <2>1, <2>2
  <1>5. CASE CreateSession
    <2>1. sessions' \subseteq {"own", "foreign"} /\ served' \in {"own", "foreign"}
      BY <1>5, Servers DEF CreateSession
    <2>2. session' \in BOOLEAN
      BY <1>5, Fields DEF CreateSession
    <2>3. pc' \in {"describe", "except"} /\ after' = after
          /\ error' \in {"none"} \cup Errors
      BY <1>5 DEF CreateSession, Goto, Raise
    <2>. QED
      BY <1>5, <2>1, <2>2, <2>3 DEF CreateSession
  <1>6. CASE CreateFails
    BY <1>6 DEF CreateFails, Raise
  <1>7. CASE Describe
    <2>1. session' \in BOOLEAN /\ negotiated' \in BOOLEAN
      BY <1>7 DEF Describe
    <2>2. pc' \in {"open", "accept"} /\ UNCHANGED <<after, error>>
      BY <1>7 DEF Describe, Goto
    <2>. QED
      BY <1>7, <2>1, <2>2 DEF Describe
  <1>8. CASE Accept
    BY <1>8 DEF Accept, Goto
  <1>9. CASE NegotiationFails
    BY <1>9 DEF NegotiationFails, Raise
  <1>10. CASE Open
    BY <1>10 DEF Open, Goto, Server, Exited
  <1>11. CASE Exchange
    BY <1>11 DEF Exchange, Goto, Found
  <1>12. CASE JudgePeers
    BY <1>12 DEF JudgePeers, Goto, Found
  <1>13. CASE TalkFails
    BY <1>13 DEF TalkFails, Raise
  <1>14. CASE DeleteSession
    <2>1. sessions' \subseteq {"own", "foreign"} /\ session' \in BOOLEAN
      BY <1>14 DEF DeleteSession
    <2>2. pc' \in {"close", "except"} /\ after' \in {after, "log"}
          /\ error' \in {"none"} \cup Errors
      BY <1>14 DEF DeleteSession, Close, Raise
    <2>3. UNCHANGED <<config, foreign, own, bound, killed, logTask, log, served,
               peerOpen, negotiated, failures, outcome, evidence, result,
               found>>
      BY <1>14 DEF DeleteSession
    <2>. QED
      BY <2>1, <2>2, <2>3
  <1>15. CASE ReadLog
    BY <1>15 DEF ReadLog, Goto, Found
  <1>16. CASE WriteEvidence
    <2>1. outcome' \in Reports
      BY <1>16 DEF WriteEvidence, Reports
    <2>. QED
      BY <1>16, <2>1 DEF WriteEvidence, Goto
  <1>17. CASE Except
    BY <1>17 DEF Except, Goto, ExceptionVerdict, Reports
  <1>18. CASE ClosePeer
    <2>1. pc' \in {"close", "raised"} /\ after' \in {after, "publish"}
          /\ UNCHANGED error /\ peerOpen' \in BOOLEAN
      BY <1>18 DEF ClosePeer, Close, Goto
    <2>. QED
      BY <1>18, <2>1 DEF ClosePeer
  <1>19. CASE CloseEndpoint
    <2>1. sessions' \subseteq {"own", "foreign"} /\ session' \in BOOLEAN
      BY <1>19 DEF CloseEndpoint
    <2>2. pc' \in {"stopping", "drain"} /\ UNCHANGED <<after, error>>
      BY <1>19 DEF CloseEndpoint, Goto
    <2>3. UNCHANGED <<config, foreign, own, bound, killed, logTask, log, served,
               peerOpen, negotiated, failures, outcome, evidence, result,
               found>>
      BY <1>19 DEF CloseEndpoint
    <2>. QED
      BY <2>1, <2>2, <2>3
  <1>20. CASE Kill
    BY <1>20 DEF Kill, Goto, Exited
  <1>21. CASE Stopped
    BY <1>21 DEF Stopped, Goto, Exited
  <1>22. CASE Drained
    BY <1>22 DEF Drained
  <1>23. CASE DrainFails
    BY <1>23 DEF DrainFails
  <1>24. CASE Publish
    BY <1>24 DEF Publish, Goto
  <1>25. CASE Bind
    BY <1>25 DEF Bind
  <1>26. CASE Exit
    <2>1. sessions' \subseteq {"own", "foreign"} /\ own' = "dead" /\ bound' \in BOOLEAN
      BY <1>26 DEF Exit
    <2>2. UNCHANGED <<config, foreign, killed, logTask, log, served, peerOpen,
               pc, after, error, negotiated, session, failures, outcome,
               evidence, result, found>>
      BY <1>26 DEF Exit
    <2>. QED
      BY <2>1, <2>2
  <1>27. CASE Reap
    BY <1>27 DEF Reap
  <1>28. CASE ForgetSession
    BY <1>28 DEF ForgetSession
  <1>29. CASE \E line \in {"ice", "dtls"} \cup config.media : Log(line)
    BY <1>29, Fields DEF Log
  <1>30. CASE LogEnds
    BY <1>30 DEF LogEnds
  <1>31. CASE LogFails
    BY <1>31 DEF LogFails
  <1>33. CASE RecordsFail
    BY <1>33, RecordNames DEF RecordsFail, Raise
  <1>32. CASE UNCHANGED vars
    BY <1>32 DEF vars
  <1>. QED
    BY <1>1, <1>2, <1>3, <1>4, <1>5, <1>6, <1>7, <1>8, <1>9, <1>10, <1>11,
       <1>12, <1>13, <1>14, <1>15, <1>16, <1>17, <1>18, <1>19, <1>20,
       <1>21, <1>22, <1>23, <1>24, <1>25, <1>26, <1>27, <1>28, <1>29,
       <1>30, <1>31, <1>32, <1>33
    DEF Next, Coroutine

\* A session belongs to the process that created it.
LEMMA SessionStep == IInv /\ [Next]_vars => Session'
  <1> SUFFICES ASSUME IInv, [Next]_vars PROVE Session'
    OBVIOUS
  <1> USE DEF IInv, TypeOK, Session, Process, Judged, Files,
             Errors, Reports, None, Identity, vars, process, signaling, control, judgement,
             files, Before, Agreed, Closing, Ending
  <1>1. CASE Spawn
    BY <1>1 DEF Spawn, Goto, Raise
  <1>2. CASE StartFails
    BY <1>2 DEF StartFails, Close, Exited
  <1>3. CASE CheckReady
    BY <1>3 DEF CheckReady, Goto, Exited
  <1>4. CASE Connect
    BY <1>4 DEF Connect, Goto, Server
  <1>5. CASE CreateSession
    BY <1>5 DEF CreateSession, Goto, Raise, Exited, Server
  <1>6. CASE CreateFails
    BY <1>6 DEF CreateFails, Raise
  <1>7. CASE Describe
    BY <1>7 DEF Describe, Goto, Exited, Server
  <1>8. CASE Accept
    BY <1>8 DEF Accept, Goto
  <1>9. CASE NegotiationFails
    BY <1>9 DEF NegotiationFails, Raise
  <1>10. CASE Open
    BY <1>10 DEF Open, Goto, Server, Exited
  <1>11. CASE Exchange
    BY <1>11 DEF Exchange, Goto, Found
  <1>12. CASE JudgePeers
    BY <1>12 DEF JudgePeers, Goto, Found
  <1>13. CASE TalkFails
    BY <1>13 DEF TalkFails, Raise
  <1>14. CASE DeleteSession
    BY <1>14 DEF DeleteSession, Server, Close, Raise
  <1>15. CASE ReadLog
    BY <1>15 DEF ReadLog, Goto, Found
  <1>16. CASE WriteEvidence
    BY <1>16, RecordNames DEF WriteEvidence, Goto
  <1>17. CASE Except
    BY <1>17 DEF Except, Goto, ExceptionVerdict
  <1>18. CASE ClosePeer
    BY <1>18 DEF ClosePeer, Close, Goto
  <1>19. CASE CloseEndpoint
    BY <1>19 DEF CloseEndpoint, Goto, Server
  <1>20. CASE Kill
    BY <1>20 DEF Kill, Goto, Exited
  <1>21. CASE Stopped
    BY <1>21 DEF Stopped, Goto, Exited
  <1>22. CASE Drained
    BY <1>22 DEF Drained
  <1>23. CASE DrainFails
    BY <1>23 DEF DrainFails
  <1>24. CASE Publish
    BY <1>24 DEF Publish, Goto
  <1>25. CASE Bind
    BY <1>25 DEF Bind
  <1>26. CASE Exit
    BY <1>26 DEF Exit
  <1>27. CASE Reap
    BY <1>27 DEF Reap
  <1>28. CASE ForgetSession
    BY <1>28 DEF ForgetSession
  <1>29. CASE \E line \in {"ice", "dtls"} \cup config.media : Log(line)
    BY <1>29, Fields DEF Log
  <1>30. CASE LogEnds
    BY <1>30 DEF LogEnds
  <1>31. CASE LogFails
    BY <1>31 DEF LogFails
  <1>33. CASE RecordsFail
    BY <1>33, RecordNames DEF RecordsFail, Raise
  <1>32. CASE UNCHANGED vars
    BY <1>32 DEF vars
  <1>. QED
    BY <1>1, <1>2, <1>3, <1>4, <1>5, <1>6, <1>7, <1>8, <1>9, <1>10, <1>11,
       <1>12, <1>13, <1>14, <1>15, <1>16, <1>17, <1>18, <1>19, <1>20,
       <1>21, <1>22, <1>23, <1>24, <1>25, <1>26, <1>27, <1>28, <1>29,
       <1>30, <1>31, <1>32, <1>33
    DEF Next, Coroutine

\* The process is stopped before the scenario goes on.
LEMMA ProcessStep == IInv /\ [Next]_vars => Process'
  <1> SUFFICES ASSUME IInv, [Next]_vars PROVE Process'
    OBVIOUS
  <1> USE DEF IInv, TypeOK, Session, Process, Judged, Files,
             Errors, Reports, None, Identity, vars, process, signaling, control, judgement,
             files, Before, Agreed, Closing, Ending
  <1>1. CASE Spawn
    BY <1>1 DEF Spawn, Goto, Raise
  <1>2. CASE StartFails
    BY <1>2 DEF StartFails, Close, Exited
  <1>3. CASE CheckReady
    BY <1>3 DEF CheckReady, Goto, Exited
  <1>4. CASE Connect
    BY <1>4 DEF Connect, Goto, Server
  <1>5. CASE CreateSession
    BY <1>5 DEF CreateSession, Goto, Raise, Exited, Server
  <1>6. CASE CreateFails
    BY <1>6 DEF CreateFails, Raise
  <1>7. CASE Describe
    BY <1>7 DEF Describe, Goto, Exited, Server
  <1>8. CASE Accept
    BY <1>8 DEF Accept, Goto
  <1>9. CASE NegotiationFails
    BY <1>9 DEF NegotiationFails, Raise
  <1>10. CASE Open
    BY <1>10 DEF Open, Goto, Server, Exited
  <1>11. CASE Exchange
    BY <1>11 DEF Exchange, Goto, Found
  <1>12. CASE JudgePeers
    BY <1>12 DEF JudgePeers, Goto, Found
  <1>13. CASE TalkFails
    BY <1>13 DEF TalkFails, Raise
  <1>14. CASE DeleteSession
    BY <1>14 DEF DeleteSession, Server, Close, Raise
  <1>15. CASE ReadLog
    BY <1>15 DEF ReadLog, Goto, Found
  <1>16. CASE WriteEvidence
    BY <1>16, RecordNames DEF WriteEvidence, Goto
  <1>17. CASE Except
    BY <1>17 DEF Except, Goto, ExceptionVerdict
  <1>18. CASE ClosePeer
    BY <1>18 DEF ClosePeer, Close, Goto
  <1>19. CASE CloseEndpoint
    BY <1>19 DEF CloseEndpoint, Goto, Server
  <1>20. CASE Kill
    BY <1>20 DEF Kill, Goto, Exited
  <1>21. CASE Stopped
    BY <1>21 DEF Stopped, Goto, Exited
  <1>22. CASE Drained
    BY <1>22 DEF Drained
  <1>23. CASE DrainFails
    BY <1>23 DEF DrainFails
  <1>24. CASE Publish
    BY <1>24 DEF Publish, Goto
  <1>25. CASE Bind
    BY <1>25 DEF Bind
  <1>26. CASE Exit
    BY <1>26 DEF Exit
  <1>27. CASE Reap
    BY <1>27 DEF Reap
  <1>28. CASE ForgetSession
    BY <1>28 DEF ForgetSession
  <1>29. CASE \E line \in {"ice", "dtls"} \cup config.media : Log(line)
    BY <1>29, Fields DEF Log
  <1>30. CASE LogEnds
    BY <1>30 DEF LogEnds
  <1>31. CASE LogFails
    BY <1>31 DEF LogFails
  <1>33. CASE RecordsFail
    BY <1>33, RecordNames DEF RecordsFail, Raise
  <1>32. CASE UNCHANGED vars
    BY <1>32 DEF vars
  <1>. QED
    BY <1>1, <1>2, <1>3, <1>4, <1>5, <1>6, <1>7, <1>8, <1>9, <1>10, <1>11,
       <1>12, <1>13, <1>14, <1>15, <1>16, <1>17, <1>18, <1>19, <1>20,
       <1>21, <1>22, <1>23, <1>24, <1>25, <1>26, <1>27, <1>28, <1>29,
       <1>30, <1>31, <1>32, <1>33
    DEF Next, Coroutine

\* A verdict is decided once, on what was found.
LEMMA JudgedStep == IInv /\ [Next]_vars => Judged'
  <1> SUFFICES ASSUME IInv, [Next]_vars PROVE Judged'
    OBVIOUS
  <1> USE DEF IInv, TypeOK, Session, Process, Judged, Files,
             Errors, Reports, None, Identity, vars, process, signaling, control, judgement,
             files, Before, Agreed, Closing, Ending
  <1>1. CASE Spawn
    BY <1>1 DEF Spawn, Goto, Raise
  <1>2. CASE StartFails
    BY <1>2 DEF StartFails, Close, Exited
  <1>3. CASE CheckReady
    BY <1>3 DEF CheckReady, Goto, Exited
  <1>4. CASE Connect
    BY <1>4 DEF Connect, Goto, Server
  <1>5. CASE CreateSession
    BY <1>5 DEF CreateSession, Goto, Raise, Exited, Server
  <1>6. CASE CreateFails
    BY <1>6 DEF CreateFails, Raise
  <1>7. CASE Describe
    BY <1>7 DEF Describe, Goto, Exited, Server
  <1>8. CASE Accept
    BY <1>8 DEF Accept, Goto
  <1>9. CASE NegotiationFails
    BY <1>9 DEF NegotiationFails, Raise
  <1>10. CASE Open
    BY <1>10 DEF Open, Goto, Server, Exited
  <1>11. CASE Exchange
    BY <1>11 DEF Exchange, Goto, Found
  <1>12. CASE JudgePeers
    BY <1>12 DEF JudgePeers, Goto, Found
  <1>13. CASE TalkFails
    BY <1>13 DEF TalkFails, Raise
  <1>14. CASE DeleteSession
    BY <1>14 DEF DeleteSession, Server, Close, Raise
  <1>15. CASE ReadLog
    BY <1>15 DEF ReadLog, Goto, Found
  <1>16. CASE WriteEvidence
    BY <1>16, RecordNames DEF WriteEvidence, Goto
  <1>17. CASE Except
    BY <1>17 DEF Except, Goto, ExceptionVerdict
  <1>18. CASE ClosePeer
    BY <1>18 DEF ClosePeer, Close, Goto
  <1>19. CASE CloseEndpoint
    BY <1>19 DEF CloseEndpoint, Goto, Server
  <1>20. CASE Kill
    BY <1>20 DEF Kill, Goto, Exited
  <1>21. CASE Stopped
    BY <1>21 DEF Stopped, Goto, Exited
  <1>22. CASE Drained
    BY <1>22 DEF Drained
  <1>23. CASE DrainFails
    BY <1>23 DEF DrainFails
  <1>24. CASE Publish
    BY <1>24 DEF Publish, Goto
  <1>25. CASE Bind
    BY <1>25 DEF Bind
  <1>26. CASE Exit
    BY <1>26 DEF Exit
  <1>27. CASE Reap
    BY <1>27 DEF Reap
  <1>28. CASE ForgetSession
    BY <1>28 DEF ForgetSession
  <1>29. CASE \E line \in {"ice", "dtls"} \cup config.media : Log(line)
    BY <1>29, Fields DEF Log
  <1>30. CASE LogEnds
    BY <1>30 DEF LogEnds
  <1>31. CASE LogFails
    BY <1>31 DEF LogFails
  <1>33. CASE RecordsFail
    BY <1>33, RecordNames DEF RecordsFail, Raise
  <1>32. CASE UNCHANGED vars
    BY <1>32 DEF vars
  <1>. QED
    BY <1>1, <1>2, <1>3, <1>4, <1>5, <1>6, <1>7, <1>8, <1>9, <1>10, <1>11,
       <1>12, <1>13, <1>14, <1>15, <1>16, <1>17, <1>18, <1>19, <1>20,
       <1>21, <1>22, <1>23, <1>24, <1>25, <1>26, <1>27, <1>28, <1>29,
       <1>30, <1>31, <1>32, <1>33
    DEF Next, Coroutine

\* The result is written last.
LEMMA FilesStep == IInv /\ [Next]_vars => Files'
  <1> SUFFICES ASSUME IInv, [Next]_vars PROVE Files'
    OBVIOUS
  <1> USE DEF IInv, TypeOK, Session, Process, Judged, Files,
             Errors, Reports, None, Identity, vars, process, signaling, control, judgement,
             files, Before, Agreed, Closing, Ending
  <1>1. CASE Spawn
    BY <1>1 DEF Spawn, Goto, Raise
  <1>2. CASE StartFails
    BY <1>2 DEF StartFails, Close, Exited
  <1>3. CASE CheckReady
    BY <1>3 DEF CheckReady, Goto, Exited
  <1>4. CASE Connect
    BY <1>4 DEF Connect, Goto, Server
  <1>5. CASE CreateSession
    BY <1>5 DEF CreateSession, Goto, Raise, Exited, Server
  <1>6. CASE CreateFails
    BY <1>6 DEF CreateFails, Raise
  <1>7. CASE Describe
    BY <1>7 DEF Describe, Goto, Exited, Server
  <1>8. CASE Accept
    BY <1>8 DEF Accept, Goto
  <1>9. CASE NegotiationFails
    BY <1>9 DEF NegotiationFails, Raise
  <1>10. CASE Open
    BY <1>10 DEF Open, Goto, Server, Exited
  <1>11. CASE Exchange
    BY <1>11 DEF Exchange, Goto, Found
  <1>12. CASE JudgePeers
    BY <1>12 DEF JudgePeers, Goto, Found
  <1>13. CASE TalkFails
    BY <1>13 DEF TalkFails, Raise
  <1>14. CASE DeleteSession
    BY <1>14 DEF DeleteSession, Server, Close, Raise
  <1>15. CASE ReadLog
    BY <1>15 DEF ReadLog, Goto, Found
  <1>16. CASE WriteEvidence
    BY <1>16, RecordNames DEF WriteEvidence, Goto
  <1>17. CASE Except
    BY <1>17 DEF Except, Goto, ExceptionVerdict
  <1>18. CASE ClosePeer
    BY <1>18 DEF ClosePeer, Close, Goto
  <1>19. CASE CloseEndpoint
    BY <1>19 DEF CloseEndpoint, Goto, Server
  <1>20. CASE Kill
    BY <1>20 DEF Kill, Goto, Exited
  <1>21. CASE Stopped
    BY <1>21 DEF Stopped, Goto, Exited
  <1>22. CASE Drained
    BY <1>22 DEF Drained
  <1>23. CASE DrainFails
    BY <1>23 DEF DrainFails
  <1>24. CASE Publish
    BY <1>24 DEF Publish, Goto
  <1>25. CASE Bind
    BY <1>25 DEF Bind
  <1>26. CASE Exit
    BY <1>26 DEF Exit
  <1>27. CASE Reap
    BY <1>27 DEF Reap
  <1>28. CASE ForgetSession
    BY <1>28 DEF ForgetSession
  <1>29. CASE \E line \in {"ice", "dtls"} \cup config.media : Log(line)
    BY <1>29, Fields DEF Log
  <1>30. CASE LogEnds
    BY <1>30 DEF LogEnds
  <1>31. CASE LogFails
    BY <1>31 DEF LogFails
  <1>33. CASE RecordsFail
    BY <1>33, RecordNames DEF RecordsFail, Raise
  <1>32. CASE UNCHANGED vars
    BY <1>32 DEF vars
  <1>. QED
    BY <1>1, <1>2, <1>3, <1>4, <1>5, <1>6, <1>7, <1>8, <1>9, <1>10, <1>11,
       <1>12, <1>13, <1>14, <1>15, <1>16, <1>17, <1>18, <1>19, <1>20,
       <1>21, <1>22, <1>23, <1>24, <1>25, <1>26, <1>27, <1>28, <1>29,
       <1>30, <1>31, <1>32, <1>33
    DEF Next, Coroutine

\* The invariant holds always.
LEMMA Correct == Spec => []IInv
  <1>1. IInv /\ [Next]_vars => IInv'
    BY TypeStep, SessionStep, ProcessStep, JudgedStep, FilesStep DEF IInv
  <1>. QED
    BY Initially, <1>1, PTL DEF Spec

-----------------------------------------------------------------------------
\* Every variable keeps its type, whatever baresip, its log and another
\* process on the port do.
THEOREM TypeCorrect == Spec => []TypeOK
  <1>1. IInv => TypeOK
    BY DEF IInv
  <1>. QED
    BY Correct, <1>1, PTL

\* Any listener on the port may have served the scenario (_wait_ready), but
\* a PASS is about the process it started: the log lines a PASS needs are
\* that process's.
THEOREM PassIsOwn == Spec => []OwnProcessJudged
  <1>1. IInv => OwnProcessJudged
    BY DEF IInv, Session, Judged, Files, OwnProcessJudged, None
  <1>. QED
    BY Correct, <1>1, PTL

\* A PASS is clean: nothing was found, nothing raised, and the session did
\* not outlive the scenario (run_product_scenario, close).
THEOREM PassIsClean == Spec => []CleanPass
  <1>1. IInv => CleanPass
    BY DEF IInv, TypeOK, Session, Process, Judged, Files, CleanPass, None
  <1>. QED
    BY Correct, <1>1, PTL

-----------------------------------------------------------------------------
\* The directory starts as its contract says.
LEMMA ContractInit == Init => Contract!Init
  BY DEF Init, Contract!Init, Collected, Identity, None

\* Before the result is written, evidence is only collected.
LEMMA CollectStep ==
  ASSUME IInv, IInv', result = None, result' = None, Collected \subseteq Collected'
  PROVE  Contract!Collect
  <1>1. Collected' \subseteq Identity \cup {"offer.sdp", "answer.sdp",
          "peer-stats.json", "sent-manifest.json", "received-manifest.json",
          "events.ndjson", "baresip.log", "ice", "dtls", "audio", "video",
          "result.json"}
    BY DEF IInv, TypeOK, Files, Collected
  <1>2. "result.json" \notin Collected'
    <2>1. result'.verdict = "none"
      BY DEF None
    <2>2. pc' # "done"
      BY <2>1 DEF IInv, TypeOK, Files, Reports, None
    <2>. QED
      BY <2>2 DEF IInv, TypeOK, Files, Collected
  <1>3. (own' = "running" \/ logTask' = "reading" \/ peerOpen') \in BOOLEAN
    OBVIOUS
  <1>. QED
    BY <1>1, <1>2, <1>3, RecordNames DEF Contract!Collect, None

\* A step before the end only adds to the evidence.
LEMMA EvidenceGrows ==
  ASSUME [Next]_vars PROVE Collected \subseteq Collected'
  <1> USE DEF Collected, vars, process, signaling, control, judgement, files
  <1>1. CASE Spawn
    BY <1>1 DEF Spawn, Goto, Raise
  <1>2. CASE StartFails
    BY <1>2 DEF StartFails, Close, Exited
  <1>3. CASE CheckReady
    BY <1>3 DEF CheckReady, Goto, Exited
  <1>4. CASE Connect
    BY <1>4 DEF Connect, Goto, Server
  <1>5. CASE CreateSession
    BY <1>5 DEF CreateSession, Goto, Raise, Exited, Server
  <1>6. CASE CreateFails
    BY <1>6 DEF CreateFails, Raise
  <1>7. CASE Describe
    BY <1>7 DEF Describe, Goto, Exited, Server
  <1>8. CASE Accept
    BY <1>8 DEF Accept, Goto
  <1>9. CASE NegotiationFails
    BY <1>9 DEF NegotiationFails, Raise
  <1>10. CASE Open
    BY <1>10 DEF Open, Goto, Server, Exited
  <1>11. CASE Exchange
    BY <1>11 DEF Exchange, Goto, Found
  <1>12. CASE JudgePeers
    BY <1>12 DEF JudgePeers, Goto, Found
  <1>13. CASE TalkFails
    BY <1>13 DEF TalkFails, Raise
  <1>14. CASE DeleteSession
    BY <1>14 DEF DeleteSession, Server, Close, Raise
  <1>15. CASE ReadLog
    BY <1>15 DEF ReadLog, Goto, Found
  <1>16. CASE WriteEvidence
    BY <1>16, RecordNames DEF WriteEvidence, Goto
  <1>17. CASE Except
    BY <1>17 DEF Except, Goto, ExceptionVerdict
  <1>18. CASE ClosePeer
    BY <1>18 DEF ClosePeer, Close, Goto
  <1>19. CASE CloseEndpoint
    BY <1>19 DEF CloseEndpoint, Goto, Server
  <1>20. CASE Kill
    BY <1>20 DEF Kill, Goto, Exited
  <1>21. CASE Stopped
    BY <1>21 DEF Stopped, Goto, Exited
  <1>22. CASE Drained
    BY <1>22 DEF Drained
  <1>23. CASE DrainFails
    BY <1>23 DEF DrainFails
  <1>24. CASE Publish
    BY <1>24 DEF Publish, Goto
  <1>25. CASE Bind
    BY <1>25 DEF Bind
  <1>26. CASE Exit
    BY <1>26 DEF Exit
  <1>27. CASE Reap
    BY <1>27 DEF Reap
  <1>28. CASE ForgetSession
    BY <1>28 DEF ForgetSession
  <1>29. CASE \E line \in {"ice", "dtls"} \cup config.media : Log(line)
    BY <1>29, Fields DEF Log
  <1>30. CASE LogEnds
    BY <1>30 DEF LogEnds
  <1>31. CASE LogFails
    BY <1>31 DEF LogFails
  <1>33. CASE RecordsFail
    BY <1>33, RecordNames DEF RecordsFail, Raise
  <1>32. CASE UNCHANGED vars
    BY <1>32 DEF vars
  <1>. QED
    BY <1>1, <1>2, <1>3, <1>4, <1>5, <1>6, <1>7, <1>8, <1>9, <1>10, <1>11,
       <1>12, <1>13, <1>14, <1>15, <1>16, <1>17, <1>18, <1>19, <1>20,
       <1>21, <1>22, <1>23, <1>24, <1>25, <1>26, <1>27, <1>28, <1>29,
       <1>30, <1>31, <1>32, <1>33
    DEF Next, Coroutine

\* Every other step than publishing leaves the result alone.
LEMMA ResultKept ==
  ASSUME [Next]_vars, ~Publish PROVE result' = result
  <1> USE DEF vars, process, signaling, control, judgement, files
  <1>1. CASE Spawn
    BY <1>1 DEF Spawn, Goto, Raise
  <1>2. CASE StartFails
    BY <1>2 DEF StartFails, Close, Exited
  <1>3. CASE CheckReady
    BY <1>3 DEF CheckReady, Goto, Exited
  <1>4. CASE Connect
    BY <1>4 DEF Connect, Goto, Server
  <1>5. CASE CreateSession
    BY <1>5 DEF CreateSession, Goto, Raise, Exited, Server
  <1>6. CASE CreateFails
    BY <1>6 DEF CreateFails, Raise
  <1>7. CASE Describe
    BY <1>7 DEF Describe, Goto, Exited, Server
  <1>8. CASE Accept
    BY <1>8 DEF Accept, Goto
  <1>9. CASE NegotiationFails
    BY <1>9 DEF NegotiationFails, Raise
  <1>10. CASE Open
    BY <1>10 DEF Open, Goto, Server, Exited
  <1>11. CASE Exchange
    BY <1>11 DEF Exchange, Goto, Found
  <1>12. CASE JudgePeers
    BY <1>12 DEF JudgePeers, Goto, Found
  <1>13. CASE TalkFails
    BY <1>13 DEF TalkFails, Raise
  <1>14. CASE DeleteSession
    BY <1>14 DEF DeleteSession, Server, Close, Raise
  <1>15. CASE ReadLog
    BY <1>15 DEF ReadLog, Goto, Found
  <1>16. CASE WriteEvidence
    BY <1>16, RecordNames DEF WriteEvidence, Goto
  <1>17. CASE Except
    BY <1>17 DEF Except, Goto, ExceptionVerdict
  <1>18. CASE ClosePeer
    BY <1>18 DEF ClosePeer, Close, Goto
  <1>19. CASE CloseEndpoint
    BY <1>19 DEF CloseEndpoint, Goto, Server
  <1>20. CASE Kill
    BY <1>20 DEF Kill, Goto, Exited
  <1>21. CASE Stopped
    BY <1>21 DEF Stopped, Goto, Exited
  <1>22. CASE Drained
    BY <1>22 DEF Drained
  <1>23. CASE DrainFails
    BY <1>23 DEF DrainFails
  <1>25. CASE Bind
    BY <1>25 DEF Bind
  <1>26. CASE Exit
    BY <1>26 DEF Exit
  <1>27. CASE Reap
    BY <1>27 DEF Reap
  <1>28. CASE ForgetSession
    BY <1>28 DEF ForgetSession
  <1>29. CASE \E line \in {"ice", "dtls"} \cup config.media : Log(line)
    BY <1>29, Fields DEF Log
  <1>30. CASE LogEnds
    BY <1>30 DEF LogEnds
  <1>31. CASE LogFails
    BY <1>31 DEF LogFails
  <1>33. CASE RecordsFail
    BY <1>33, RecordNames DEF RecordsFail, Raise
  <1>32. CASE UNCHANGED vars
    BY <1>32 DEF vars
  <1>. QED
    BY <1>1, <1>2, <1>3, <1>4, <1>5, <1>6, <1>7, <1>8, <1>9, <1>10, <1>11,
       <1>12, <1>13, <1>14, <1>15, <1>16, <1>17, <1>18, <1>19, <1>20,
       <1>21, <1>22, <1>23, <1>25, <1>26, <1>27, <1>28, <1>29,
       <1>30, <1>31, <1>32, <1>33
    DEF Next, Coroutine

\* Once it is written nothing moves.
LEMMA Finished ==
  ASSUME IInv, [Next]_vars, pc = "done" PROVE UNCHANGED <<evidence, log, own, logTask, peerOpen, result>>
  <1> USE DEF IInv, TypeOK, Process, vars, process, signaling, control, judgement, files
  <1>1. CASE Spawn
    BY <1>1 DEF Spawn, Goto, Raise
  <1>2. CASE StartFails
    BY <1>2 DEF StartFails, Close, Exited
  <1>3. CASE CheckReady
    BY <1>3 DEF CheckReady, Goto, Exited
  <1>4. CASE Connect
    BY <1>4 DEF Connect, Goto, Server
  <1>5. CASE CreateSession
    BY <1>5 DEF CreateSession, Goto, Raise, Exited, Server
  <1>6. CASE CreateFails
    BY <1>6 DEF CreateFails, Raise
  <1>7. CASE Describe
    BY <1>7 DEF Describe, Goto, Exited, Server
  <1>8. CASE Accept
    BY <1>8 DEF Accept, Goto
  <1>9. CASE NegotiationFails
    BY <1>9 DEF NegotiationFails, Raise
  <1>10. CASE Open
    BY <1>10 DEF Open, Goto, Server, Exited
  <1>11. CASE Exchange
    BY <1>11 DEF Exchange, Goto, Found
  <1>12. CASE JudgePeers
    BY <1>12 DEF JudgePeers, Goto, Found
  <1>13. CASE TalkFails
    BY <1>13 DEF TalkFails, Raise
  <1>14. CASE DeleteSession
    BY <1>14 DEF DeleteSession, Server, Close, Raise
  <1>15. CASE ReadLog
    BY <1>15 DEF ReadLog, Goto, Found
  <1>16. CASE WriteEvidence
    BY <1>16, RecordNames DEF WriteEvidence, Goto
  <1>17. CASE Except
    BY <1>17 DEF Except, Goto, ExceptionVerdict
  <1>18. CASE ClosePeer
    BY <1>18 DEF ClosePeer, Close, Goto
  <1>19. CASE CloseEndpoint
    BY <1>19 DEF CloseEndpoint, Goto, Server
  <1>20. CASE Kill
    BY <1>20 DEF Kill, Goto, Exited
  <1>21. CASE Stopped
    BY <1>21 DEF Stopped, Goto, Exited
  <1>22. CASE Drained
    BY <1>22 DEF Drained
  <1>23. CASE DrainFails
    BY <1>23 DEF DrainFails
  <1>24. CASE Publish
    BY <1>24 DEF Publish, Goto
  <1>25. CASE Bind
    BY <1>25 DEF Bind
  <1>26. CASE Exit
    BY <1>26 DEF Exit
  <1>27. CASE Reap
    BY <1>27 DEF Reap
  <1>28. CASE ForgetSession
    BY <1>28 DEF ForgetSession
  <1>29. CASE \E line \in {"ice", "dtls"} \cup config.media : Log(line)
    BY <1>29, Fields DEF Log
  <1>30. CASE LogEnds
    BY <1>30 DEF LogEnds
  <1>31. CASE LogFails
    BY <1>31 DEF LogFails
  <1>33. CASE RecordsFail
    BY <1>33, RecordNames DEF RecordsFail, Raise
  <1>32. CASE UNCHANGED vars
    BY <1>32 DEF vars
  <1>. QED
    BY <1>1, <1>2, <1>3, <1>4, <1>5, <1>6, <1>7, <1>8, <1>9, <1>10, <1>11,
       <1>12, <1>13, <1>14, <1>15, <1>16, <1>17, <1>18, <1>19, <1>20,
       <1>21, <1>22, <1>23, <1>24, <1>25, <1>26, <1>27, <1>28, <1>29,
       <1>30, <1>31, <1>32, <1>33
    DEF Next, Coroutine

\* Every step of the scenario is one of its contract, or none.
LEMMA ContractStep == IInv /\ IInv' /\ [Next]_vars => [Contract!Next]_(Contract!vars)
  <1> SUFFICES ASSUME IInv, IInv', [Next]_vars PROVE [Contract!Next]_(Contract!vars)
    OBVIOUS
  <1>1. CASE pc = "done"
    BY <1>1, Finished DEF Contract!vars, Collected
  <1>2. CASE pc # "done" /\ Publish
    <2>1. result.verdict = "none" /\ result'.verdict \in {"PASS", "FAIL", "INFRA_ERROR"}
      BY <1>2 DEF IInv, TypeOK, Files, None, Publish, Reports
    <2>2. ~(own = "running" \/ logTask = "reading" \/ peerOpen)
      BY <1>2 DEF IInv, TypeOK, Process, Files, Publish
    <2>3. Collected' = Collected \cup {"result.json"}
      BY <1>2 DEF Publish, Collected, process
    <2>4. UNCHANGED <<own, logTask, peerOpen>>
      BY <1>2 DEF Publish, process
    <2>. QED
      BY <2>1, <2>2, <2>3, <2>4 DEF Contract!Next, Contract!Publish
  <1>3. CASE pc # "done" /\ ~Publish
    <2>1. result = None
      BY <1>3 DEF IInv, Files
    <2>2. result' = None
      BY <1>3, <2>1, ResultKept
    <2>. QED
      BY <2>1, <2>2, EvidenceGrows, CollectStep DEF Contract!Next
  <1>. QED
    BY <1>1, <1>2, <1>3

\* The scenario implements the contract of its evidence directory
\* (docs/evidence-schema.md): one verdict, after everything it started is gone.
THEOREM Refinement == Spec => ImplementsContract
  BY Correct, ContractInit, ContractStep, PTL DEF Spec, ImplementsContract, Contract!Spec

-----------------------------------------------------------------------------
(* The media regression.                                                   *)

MediaBefore == {"spawn", "check", "connect", "create"}
MediaAgreed == {"open", "exchange", "judge", "delete", "log"}
MediaClosing == {"close", "stopping", "killing", "drain"}

\* The session of a case is deleted, and nothing is left of it.
Gone == negotiated /\ sessions = {} /\ ~session

\* The process has logged what a case needs, or that was found missing.
Logged == {"audio", "video"} \subseteq log \/ "rtp" \in failures

MediaTypes ==
    /\ case \in {1, 2}
    /\ packets \in [{1, 2} -> Counts]
    /\ config \in Configs /\ config.media = {"audio", "video"}
    /\ own \in {"none", "running", "dead", "reaped"}
    /\ logTask \in {"none", "reading", "ended", "failed"}
    /\ log \subseteq {"audio", "video"}
    /\ sessions \subseteq {"own", "foreign"}
    /\ served \in {"none", "own", "foreign"}
    /\ peerOpen \in BOOLEAN /\ negotiated \in BOOLEAN /\ session \in BOOLEAN
    /\ pc \in MediaBefore \cup MediaAgreed \cup MediaClosing
              \cup {"describe", "accept", "except", "finally", "next", "done"}
    /\ after \in {"except", "log", "next"}
    /\ error \in {"none"} \cup Errors
    /\ failures \subseteq {"transcript", "media", "few", "rtp", "rate"}
    /\ outcome.verdict \in {"PASS", "FAIL", "INFRA_ERROR"}

\* As in every scenario, of the case at hand.
MediaSession ==
    /\ sessions \subseteq {served} \ {"none"}
    /\ pc \in MediaBefore => served = "none"
    /\ log # {} => served = "own"
    /\ "own" \in sessions => own = "running"

MediaProcess ==
    /\ pc \in {"stopping", "killing"} => own # "none"
    /\ pc = "drain" => own \in {"none", "reaped"}
    /\ pc \in {"stopping", "killing", "drain"} => ~session
    /\ pc = "next" /\ error = "none" => own = "none" /\ logTask = "none"
    /\ ~FragileBrowser =>
          /\ pc \in MediaClosing /\ after = "next" => ~peerOpen
          /\ pc \in {"next", "done"} =>
                own \in {"none", "reaped"} /\ logTask # "reading" /\ ~peerOpen

MediaJudged ==
    /\ found = failures
    /\ pc \in MediaBefore \cup {"describe", "accept"} \cup MediaAgreed =>
          error = "none"
    /\ pc \in MediaAgreed => negotiated
    /\ pc = "except" \/ (pc \in MediaClosing /\ after = "except") =>
          error # "none"
    /\ pc = "log" \/ (pc \in MediaClosing /\ after = "log") =>
          error = "none" /\ Gone
    /\ pc = "finally" => error = "none" /\ Gone /\ Logged
    /\ (pc = "next" \/ (pc \in MediaClosing /\ after = "next")) /\ error = "none"
          => Gone /\ Logged
    /\ pc = "done" /\ outcome.verdict = "PASS" =>
          failures = {} /\ error = "none" /\ Gone /\ Logged /\ own = "none"

MediaFiles ==
    /\ evidence \subseteq Identity \cup {"offer.sdp", "answer.sdp",
          "peer-stats.json", "baresip.log", "audio", "video", "result.json"}
    /\ pc = "done" => result = outcome
    /\ pc # "done" => result = None /\ "result.json" \notin evidence

RInv == MediaTypes /\ MediaSession /\ MediaProcess /\ MediaJudged /\ MediaFiles

\* A step of the regression.
Busy == Shared \/ Regression \/ Environment

LEMMA RegressionInitially == MediaInit /\ case # 0 => RInv
  <1> SUFFICES ASSUME MediaInit, case # 0 PROVE RInv
    OBVIOUS
  <1>1. MediaTypes
    <2>1. case \in {1, 2} /\ packets \in [{1, 2} -> Counts]
      BY DEF MediaInit, Counts
    <2>2. /\ config \in Configs /\ config.media = {"audio", "video"}
          /\ own = "none" /\ logTask = "none" /\ log = {} /\ sessions = {}
          /\ served = "none" /\ session = FALSE /\ peerOpen = FALSE
          /\ negotiated = FALSE /\ failures = {}
      BY DEF MediaInit, Init
    <2>3. pc = "spawn" /\ after = "except" /\ error = "none"
      BY DEF MediaInit, Init
    <2>4. outcome.verdict = "INFRA_ERROR"
      BY DEF MediaInit, Init
    <2> QED
      BY <2>1, <2>2, <2>3, <2>4 DEF MediaTypes, MediaBefore
  <1>2. MediaSession /\ MediaProcess /\ MediaJudged /\ MediaFiles
    BY DEF MediaInit, Init, MediaSession, MediaProcess, MediaJudged, MediaFiles,
           MediaBefore, MediaAgreed, MediaClosing, Identity
  <1> QED
    BY <1>1, <1>2 DEF RInv

\* Every step keeps the types.
LEMMA MediaTypesStep == RInv /\ [Busy]_allVars => MediaTypes'
  <1> SUFFICES ASSUME RInv, [Busy]_allVars PROVE MediaTypes'
    OBVIOUS
  <1> USE DEF RInv, MediaTypes, Counts, MediaBefore, MediaAgreed,
     MediaClosing, Errors, allVars, regression, vars, process, signaling,
     control, judgement, files
  <1>1. CASE Spawn /\ UNCHANGED regression
    BY <1>1 DEF Spawn, Goto, Raise
  <1>2. CASE StartFails /\ UNCHANGED regression
    BY <1>2 DEF StartFails, Close, Exited
  <1>3. CASE CheckReady /\ UNCHANGED regression
    BY <1>3 DEF CheckReady, Goto, Exited
  <1>4. CASE Connect /\ UNCHANGED regression
    <2>1. peerOpen' \in BOOLEAN
      BY <1>4 DEF Connect
    <2>2. pc' \in {"check", "create"} /\ after' = after /\ error' = error
      BY <1>4 DEF Connect, Goto
    <2>3. UNCHANGED <<case, packets, config, own, logTask, log, sessions, served,
                   negotiated, session, failures, outcome>>
      BY <1>4 DEF Connect
    <2> QED
      BY <2>1, <2>2, <2>3 DEF MediaTypes
  <1>5. CASE CreateSession /\ UNCHANGED regression
    <2>1. sessions' \subseteq {"own", "foreign"} /\ served' \in {"own", "foreign"}
      BY <1>5 DEF CreateSession, Server
    <2>2. session' \in BOOLEAN
      <3>1. config.offerer \in BOOLEAN
        BY DEF Configs
      <3>2. session' = config.offerer \/ session' \in {FALSE, config.offerer}
        BY <1>5 DEF CreateSession
      <3> QED
        BY <3>1, <3>2
    <2>3. pc' \in {"describe", "except"} /\ after' = after
      BY <1>5 DEF CreateSession, Goto, Raise
    <2>4. error' \in {"none"} \cup Errors
      BY <1>5 DEF CreateSession, Goto, Raise
    <2>5. UNCHANGED <<case, packets, config, own, logTask, log, peerOpen,
                   negotiated, failures, outcome>>
      BY <1>5 DEF CreateSession
    <2> QED
      BY <1>5, <2>1, <2>2, <2>3, <2>4, <2>5 DEF MediaTypes
  <1>6. CASE CreateFails /\ UNCHANGED regression
    BY <1>6 DEF CreateFails, Raise
  <1>7. CASE Describe /\ UNCHANGED regression
    <2>1. sessions' = sessions /\ served' = served /\ session' = TRUE
      BY <1>7 DEF Describe
    <2>2. negotiated' \in BOOLEAN
      BY <1>7 DEF Describe
    <2>3. pc' \in {"open", "accept"} /\ after' = after /\ error' = error
      BY <1>7 DEF Describe, Goto
    <2>4. UNCHANGED <<case, packets, config, own, logTask, log, peerOpen,
                   failures, outcome>>
      BY <1>7 DEF Describe
    <2> QED
      BY <1>7, <2>1, <2>2, <2>3, <2>4 DEF MediaTypes
  <1>8. CASE Accept /\ UNCHANGED regression
    BY <1>8 DEF Accept, Goto
  <1>9. CASE NegotiationFails /\ UNCHANGED regression
    BY <1>9 DEF NegotiationFails, Raise
  <1>10. CASE TalkFails /\ UNCHANGED regression
    BY <1>10 DEF TalkFails, Raise
  <1>11. CASE DeleteSession /\ UNCHANGED regression
    <2>1. sessions' \subseteq sessions /\ served' = served /\ session' = FALSE
      BY <1>11 DEF DeleteSession
    <2>2. pc' \in {"close", "except"} /\ after' \in {after, "log"}
      BY <1>11 DEF DeleteSession, Close, Raise
    <2>3. error' \in {"none"} \cup Errors
      BY <1>11 DEF DeleteSession, Raise
    <2>4. UNCHANGED <<case, packets, config, own, logTask, log, peerOpen,
                   negotiated, failures, outcome>>
      BY <1>11 DEF DeleteSession
    <2>5. sessions' \subseteq {"own", "foreign"} /\ served' \in {"none", "own", "foreign"}
      BY <2>1
    <2>6. /\ pc' \in {"close", "except"}
          /\ after' \in {"except", "log", "next"}
          /\ error' \in {"none"} \cup Errors
      BY <2>2, <2>3
    <2>7. (case \in {1, 2} /\ packets \in [{1, 2} -> Counts])'
      BY <2>4
    <2>8. (config \in Configs /\ config.media = {"audio", "video"})'
      BY <2>4
    <2>9. /\ (own \in {"none", "running", "dead", "reaped"})'
          /\ (logTask \in {"none", "reading", "ended", "failed"})'
          /\ (log \subseteq {"audio", "video"})'
      BY <2>4
    <2>10. (peerOpen \in BOOLEAN /\ negotiated \in BOOLEAN /\ session \in BOOLEAN)'
      BY <2>1, <2>4
    <2>11. /\ (failures \subseteq {"transcript", "media", "few", "rtp", "rate"})'
          /\ (outcome.verdict \in {"PASS", "FAIL", "INFRA_ERROR"})'
      BY <2>4
    <2> QED
      BY <2>5, <2>6, <2>7, <2>8, <2>9, <2>10, <2>11 DEF MediaTypes
  <1>12. CASE CloseEndpoint /\ UNCHANGED regression
    <2>1. sessions' \subseteq sessions /\ served' = served /\ session' = FALSE
      BY <1>12 DEF CloseEndpoint
    <2>2. pc' \in {"stopping", "drain"} /\ after' = after /\ error' = error
      BY <1>12 DEF CloseEndpoint, Goto
    <2>3. UNCHANGED <<case, packets, config, own, logTask, log, peerOpen,
                   negotiated, failures, outcome>>
      BY <1>12 DEF CloseEndpoint
    <2>4. sessions' \subseteq {"own", "foreign"} /\ served' \in {"none", "own", "foreign"}
      BY <2>1
    <2>5. /\ pc' \in {"stopping", "drain"}
          /\ after' \in {"except", "log", "next"}
          /\ error' \in {"none"} \cup Errors
      BY <2>2
    <2>6. (case \in {1, 2} /\ packets \in [{1, 2} -> Counts])'
      BY <2>3
    <2>7. (config \in Configs /\ config.media = {"audio", "video"})'
      BY <2>3
    <2>8. /\ (own \in {"none", "running", "dead", "reaped"})'
          /\ (logTask \in {"none", "reading", "ended", "failed"})'
          /\ (log \subseteq {"audio", "video"})'
      BY <2>3
    <2>9. (peerOpen \in BOOLEAN /\ negotiated \in BOOLEAN /\ session \in BOOLEAN)'
      BY <2>1, <2>3
    <2>10. /\ (failures \subseteq {"transcript", "media", "few", "rtp", "rate"})'
          /\ (outcome.verdict \in {"PASS", "FAIL", "INFRA_ERROR"})'
      BY <2>3
    <2> QED
      BY <2>4, <2>5, <2>6, <2>7, <2>8, <2>9, <2>10 DEF MediaTypes
  <1>13. CASE Kill /\ UNCHANGED regression
    BY <1>13 DEF Kill, Goto, Exited
  <1>14. CASE Stopped /\ UNCHANGED regression
    BY <1>14 DEF Stopped, Goto, Exited
  <1>15. CASE Drained /\ UNCHANGED regression
    BY <1>15 DEF Drained
  <1>16. CASE after # "next" /\ DrainFails /\ UNCHANGED regression
    BY <1>16 DEF DrainFails
  <1>17. CASE MediaOpen
    BY <1>17 DEF MediaOpen, Goto
  <1>18. CASE MediaLoad
    BY <1>18 DEF MediaLoad, Goto, Found
  <1>19. CASE MediaJudge
    <2>1. packets' \in [{1, 2} -> Counts]
      BY <1>19 DEF MediaJudge
    <2>2. failures' \subseteq {"transcript", "media", "few", "rtp", "rate"}
      BY <1>19 DEF MediaJudge, Found
    <2>3. pc' = "delete" /\ after' = after /\ error' = error
      BY <1>19 DEF MediaJudge, Goto
    <2>4. UNCHANGED <<case, config, own, logTask, log, sessions, served, peerOpen,
                   negotiated, session, outcome>>
      BY <1>19 DEF MediaJudge
    <2> QED
      BY <1>19, <2>1, <2>2, <2>3, <2>4 DEF MediaTypes
  <1>20. CASE MediaWrite
    BY <1>20, RecordNames DEF MediaWrite, Goto, Found
  <1>21. CASE MediaClose
    <2>1. peerOpen' \in BOOLEAN
      BY <1>21 DEF MediaClose
    <2>2. pc' \in {"close", "next"} /\ after' \in {after, "next"}
      BY <1>21 DEF MediaClose, Close
    <2>3. error' \in {"none"} \cup Errors
      BY <1>21 DEF MediaClose
    <2>4. UNCHANGED <<case, packets, config, own, logTask, log, sessions, served,
                   negotiated, session, failures, outcome>>
      BY <1>21 DEF MediaClose
    <2> QED
      BY <1>21, <2>1, <2>2, <2>3, <2>4 DEF MediaTypes
  <1>22. CASE MediaDrainFails
    BY <1>22 DEF MediaDrainFails
  <1>23. CASE NextCase
    <2>1. case' = 2 /\ packets' = packets
      BY <1>23 DEF NextCase
    <2>2. log' = {} /\ served' = "none" /\ peerOpen' = peerOpen /\ negotiated' = FALSE
      BY <1>23 DEF NextCase
    <2>3. pc' = "spawn" /\ after' = after /\ error' = error
      BY <1>23 DEF NextCase, Goto
    <2>4. UNCHANGED <<config, own, logTask, sessions, session, failures, outcome>>
      BY <1>23 DEF NextCase
    <2>5. /\ pc' \in {"spawn"}
          /\ after' \in {"except", "log", "next"}
          /\ error' \in {"none"} \cup Errors
      BY <2>3
    <2> QED
      BY <2>1, <2>2, <2>3, <2>4, <2>5 DEF MediaTypes
  <1>24. CASE MediaCompare
    BY <1>24 DEF MediaCompare, PublishAs, Found, Goto
  <1>25. CASE MediaExcept
    BY <1>25 DEF MediaExcept, PublishAs, Goto, ExceptionVerdict
  <1>26. CASE Bind /\ UNCHANGED regression
    BY <1>26 DEF Bind
  <1>27. CASE Exit /\ UNCHANGED regression
    BY <1>27 DEF Exit
  <1>28. CASE Reap /\ UNCHANGED regression
    BY <1>28 DEF Reap
  <1>29. CASE ForgetSession /\ UNCHANGED regression
    BY <1>29 DEF ForgetSession
  <1>30. CASE (\E line \in config.media : Log(line)) /\ UNCHANGED regression
    <2>1. PICK line \in config.media : Log(line)
      BY <1>30
    <2>2. line \in {"audio", "video"}
      BY <2>1
    <2>3. log' = log \cup {line}
      BY <2>1 DEF Log
    <2>4. log' \subseteq {"audio", "video"}
      BY <2>2, <2>3
    <2>5. UNCHANGED <<case, packets, config, own, logTask, sessions, served,
                   peerOpen, negotiated, session, pc, after, error, failures,
                   outcome>>
      BY <1>30, <2>1 DEF Log
    <2> QED
      BY <2>4, <2>5 DEF MediaTypes
  <1>31. CASE LogEnds /\ UNCHANGED regression
    BY <1>31 DEF LogEnds
  <1>32. CASE LogFails /\ UNCHANGED regression
    BY <1>32 DEF LogFails
  <1>34. CASE MediaWriteFails
    BY <1>34, RecordNames DEF MediaWriteFails, Raise
  <1>35. CASE MediaCompareFails
    BY <1>35 DEF MediaCompareFails
  <1>33. CASE UNCHANGED allVars
    BY <1>33
  <1> QED
    BY <1>1, <1>2, <1>3, <1>4, <1>5, <1>6, <1>7, <1>8, <1>9, <1>10, <1>11,
       <1>12, <1>13, <1>14, <1>15, <1>16, <1>17, <1>18, <1>19, <1>20, <1>21,
       <1>22, <1>23, <1>24, <1>25, <1>26, <1>27, <1>28, <1>29, <1>30, <1>31,
       <1>32, <1>33, <1>34, <1>35
    DEF Busy, Shared, Regression, Environment

\* A session is that of the process that served the case.
LEMMA MediaSessionStep == RInv /\ [Busy]_allVars => MediaSession'
  <1> SUFFICES ASSUME RInv, [Busy]_allVars PROVE MediaSession'
    OBVIOUS
  <1> USE DEF RInv, MediaTypes, MediaSession, MediaJudged, MediaBefore,
     MediaAgreed, MediaClosing, Gone, Errors, allVars, regression, vars,
     process, signaling, control, judgement, files
  <1>1. CASE Spawn /\ UNCHANGED regression
    BY <1>1 DEF Spawn, Goto, Raise
  <1>2. CASE StartFails /\ UNCHANGED regression
    BY <1>2 DEF StartFails, Close, Exited
  <1>3. CASE CheckReady /\ UNCHANGED regression
    BY <1>3 DEF CheckReady, Goto, Exited
  <1>4. CASE Connect /\ UNCHANGED regression
    BY <1>4 DEF Connect, Goto, Server
  <1>5. CASE CreateSession /\ UNCHANGED regression
    BY <1>5 DEF CreateSession, Goto, Raise, Exited, Server
  <1>6. CASE CreateFails /\ UNCHANGED regression
    BY <1>6 DEF CreateFails, Raise
  <1>7. CASE Describe /\ UNCHANGED regression
    BY <1>7 DEF Describe, Goto, Exited, Server
  <1>8. CASE Accept /\ UNCHANGED regression
    BY <1>8 DEF Accept, Goto
  <1>9. CASE NegotiationFails /\ UNCHANGED regression
    BY <1>9 DEF NegotiationFails, Raise
  <1>10. CASE TalkFails /\ UNCHANGED regression
    BY <1>10 DEF TalkFails, Raise
  <1>11. CASE DeleteSession /\ UNCHANGED regression
    BY <1>11 DEF DeleteSession, Server, Close, Raise
  <1>12. CASE CloseEndpoint /\ UNCHANGED regression
    BY <1>12 DEF CloseEndpoint, Goto, Server
  <1>13. CASE Kill /\ UNCHANGED regression
    BY <1>13 DEF Kill, Goto, Exited
  <1>14. CASE Stopped /\ UNCHANGED regression
    BY <1>14 DEF Stopped, Goto, Exited
  <1>15. CASE Drained /\ UNCHANGED regression
    <2>1. pc' \in {"except", "log", "next"}
      BY <1>15 DEF Drained
    <2>2. own # "running" /\ UNCHANGED <<sessions, served, log>>
      BY <1>15 DEF Drained, MediaProcess
    <2> QED
      BY <2>1, <2>2
  <1>16. CASE after # "next" /\ DrainFails /\ UNCHANGED regression
    BY <1>16 DEF DrainFails
  <1>17. CASE MediaOpen
    BY <1>17 DEF MediaOpen, Goto
  <1>18. CASE MediaLoad
    BY <1>18 DEF MediaLoad, Goto, Found
  <1>19. CASE MediaJudge
    BY <1>19 DEF MediaJudge, Goto, Found, Counts
  <1>20. CASE MediaWrite
    BY <1>20, RecordNames DEF MediaWrite, Goto, Found
  <1>21. CASE MediaClose
    BY <1>21 DEF MediaClose, Close
  <1>22. CASE MediaDrainFails
    BY <1>22 DEF MediaDrainFails
  <1>23. CASE NextCase
    BY <1>23 DEF NextCase, Goto
  <1>24. CASE MediaCompare
    BY <1>24 DEF MediaCompare, PublishAs, Found, Goto
  <1>25. CASE MediaExcept
    BY <1>25 DEF MediaExcept, PublishAs, Goto, ExceptionVerdict
  <1>26. CASE Bind /\ UNCHANGED regression
    BY <1>26 DEF Bind
  <1>27. CASE Exit /\ UNCHANGED regression
    BY <1>27 DEF Exit
  <1>28. CASE Reap /\ UNCHANGED regression
    BY <1>28 DEF Reap
  <1>29. CASE ForgetSession /\ UNCHANGED regression
    BY <1>29 DEF ForgetSession
  <1>30. CASE (\E line \in config.media : Log(line)) /\ UNCHANGED regression
    BY <1>30 DEF Log
  <1>31. CASE LogEnds /\ UNCHANGED regression
    BY <1>31 DEF LogEnds
  <1>32. CASE LogFails /\ UNCHANGED regression
    BY <1>32 DEF LogFails
  <1>34. CASE MediaWriteFails
    BY <1>34, RecordNames DEF MediaWriteFails, Raise
  <1>35. CASE MediaCompareFails
    BY <1>35 DEF MediaCompareFails
  <1>33. CASE UNCHANGED allVars
    BY <1>33
  <1> QED
    BY <1>1, <1>2, <1>3, <1>4, <1>5, <1>6, <1>7, <1>8, <1>9, <1>10, <1>11,
       <1>12, <1>13, <1>14, <1>15, <1>16, <1>17, <1>18, <1>19, <1>20, <1>21,
       <1>22, <1>23, <1>24, <1>25, <1>26, <1>27, <1>28, <1>29, <1>30, <1>31,
       <1>32, <1>33, <1>34, <1>35
    DEF Busy, Shared, Regression, Environment

\* Only a case that is over has no process.
LEMMA MediaProcessStep == RInv /\ [Busy]_allVars => MediaProcess'
  <1> SUFFICES ASSUME RInv, [Busy]_allVars PROVE MediaProcess'
    OBVIOUS
  <1> USE DEF RInv, MediaTypes, MediaProcess, MediaBefore, MediaAgreed,
     MediaClosing, Errors, allVars, regression, vars, process, signaling,
     control, judgement, files
  <1>1. CASE Spawn /\ UNCHANGED regression
    BY <1>1 DEF Spawn, Goto, Raise
  <1>2. CASE StartFails /\ UNCHANGED regression
    BY <1>2 DEF StartFails, Close, Exited
  <1>3. CASE CheckReady /\ UNCHANGED regression
    BY <1>3 DEF CheckReady, Goto, Exited
  <1>4. CASE Connect /\ UNCHANGED regression
    BY <1>4 DEF Connect, Goto, Server
  <1>5. CASE CreateSession /\ UNCHANGED regression
    BY <1>5 DEF CreateSession, Goto, Raise, Exited, Server
  <1>6. CASE CreateFails /\ UNCHANGED regression
    BY <1>6 DEF CreateFails, Raise
  <1>7. CASE Describe /\ UNCHANGED regression
    BY <1>7 DEF Describe, Goto, Exited, Server
  <1>8. CASE Accept /\ UNCHANGED regression
    BY <1>8 DEF Accept, Goto
  <1>9. CASE NegotiationFails /\ UNCHANGED regression
    BY <1>9 DEF NegotiationFails, Raise
  <1>10. CASE TalkFails /\ UNCHANGED regression
    BY <1>10 DEF TalkFails, Raise
  <1>11. CASE DeleteSession /\ UNCHANGED regression
    BY <1>11 DEF DeleteSession, Server, Close, Raise
  <1>12. CASE CloseEndpoint /\ UNCHANGED regression
    BY <1>12 DEF CloseEndpoint, Goto, Server
  <1>13. CASE Kill /\ UNCHANGED regression
    BY <1>13 DEF Kill, Goto, Exited
  <1>14. CASE Stopped /\ UNCHANGED regression
    BY <1>14 DEF Stopped, Goto, Exited
  <1>15. CASE Drained /\ UNCHANGED regression
    BY <1>15 DEF Drained
  <1>16. CASE after # "next" /\ DrainFails /\ UNCHANGED regression
    BY <1>16 DEF DrainFails
  <1>17. CASE MediaOpen
    BY <1>17 DEF MediaOpen, Goto
  <1>18. CASE MediaLoad
    BY <1>18 DEF MediaLoad, Goto, Found
  <1>19. CASE MediaJudge
    BY <1>19 DEF MediaJudge, Goto, Found, Counts
  <1>20. CASE MediaWrite
    BY <1>20, RecordNames DEF MediaWrite, Goto, Found
  <1>21. CASE MediaClose
    BY <1>21 DEF MediaClose, Close
  <1>22. CASE MediaDrainFails
    BY <1>22 DEF MediaDrainFails
  <1>23. CASE NextCase
    BY <1>23 DEF NextCase, Goto
  <1>24. CASE MediaCompare
    BY <1>24 DEF MediaCompare, PublishAs, Found, Goto
  <1>25. CASE MediaExcept
    BY <1>25 DEF MediaExcept, PublishAs, Goto, ExceptionVerdict
  <1>26. CASE Bind /\ UNCHANGED regression
    BY <1>26 DEF Bind
  <1>27. CASE Exit /\ UNCHANGED regression
    BY <1>27 DEF Exit
  <1>28. CASE Reap /\ UNCHANGED regression
    BY <1>28 DEF Reap
  <1>29. CASE ForgetSession /\ UNCHANGED regression
    BY <1>29 DEF ForgetSession
  <1>30. CASE (\E line \in config.media : Log(line)) /\ UNCHANGED regression
    BY <1>30 DEF Log
  <1>31. CASE LogEnds /\ UNCHANGED regression
    BY <1>31 DEF LogEnds
  <1>32. CASE LogFails /\ UNCHANGED regression
    BY <1>32 DEF LogFails
  <1>34. CASE MediaWriteFails
    BY <1>34, RecordNames DEF MediaWriteFails, Raise
  <1>35. CASE MediaCompareFails
    BY <1>35 DEF MediaCompareFails
  <1>33. CASE UNCHANGED allVars
    BY <1>33
  <1> QED
    BY <1>1, <1>2, <1>3, <1>4, <1>5, <1>6, <1>7, <1>8, <1>9, <1>10, <1>11,
       <1>12, <1>13, <1>14, <1>15, <1>16, <1>17, <1>18, <1>19, <1>20, <1>21,
       <1>22, <1>23, <1>24, <1>25, <1>26, <1>27, <1>28, <1>29, <1>30, <1>31,
       <1>32, <1>33, <1>34, <1>35
    DEF Busy, Shared, Regression, Environment

\* What a PASS needs has been seen where it was decided.
LEMMA MediaJudgedStep == RInv /\ [Busy]_allVars => MediaJudged'
  <1> SUFFICES ASSUME RInv, [Busy]_allVars PROVE MediaJudged'
    OBVIOUS
  <1> USE DEF RInv, MediaTypes, MediaSession, MediaProcess, MediaJudged,
     MediaBefore, MediaAgreed, MediaClosing, Gone, Logged, Errors, allVars,
     regression, vars, process, signaling, control, judgement, files
  <1>1. CASE Spawn /\ UNCHANGED regression
    BY <1>1 DEF Spawn, Goto, Raise
  <1>2. CASE StartFails /\ UNCHANGED regression
    BY <1>2 DEF StartFails, Close, Exited
  <1>3. CASE CheckReady /\ UNCHANGED regression
    BY <1>3 DEF CheckReady, Goto, Exited
  <1>4. CASE Connect /\ UNCHANGED regression
    BY <1>4 DEF Connect, Goto, Server
  <1>5. CASE CreateSession /\ UNCHANGED regression
    BY <1>5 DEF CreateSession, Goto, Raise, Exited, Server
  <1>6. CASE CreateFails /\ UNCHANGED regression
    BY <1>6 DEF CreateFails, Raise
  <1>7. CASE Describe /\ UNCHANGED regression
    BY <1>7 DEF Describe, Goto, Exited, Server
  <1>8. CASE Accept /\ UNCHANGED regression
    BY <1>8 DEF Accept, Goto
  <1>9. CASE NegotiationFails /\ UNCHANGED regression
    BY <1>9 DEF NegotiationFails, Raise
  <1>10. CASE TalkFails /\ UNCHANGED regression
    BY <1>10 DEF TalkFails, Raise
  <1>11. CASE DeleteSession /\ UNCHANGED regression
    BY <1>11 DEF DeleteSession, Server, Close, Raise
  <1>12. CASE CloseEndpoint /\ UNCHANGED regression
    BY <1>12 DEF CloseEndpoint, Goto, Server
  <1>13. CASE Kill /\ UNCHANGED regression
    BY <1>13 DEF Kill, Goto, Exited
  <1>14. CASE Stopped /\ UNCHANGED regression
    BY <1>14 DEF Stopped, Goto, Exited
  <1>15. CASE Drained /\ UNCHANGED regression
    BY <1>15 DEF Drained
  <1>16. CASE after # "next" /\ DrainFails /\ UNCHANGED regression
    BY <1>16 DEF DrainFails
  <1>17. CASE MediaOpen
    BY <1>17 DEF MediaOpen, Goto
  <1>18. CASE MediaLoad
    BY <1>18 DEF MediaLoad, Goto, Found
  <1>19. CASE MediaJudge
    BY <1>19 DEF MediaJudge, Goto, Found, Counts
  <1>20. CASE MediaWrite
    BY <1>20, RecordNames DEF MediaWrite, Goto, Found
  <1>21. CASE MediaClose
    BY <1>21 DEF MediaClose, Close
  <1>22. CASE MediaDrainFails
    BY <1>22 DEF MediaDrainFails
  <1>23. CASE NextCase
    BY <1>23 DEF NextCase, Goto
  <1>24. CASE MediaCompare
    BY <1>24 DEF MediaCompare, PublishAs, Found, Goto
  <1>25. CASE MediaExcept
    BY <1>25 DEF MediaExcept, PublishAs, Goto, ExceptionVerdict
  <1>26. CASE Bind /\ UNCHANGED regression
    BY <1>26 DEF Bind
  <1>27. CASE Exit /\ UNCHANGED regression
    BY <1>27 DEF Exit
  <1>28. CASE Reap /\ UNCHANGED regression
    BY <1>28 DEF Reap
  <1>29. CASE ForgetSession /\ UNCHANGED regression
    BY <1>29 DEF ForgetSession
  <1>30. CASE (\E line \in config.media : Log(line)) /\ UNCHANGED regression
    BY <1>30 DEF Log
  <1>31. CASE LogEnds /\ UNCHANGED regression
    BY <1>31 DEF LogEnds
  <1>32. CASE LogFails /\ UNCHANGED regression
    BY <1>32 DEF LogFails
  <1>34. CASE MediaWriteFails
    BY <1>34, RecordNames DEF MediaWriteFails, Raise
  <1>35. CASE MediaCompareFails
    BY <1>35 DEF MediaCompareFails
  <1>33. CASE UNCHANGED allVars
    BY <1>33
  <1> QED
    BY <1>1, <1>2, <1>3, <1>4, <1>5, <1>6, <1>7, <1>8, <1>9, <1>10, <1>11,
       <1>12, <1>13, <1>14, <1>15, <1>16, <1>17, <1>18, <1>19, <1>20, <1>21,
       <1>22, <1>23, <1>24, <1>25, <1>26, <1>27, <1>28, <1>29, <1>30, <1>31,
       <1>32, <1>33, <1>34, <1>35
    DEF Busy, Shared, Regression, Environment

\* The result is written last.
LEMMA MediaFilesStep == RInv /\ [Busy]_allVars => MediaFiles'
  <1> SUFFICES ASSUME RInv, [Busy]_allVars PROVE MediaFiles'
    OBVIOUS
  <1> USE DEF RInv, MediaTypes, MediaFiles, MediaBefore, MediaAgreed,
     MediaClosing, Errors, Identity, allVars, regression, vars, process,
     signaling, control, judgement, files
  <1>1. CASE Spawn /\ UNCHANGED regression
    BY <1>1 DEF Spawn, Goto, Raise
  <1>2. CASE StartFails /\ UNCHANGED regression
    BY <1>2 DEF StartFails, Close, Exited
  <1>3. CASE CheckReady /\ UNCHANGED regression
    BY <1>3 DEF CheckReady, Goto, Exited
  <1>4. CASE Connect /\ UNCHANGED regression
    BY <1>4 DEF Connect, Goto, Server
  <1>5. CASE CreateSession /\ UNCHANGED regression
    BY <1>5 DEF CreateSession, Goto, Raise, Exited, Server
  <1>6. CASE CreateFails /\ UNCHANGED regression
    BY <1>6 DEF CreateFails, Raise
  <1>7. CASE Describe /\ UNCHANGED regression
    BY <1>7 DEF Describe, Goto, Exited, Server
  <1>8. CASE Accept /\ UNCHANGED regression
    BY <1>8 DEF Accept, Goto
  <1>9. CASE NegotiationFails /\ UNCHANGED regression
    BY <1>9 DEF NegotiationFails, Raise
  <1>10. CASE TalkFails /\ UNCHANGED regression
    BY <1>10 DEF TalkFails, Raise
  <1>11. CASE DeleteSession /\ UNCHANGED regression
    BY <1>11 DEF DeleteSession, Server, Close, Raise
  <1>12. CASE CloseEndpoint /\ UNCHANGED regression
    BY <1>12 DEF CloseEndpoint, Goto, Server
  <1>13. CASE Kill /\ UNCHANGED regression
    BY <1>13 DEF Kill, Goto, Exited
  <1>14. CASE Stopped /\ UNCHANGED regression
    BY <1>14 DEF Stopped, Goto, Exited
  <1>15. CASE Drained /\ UNCHANGED regression
    BY <1>15 DEF Drained
  <1>16. CASE after # "next" /\ DrainFails /\ UNCHANGED regression
    BY <1>16 DEF DrainFails
  <1>17. CASE MediaOpen
    BY <1>17 DEF MediaOpen, Goto
  <1>18. CASE MediaLoad
    BY <1>18 DEF MediaLoad, Goto, Found
  <1>19. CASE MediaJudge
    BY <1>19 DEF MediaJudge, Goto, Found, Counts
  <1>20. CASE MediaWrite
    <2>1. evidence' = evidence \cup FirstRecords(3)
      BY <1>20 DEF MediaWrite
    <2>2. FirstRecords(3) \subseteq {"offer.sdp", "answer.sdp", "peer-stats.json"}
      BY RecordNames
    <2>3. pc = "log" /\ pc' = "finally" /\ result' = result
      BY <1>20 DEF MediaWrite, Goto
    <2> QED
      BY <2>1, <2>2, <2>3
  <1>21. CASE MediaClose
    BY <1>21 DEF MediaClose, Close
  <1>22. CASE MediaDrainFails
    BY <1>22 DEF MediaDrainFails
  <1>23. CASE NextCase
    BY <1>23 DEF NextCase, Goto
  <1>24. CASE MediaCompare
    BY <1>24 DEF MediaCompare, PublishAs, Found, Goto
  <1>25. CASE MediaExcept
    BY <1>25 DEF MediaExcept, PublishAs, Goto, ExceptionVerdict
  <1>26. CASE Bind /\ UNCHANGED regression
    BY <1>26 DEF Bind
  <1>27. CASE Exit /\ UNCHANGED regression
    BY <1>27 DEF Exit
  <1>28. CASE Reap /\ UNCHANGED regression
    BY <1>28 DEF Reap
  <1>29. CASE ForgetSession /\ UNCHANGED regression
    BY <1>29 DEF ForgetSession
  <1>30. CASE (\E line \in config.media : Log(line)) /\ UNCHANGED regression
    BY <1>30 DEF Log
  <1>31. CASE LogEnds /\ UNCHANGED regression
    BY <1>31 DEF LogEnds
  <1>32. CASE LogFails /\ UNCHANGED regression
    BY <1>32 DEF LogFails
  <1>34. CASE MediaWriteFails
    <2>1. PICK n \in 0..2 : evidence' = evidence \cup FirstRecords(n)
      BY <1>34 DEF MediaWriteFails
    <2>2. FirstRecords(n) \subseteq {"offer.sdp", "answer.sdp", "peer-stats.json"}
      BY <2>1, RecordNames
    <2>3. pc = "log" /\ pc' = "except" /\ result' = result
      BY <1>34 DEF MediaWriteFails, Raise
    <2> QED
      BY <2>1, <2>2, <2>3
  <1>35. CASE MediaCompareFails
    BY <1>35 DEF MediaCompareFails
  <1>33. CASE UNCHANGED allVars
    BY <1>33
  <1> QED
    BY <1>1, <1>2, <1>3, <1>4, <1>5, <1>6, <1>7, <1>8, <1>9, <1>10, <1>11,
       <1>12, <1>13, <1>14, <1>15, <1>16, <1>17, <1>18, <1>19, <1>20, <1>21,
       <1>22, <1>23, <1>24, <1>25, <1>26, <1>27, <1>28, <1>29, <1>30, <1>31,
       <1>32, <1>33, <1>34, <1>35
    DEF Busy, Shared, Regression, Environment

LEMMA RegressionStep == RInv /\ [Busy]_allVars => RInv'
  BY MediaTypesStep, MediaSessionStep, MediaProcessStep, MediaJudgedStep,
     MediaFilesStep DEF RInv

\* The invariant of all scenarios.
MInv ==
    /\ case \in {0, 1, 2}
    /\ case = 0 => IInv
    /\ case # 0 => RInv

LEMMA MediaCorrect == MediaSpec => []MInv
  <1>1. MediaInit => MInv
    BY Initially, RegressionInitially DEF MediaInit, MInv
  <1>2. MInv /\ [MediaNext]_allVars => MInv'
    <2> SUFFICES ASSUME MInv, [MediaNext]_allVars PROVE MInv'
      OBVIOUS
    <2>1. CASE case = 0
      <3>1. [Next]_vars /\ case' = case
        BY <2>1 DEF MediaNext, allVars, regression
      <3>2. IInv'
        BY <2>1, <3>1, TypeStep, SessionStep, ProcessStep, JudgedStep, FilesStep
           DEF MInv, IInv
      <3> QED
        BY <2>1, <3>1, <3>2 DEF MInv
    <2>2. CASE case # 0
      <3>1. [Busy]_allVars
        BY <2>2 DEF MediaNext, Busy
      <3>2. RInv'
        BY <2>2, <3>1, RegressionStep DEF MInv
      <3> QED
        BY <3>2 DEF MInv, RInv, MediaTypes
    <2> QED
      BY <2>1, <2>2
  <1> QED
    BY <1>1, <1>2, PTL DEF MediaSpec

\* A PASS is about the process the scenario started, in the second case of
\* the media regression as well: only that process logs the media it received
\* (run_media_regression).
THEOREM MediaPassIsOwn == MediaSpec => []OwnProcessJudged
  <1>1. MInv => OwnProcessJudged
    <2> SUFFICES ASSUME MInv, result.verdict = "PASS" PROVE served = "own"
      BY DEF OwnProcessJudged
    <2>1. CASE case = 0
      BY <2>1 DEF MInv, IInv, Session, Judged, Files, None
    <2>2. CASE case # 0
      <3>1. RInv /\ pc = "done" /\ outcome.verdict = "PASS"
        BY <2>2 DEF MInv, RInv, MediaFiles, None
      <3> QED
        BY <3>1 DEF RInv, MediaSession, MediaJudged, Logged
    <2> QED
      BY <2>1, <2>2
  <1> QED
    BY MediaCorrect, <1>1, PTL

\* A PASS is a clean one in the media regression, too: nothing was found in
\* either case, nothing raised, and the session did not outlive its case.
THEOREM MediaPassIsClean == MediaSpec => []CleanPass
  <1>1. MInv => CleanPass
    <2> SUFFICES ASSUME MInv, result.verdict = "PASS"
                 PROVE  /\ found = {} /\ error = "none"
                        /\ negotiated /\ ~session /\ "own" \notin sessions
      BY DEF CleanPass
    <2>1. CASE case = 0
      BY <2>1 DEF MInv, IInv, TypeOK, Session, Process, Judged, Files, None
    <2>2. CASE case # 0
      <3>1. RInv /\ pc = "done" /\ outcome.verdict = "PASS"
        BY <2>2 DEF MInv, RInv, MediaFiles, None
      <3> QED
        BY <3>1 DEF RInv, MediaJudged, Gone
    <2> QED
      BY <2>1, <2>2
  <1> QED
    BY MediaCorrect, <1>1, PTL

-----------------------------------------------------------------------------
(* The contract of the evidence directory.                                 *)

\* A step of the regression only adds to the evidence.
LEMMA RegressionGrows ==
    ASSUME [Busy]_allVars PROVE Collected \subseteq Collected'
  <1> USE DEF Collected, allVars, regression, vars, process, signaling,
     control, judgement, files
  <1>1. CASE Spawn /\ UNCHANGED regression
    BY <1>1 DEF Spawn, Goto, Raise
  <1>2. CASE StartFails /\ UNCHANGED regression
    BY <1>2 DEF StartFails, Close, Exited
  <1>3. CASE CheckReady /\ UNCHANGED regression
    BY <1>3 DEF CheckReady, Goto, Exited
  <1>4. CASE Connect /\ UNCHANGED regression
    BY <1>4 DEF Connect, Goto, Server
  <1>5. CASE CreateSession /\ UNCHANGED regression
    BY <1>5 DEF CreateSession, Goto, Raise, Exited, Server
  <1>6. CASE CreateFails /\ UNCHANGED regression
    BY <1>6 DEF CreateFails, Raise
  <1>7. CASE Describe /\ UNCHANGED regression
    BY <1>7 DEF Describe, Goto, Exited, Server
  <1>8. CASE Accept /\ UNCHANGED regression
    BY <1>8 DEF Accept, Goto
  <1>9. CASE NegotiationFails /\ UNCHANGED regression
    BY <1>9 DEF NegotiationFails, Raise
  <1>10. CASE TalkFails /\ UNCHANGED regression
    BY <1>10 DEF TalkFails, Raise
  <1>11. CASE DeleteSession /\ UNCHANGED regression
    BY <1>11 DEF DeleteSession, Server, Close, Raise
  <1>12. CASE CloseEndpoint /\ UNCHANGED regression
    BY <1>12 DEF CloseEndpoint, Goto, Server
  <1>13. CASE Kill /\ UNCHANGED regression
    BY <1>13 DEF Kill, Goto, Exited
  <1>14. CASE Stopped /\ UNCHANGED regression
    BY <1>14 DEF Stopped, Goto, Exited
  <1>15. CASE Drained /\ UNCHANGED regression
    BY <1>15 DEF Drained
  <1>16. CASE after # "next" /\ DrainFails /\ UNCHANGED regression
    BY <1>16 DEF DrainFails
  <1>17. CASE MediaOpen
    BY <1>17 DEF MediaOpen, Goto
  <1>18. CASE MediaLoad
    BY <1>18 DEF MediaLoad, Goto, Found
  <1>19. CASE MediaJudge
    BY <1>19 DEF MediaJudge, Goto, Found, Counts
  <1>20. CASE MediaWrite
    BY <1>20, RecordNames DEF MediaWrite, Goto, Found
  <1>21. CASE MediaClose
    BY <1>21 DEF MediaClose, Close
  <1>22. CASE MediaDrainFails
    BY <1>22 DEF MediaDrainFails
  <1>23. CASE NextCase
    BY <1>23 DEF NextCase, Goto
  <1>24. CASE MediaCompare
    BY <1>24 DEF MediaCompare, PublishAs, Found, Goto
  <1>25. CASE MediaExcept
    BY <1>25 DEF MediaExcept, PublishAs, Goto, ExceptionVerdict
  <1>26. CASE Bind /\ UNCHANGED regression
    BY <1>26 DEF Bind
  <1>27. CASE Exit /\ UNCHANGED regression
    BY <1>27 DEF Exit
  <1>28. CASE Reap /\ UNCHANGED regression
    BY <1>28 DEF Reap
  <1>29. CASE ForgetSession /\ UNCHANGED regression
    BY <1>29 DEF ForgetSession
  <1>30. CASE (\E line \in config.media : Log(line)) /\ UNCHANGED regression
    BY <1>30 DEF Log
  <1>31. CASE LogEnds /\ UNCHANGED regression
    BY <1>31 DEF LogEnds
  <1>32. CASE LogFails /\ UNCHANGED regression
    BY <1>32 DEF LogFails
  <1>34. CASE MediaWriteFails
    BY <1>34, RecordNames DEF MediaWriteFails, Raise
  <1>35. CASE MediaCompareFails
    BY <1>35 DEF MediaCompareFails
  <1>33. CASE UNCHANGED allVars
    BY <1>33
  <1> QED
    BY <1>1, <1>2, <1>3, <1>4, <1>5, <1>6, <1>7, <1>8, <1>9, <1>10, <1>11,
       <1>12, <1>13, <1>14, <1>15, <1>16, <1>17, <1>18, <1>19, <1>20, <1>21,
       <1>22, <1>23, <1>24, <1>25, <1>26, <1>27, <1>28, <1>29, <1>30, <1>31,
       <1>32, <1>33, <1>34, <1>35
    DEF Busy, Shared, Regression, Environment

\* Only the ends of the regression write a result.
LEMMA RegressionSilent ==
    ASSUME [Busy]_allVars, ~MediaCompare, ~MediaExcept PROVE result' = result
  <1> USE DEF allVars, regression, vars, process, signaling, control,
     judgement, files
  <1>1. CASE Spawn /\ UNCHANGED regression
    BY <1>1 DEF Spawn, Goto, Raise
  <1>2. CASE StartFails /\ UNCHANGED regression
    BY <1>2 DEF StartFails, Close, Exited
  <1>3. CASE CheckReady /\ UNCHANGED regression
    BY <1>3 DEF CheckReady, Goto, Exited
  <1>4. CASE Connect /\ UNCHANGED regression
    BY <1>4 DEF Connect, Goto, Server
  <1>5. CASE CreateSession /\ UNCHANGED regression
    BY <1>5 DEF CreateSession, Goto, Raise, Exited, Server
  <1>6. CASE CreateFails /\ UNCHANGED regression
    BY <1>6 DEF CreateFails, Raise
  <1>7. CASE Describe /\ UNCHANGED regression
    BY <1>7 DEF Describe, Goto, Exited, Server
  <1>8. CASE Accept /\ UNCHANGED regression
    BY <1>8 DEF Accept, Goto
  <1>9. CASE NegotiationFails /\ UNCHANGED regression
    BY <1>9 DEF NegotiationFails, Raise
  <1>10. CASE TalkFails /\ UNCHANGED regression
    BY <1>10 DEF TalkFails, Raise
  <1>11. CASE DeleteSession /\ UNCHANGED regression
    BY <1>11 DEF DeleteSession, Server, Close, Raise
  <1>12. CASE CloseEndpoint /\ UNCHANGED regression
    BY <1>12 DEF CloseEndpoint, Goto, Server
  <1>13. CASE Kill /\ UNCHANGED regression
    BY <1>13 DEF Kill, Goto, Exited
  <1>14. CASE Stopped /\ UNCHANGED regression
    BY <1>14 DEF Stopped, Goto, Exited
  <1>15. CASE Drained /\ UNCHANGED regression
    BY <1>15 DEF Drained
  <1>16. CASE after # "next" /\ DrainFails /\ UNCHANGED regression
    BY <1>16 DEF DrainFails
  <1>17. CASE MediaOpen
    BY <1>17 DEF MediaOpen, Goto
  <1>18. CASE MediaLoad
    BY <1>18 DEF MediaLoad, Goto, Found
  <1>19. CASE MediaJudge
    BY <1>19 DEF MediaJudge, Goto, Found, Counts
  <1>20. CASE MediaWrite
    BY <1>20, RecordNames DEF MediaWrite, Goto, Found
  <1>21. CASE MediaClose
    BY <1>21 DEF MediaClose, Close
  <1>22. CASE MediaDrainFails
    BY <1>22 DEF MediaDrainFails
  <1>23. CASE NextCase
    BY <1>23 DEF NextCase, Goto
  <1>24. CASE Bind /\ UNCHANGED regression
    BY <1>24 DEF Bind
  <1>25. CASE Exit /\ UNCHANGED regression
    BY <1>25 DEF Exit
  <1>26. CASE Reap /\ UNCHANGED regression
    BY <1>26 DEF Reap
  <1>27. CASE ForgetSession /\ UNCHANGED regression
    BY <1>27 DEF ForgetSession
  <1>28. CASE (\E line \in config.media : Log(line)) /\ UNCHANGED regression
    BY <1>28 DEF Log
  <1>29. CASE LogEnds /\ UNCHANGED regression
    BY <1>29 DEF LogEnds
  <1>30. CASE LogFails /\ UNCHANGED regression
    BY <1>30 DEF LogFails
  <1>32. CASE MediaWriteFails
    BY <1>32, RecordNames DEF MediaWriteFails, Raise
  <1>33. CASE MediaCompareFails
    BY <1>33 DEF MediaCompareFails
  <1>31. CASE UNCHANGED allVars
    BY <1>31
  <1> QED
    BY <1>1, <1>2, <1>3, <1>4, <1>5, <1>6, <1>7, <1>8, <1>9, <1>10, <1>11,
       <1>12, <1>13, <1>14, <1>15, <1>16, <1>17, <1>18, <1>19, <1>20, <1>21,
       <1>22, <1>23, <1>24, <1>25, <1>26, <1>27, <1>28, <1>29, <1>30, <1>31,
       <1>32, <1>33 DEF Busy, Shared, Regression, Environment

\* Once it is written nothing moves, except what a browser that does not close
\* has left behind: its process, and the log of that.
LEMMA RegressionFinished ==
    ASSUME RInv, [Busy]_allVars, pc = "done"
    PROVE  /\ UNCHANGED <<evidence, peerOpen, result>>
           /\ log \subseteq log'
           /\ ~FragileBrowser =>
                 UNCHANGED <<log, own = "running", logTask = "reading">>
  <1> USE DEF RInv, MediaTypes, MediaProcess, allVars, regression, vars,
     process, signaling, control, judgement, files
  <1>1. CASE Spawn /\ UNCHANGED regression
    BY <1>1 DEF Spawn, Goto, Raise
  <1>2. CASE StartFails /\ UNCHANGED regression
    BY <1>2 DEF StartFails, Close, Exited
  <1>3. CASE CheckReady /\ UNCHANGED regression
    BY <1>3 DEF CheckReady, Goto, Exited
  <1>4. CASE Connect /\ UNCHANGED regression
    BY <1>4 DEF Connect, Goto, Server
  <1>5. CASE CreateSession /\ UNCHANGED regression
    BY <1>5 DEF CreateSession, Goto, Raise, Exited, Server
  <1>6. CASE CreateFails /\ UNCHANGED regression
    BY <1>6 DEF CreateFails, Raise
  <1>7. CASE Describe /\ UNCHANGED regression
    BY <1>7 DEF Describe, Goto, Exited, Server
  <1>8. CASE Accept /\ UNCHANGED regression
    BY <1>8 DEF Accept, Goto
  <1>9. CASE NegotiationFails /\ UNCHANGED regression
    BY <1>9 DEF NegotiationFails, Raise
  <1>10. CASE TalkFails /\ UNCHANGED regression
    BY <1>10 DEF TalkFails, Raise
  <1>11. CASE DeleteSession /\ UNCHANGED regression
    BY <1>11 DEF DeleteSession, Server, Close, Raise
  <1>12. CASE CloseEndpoint /\ UNCHANGED regression
    BY <1>12 DEF CloseEndpoint, Goto, Server
  <1>13. CASE Kill /\ UNCHANGED regression
    BY <1>13 DEF Kill, Goto, Exited
  <1>14. CASE Stopped /\ UNCHANGED regression
    BY <1>14 DEF Stopped, Goto, Exited
  <1>15. CASE Drained /\ UNCHANGED regression
    BY <1>15 DEF Drained
  <1>16. CASE after # "next" /\ DrainFails /\ UNCHANGED regression
    BY <1>16 DEF DrainFails
  <1>17. CASE MediaOpen
    BY <1>17 DEF MediaOpen, Goto
  <1>18. CASE MediaLoad
    BY <1>18 DEF MediaLoad, Goto, Found
  <1>19. CASE MediaJudge
    BY <1>19 DEF MediaJudge, Goto, Found, Counts
  <1>20. CASE MediaWrite
    BY <1>20, RecordNames DEF MediaWrite, Goto, Found
  <1>21. CASE MediaClose
    BY <1>21 DEF MediaClose, Close
  <1>22. CASE MediaDrainFails
    BY <1>22 DEF MediaDrainFails
  <1>23. CASE NextCase
    BY <1>23 DEF NextCase, Goto
  <1>24. CASE MediaCompare
    BY <1>24 DEF MediaCompare, PublishAs, Found, Goto
  <1>25. CASE MediaExcept
    BY <1>25 DEF MediaExcept, PublishAs, Goto, ExceptionVerdict
  <1>26. CASE Bind /\ UNCHANGED regression
    BY <1>26 DEF Bind
  <1>27. CASE Exit /\ UNCHANGED regression
    BY <1>27 DEF Exit
  <1>28. CASE Reap /\ UNCHANGED regression
    BY <1>28 DEF Reap
  <1>29. CASE ForgetSession /\ UNCHANGED regression
    BY <1>29 DEF ForgetSession
  <1>30. CASE (\E line \in config.media : Log(line)) /\ UNCHANGED regression
    BY <1>30 DEF Log
  <1>31. CASE LogEnds /\ UNCHANGED regression
    BY <1>31 DEF LogEnds
  <1>32. CASE LogFails /\ UNCHANGED regression
    BY <1>32 DEF LogFails
  <1>34. CASE MediaWriteFails
    BY <1>34, RecordNames DEF MediaWriteFails, Raise
  <1>35. CASE MediaCompareFails
    BY <1>35 DEF MediaCompareFails
  <1>33. CASE UNCHANGED allVars
    BY <1>33
  <1> QED
    BY <1>1, <1>2, <1>3, <1>4, <1>5, <1>6, <1>7, <1>8, <1>9, <1>10, <1>11,
       <1>12, <1>13, <1>14, <1>15, <1>16, <1>17, <1>18, <1>19, <1>20, <1>21,
       <1>22, <1>23, <1>24, <1>25, <1>26, <1>27, <1>28, <1>29, <1>30, <1>31,
       <1>32, <1>33, <1>34, <1>35
    DEF Busy, Shared, Regression, Environment

LEMMA RegressionKeepsContract ==
    ASSUME ~FragileBrowser, RInv, RInv', [Busy]_allVars
    PROVE  [Contract!Next]_(Contract!vars)
  <1> DEFINE alive == own = "running" \/ logTask = "reading" \/ peerOpen
  <1>1. CASE pc = "done"
    BY <1>1, RegressionFinished DEF Contract!vars, Collected
  <1>2. CASE pc # "done" /\ (MediaCompare \/ MediaExcept)
    <2>1. result.verdict = "none" /\ result'.verdict \in {"PASS", "FAIL", "INFRA_ERROR"}
      <3>1. result' = outcome' /\ outcome'.verdict \in {"PASS", "FAIL", "INFRA_ERROR"}
        BY <1>2 DEF RInv, MediaTypes, MediaCompare, MediaExcept, PublishAs
      <3> QED
        BY <1>2, <3>1 DEF RInv, MediaFiles, None
    <2>2. ~alive
      BY <1>2 DEF RInv, MediaProcess, MediaCompare, MediaExcept
    <2>3. /\ Collected' = Collected \cup {"result.json"}
          /\ UNCHANGED <<own, logTask, peerOpen>>
      BY <1>2 DEF MediaCompare, MediaExcept, PublishAs, Collected, process
    <2> QED
      BY <2>1, <2>2, <2>3 DEF Contract!Next, Contract!Publish
  <1>3. CASE pc # "done" /\ ~MediaCompare /\ ~MediaExcept
    <2>1. result = None /\ result' = None
      BY <1>3, RegressionSilent DEF RInv, MediaFiles
    <2>2. pc' # "done"
      BY <2>1 DEF RInv, MediaTypes, MediaFiles, None
    <2>3. /\ Collected' \subseteq Identity \cup {"offer.sdp", "answer.sdp",
              "peer-stats.json", "sent-manifest.json", "received-manifest.json",
              "events.ndjson", "baresip.log", "ice", "dtls", "audio", "video"}
          /\ "result.json" \notin Collected'
      BY <2>2 DEF RInv, MediaTypes, MediaFiles, Collected
    <2>4. alive' \in BOOLEAN
      OBVIOUS
    <2>5. Collected \subseteq Collected'
      BY RegressionGrows
    <2> QED
      BY <2>1, <2>3, <2>4, <2>5, RecordNames DEF Contract!Next, Contract!Collect, None
  <1> QED
    BY <1>1, <1>2, <1>3

\* Where the browser closes, the media regression implements the contract of
\* the evidence directory as the other scenarios do.  (Where it does not, a
\* process is left that still writes: see Immutable.)
THEOREM MediaRefinement ==
    ASSUME ~FragileBrowser PROVE MediaSpec => ImplementsContract
  <1>1. MediaInit => Contract!Init
    BY ContractInit DEF MediaInit
  <1>2. MInv /\ MInv' /\ [MediaNext]_allVars => [Contract!Next]_(Contract!vars)
    <2> SUFFICES ASSUME MInv, MInv', [MediaNext]_allVars
                 PROVE  [Contract!Next]_(Contract!vars)
      OBVIOUS
    <2>1. CASE case = 0
      <3>1. [Next]_vars /\ case' = case
        BY <2>1 DEF MediaNext, allVars, regression
      <3> QED
        BY <2>1, <3>1, ContractStep DEF MInv
    <2>2. CASE case # 0
      <3>1. [Busy]_allVars /\ case' # 0
        BY <2>2, RegressionStep DEF MediaNext, Busy, MInv, RInv, MediaTypes
      <3> QED
        BY <2>2, <3>1, RegressionKeepsContract DEF MInv
    <2> QED
      BY <2>1, <2>2
  <1> QED
    BY MediaCorrect, <1>1, <1>2, PTL
       DEF MediaSpec, ImplementsContract, Contract!Spec

\* Where the browser closes, nothing is added to a scenario directory after
\* its result.json is written (docs/evidence-schema.md): not by what the
\* scenario still does, and not by the process and its log either.
THEOREM MediaIsImmutable ==
    ASSUME ~FragileBrowser PROVE MediaSpec => Immutable
  <1>1. MInv /\ [MediaNext]_allVars => [result # None => Collected' = Collected]_allVars
    <2> SUFFICES ASSUME MInv, [MediaNext]_allVars, result # None
                 PROVE  Collected' = Collected
      OBVIOUS
    <2>1. CASE case = 0
      <3>1. [Next]_vars
        BY <2>1 DEF MediaNext, allVars
      <3>2. pc = "done"
        BY <2>1 DEF MInv, IInv, Files
      <3> QED
        BY <2>1, <3>1, <3>2, Finished DEF MInv, Collected
    <2>2. CASE case # 0
      <3>1. [Busy]_allVars
        BY <2>2 DEF MediaNext, Busy
      <3>2. pc = "done"
        BY <2>2 DEF MInv, RInv, MediaFiles
      <3> QED
        BY <2>2, <3>1, <3>2, RegressionFinished DEF MInv, Collected
    <2> QED
      BY <2>1, <2>2
  <1> QED
    BY MediaCorrect, <1>1, PTL DEF MediaSpec, Immutable

\* Even where the browser does not close, a verdict once written is never
\* replaced, no file of the harness is added to it or taken away, and the log
\* that was captured is not lost: all that can still happen is that a process
\* left behind logs more (run_media_regression).
THEOREM MediaVerdictStays ==
    MediaSpec => [][result # None =>
                       UNCHANGED <<result, evidence>> /\ log \subseteq log']_allVars
  <1> DEFINE Stays == UNCHANGED <<result, evidence>> /\ log \subseteq log'
  <1>1. MInv /\ [MediaNext]_allVars => [result # None => Stays]_allVars
    <2> SUFFICES ASSUME MInv, [MediaNext]_allVars, result # None
                 PROVE  Stays
      OBVIOUS
    <2>1. CASE case = 0
      <3>1. [Next]_vars
        BY <2>1 DEF MediaNext, allVars
      <3>2. pc = "done"
        BY <2>1 DEF MInv, IInv, Files
      <3> QED
        BY <2>1, <3>1, <3>2, Finished DEF MInv
    <2>2. CASE case # 0
      <3>1. [Busy]_allVars
        BY <2>2 DEF MediaNext, Busy
      <3>2. pc = "done"
        BY <2>2 DEF MInv, RInv, MediaFiles
      <3> QED
        BY <2>2, <3>1, <3>2, RegressionFinished DEF MInv
    <2> QED
      BY <2>1, <2>2
  <1> QED
    BY MediaCorrect, <1>1, PTL DEF MediaSpec

=============================================================================
