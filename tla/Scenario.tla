------------------------------ MODULE Scenario ------------------------------
(***************************************************************************)
(* One product scenario (acceptance/product.py run_product_scenario) and   *)
(* the baresip process it drives (acceptance/baresip_endpoint.py).  The    *)
(* harness is one coroutine; baresip is started by it, listens for         *)
(* signaling requests on a fixed port of this host, and may exit, forget   *)
(* the session or answer badly whenever it likes.  Another process may be  *)
(* listening on the port already.                                          *)
(*                                                                         *)
(* What the peers say to each other is left out: an exchange matches, does *)
(* not match, or ends in an exception.                                     *)
(***************************************************************************)
EXTENDS Naturals, FiniteSets, Sequences

CONSTANTS
    AllowForeign,    \* whether another process may hold the port
    FragileCleanup   \* whether closing the peer and capturing the log can fail

ASSUME ScenarioAssumption ==
    /\ AllowForeign \in BOOLEAN
    /\ FragileCleanup \in BOOLEAN

VARIABLES
    config,      \* the kind of scenario
    foreign,     \* whether another process listens on the port
    own,         \* the process started: "none", "running", "dead" or, once
                 \* the harness has its return code, "reaped"
    bound,       \* whether it listens on the port
    killed,      \* whether it was sent SIGKILL
    logTask,     \* the task that captures its output
    log,         \* what of interest it has captured
    sessions,    \* the processes that hold a session of this scenario
    served,      \* the process that created the session
    peerOpen,    \* whether the peer was started and is still to be closed
    pc,          \* where the scenario is
    after,       \* where it goes when the endpoint is closed
    error,       \* the exception under way
    negotiated,  \* whether both descriptions were exchanged
    session,     \* whether the endpoint has a session to delete
    failures,    \* the oracle failures collected so far
    outcome,     \* what result.json will say
    evidence,    \* the files written
    result,      \* result.json, "none" when there is no such file
    found        \* history: every oracle failure there was

process == <<own, bound, killed, logTask, log>>
signaling == <<sessions, served, session>>
control == <<pc, after, error>>
judgement == <<negotiated, failures, outcome, found>>
files == <<evidence, result>>
vars == <<config, foreign, process, signaling, peerOpen, control, judgement,
          files>>

Reports == [verdict : {"PASS", "FAIL", "INFRA_ERROR"}, failures : SUBSET
    {"transcript", "transport", "sdp", "ice", "dtls", "rtp", "exception",
     "incomplete"}]
None == [verdict |-> "none", failures |-> {}]

\* Written before the scenario starts anything.
Identity == {"command.txt", "scenario.json", "versions.json"}

\* Written when everything is judged, in this order.
Records == <<"offer.sdp", "answer.sdp", "peer-stats.json",
    "sent-manifest.json", "received-manifest.json", "events.ndjson">>
FirstRecords(n) == {Records[i] : i \in 1..n}

\* The kinds of media a scenario may have.
Configs == [offerer : BOOLEAN, browser : BOOLEAN, extra : BOOLEAN,
            media : {{}, {"audio"}, {"audio", "video"}}]

Init ==
    /\ config \in Configs
    /\ config.browser => ~config.offerer
    /\ config.extra => ~config.browser /\ config.media = {}
    /\ foreign \in {FALSE, AllowForeign}
    /\ own = "none" /\ bound = FALSE /\ killed = FALSE
    /\ logTask = "none" /\ log = {}
    /\ sessions = {} /\ served = "none" /\ session = FALSE
    /\ peerOpen = FALSE
    /\ pc = "spawn" /\ after = "except" /\ error = "none"
    /\ negotiated = FALSE /\ failures = {} /\ found = {}
    /\ outcome = [verdict |-> "INFRA_ERROR", failures |-> {"incomplete"}]
    /\ evidence = Identity
    /\ result = None

-----------------------------------------------------------------------------
(* The control flow of the coroutine.                                      *)

Goto(place) == pc' = place /\ UNCHANGED <<after, error>>

\* An exception on the way to the except clause; a timeout is told apart.
Errors == {"timeout", "other"}
Raise(e) == error' = e /\ pc' = "except" /\ UNCHANGED after

Close(place) == pc' = "close" /\ after' = place

\* Whoever is listening serves the request.
Server == IF own = "running" /\ bound THEN "own"
          ELSE IF foreign THEN "foreign" ELSE "none"

\* _check_process: the harness has learned that the process is gone.
Exited == own = "reaped"

Found(F) == failures' = failures \cup F /\ found' = found \cup F

-----------------------------------------------------------------------------
(* Starting baresip and negotiating.                                       *)

Spawn ==
    /\ pc = "spawn"
    /\ \/ /\ own' = "running" /\ logTask' = "reading"
          /\ evidence' = evidence \cup {"baresip.log"}
          /\ Goto("check")
       \/ /\ Raise("other")
          /\ UNCHANGED <<own, logTask, evidence>>
    /\ UNCHANGED <<config, foreign, bound, killed, log, signaling, peerOpen,
                   judgement, result>>

\* start closes the endpoint and raises when the process exits or the
\* deadline passes before anybody accepts a connection on the port.
StartFails ==
    /\ pc \in {"check", "connect"}
    /\ error' \in IF pc = "check" /\ Exited THEN {"other"} ELSE {"timeout"}
    /\ Close("except")
    /\ UNCHANGED <<config, foreign, process, signaling, peerOpen, judgement,
                   files>>

CheckReady ==
    /\ pc = "check"
    /\ ~Exited
    /\ Goto("connect")
    /\ UNCHANGED <<config, foreign, process, signaling, peerOpen, judgement,
                   files>>

\* Any listener will do.  The peer is started next.
Connect ==
    /\ pc = "connect"
    /\ IF Server = "none"
       THEN Goto("check") /\ UNCHANGED peerOpen
       ELSE Goto("create") /\ peerOpen' = TRUE
    /\ UNCHANGED <<config, foreign, process, signaling, judgement, files>>

\* The first request, after the peer has made its offer unless baresip makes
\* it: it creates a session, whether or not the response arrives and is good.
CreateSession ==
    /\ pc = "create"
    /\ ~Exited
    /\ Server # "none"
    /\ sessions' = sessions \cup {Server}
    /\ served' = Server
    /\ \/ Goto("describe") /\ session' = config.offerer
       \/ /\ \E e \in Errors : Raise(e)
          /\ session' \in {FALSE, config.offerer}
    /\ UNCHANGED <<config, foreign, process, peerOpen, judgement, files>>

\* The peer fails, baresip has exited, refuses or does not answer.
CreateFails ==
    /\ pc = "create"
    /\ \E e \in Errors : Raise(e)
    /\ UNCHANGED <<config, foreign, process, signaling, peerOpen, judgement,
                   files>>

\* The second request carries the peer's description to the session.  Here
\* the answering endpoint gets to know the session; then the process is
\* checked once more.
Describe ==
    /\ pc = "describe"
    /\ Server = served /\ served \in sessions
    /\ ~Exited
    /\ session' = TRUE
    /\ IF config.offerer
       THEN negotiated' = TRUE /\ Goto("open")
       ELSE Goto("accept") /\ UNCHANGED negotiated
    /\ UNCHANGED <<config, foreign, process, sessions, served, peerOpen,
                   failures, outcome, found, files>>

\* The peer takes the answer.
Accept ==
    /\ pc = "accept"
    /\ negotiated' = TRUE
    /\ Goto("open")
    /\ UNCHANGED <<config, foreign, process, signaling, peerOpen, failures,
                   outcome, found, files>>

NegotiationFails ==
    /\ pc \in {"describe", "accept"}
    /\ \E e \in Errors : Raise(e)
    /\ UNCHANGED <<config, foreign, process, signaling, peerOpen, judgement,
                   files>>

-----------------------------------------------------------------------------
(* Talking to baresip and judging it.                                      *)

\* The channel opens, and one more for baresip to open in some scenarios;
\* that takes a live session.
Open ==
    /\ pc \in {"open", "extra"}
    /\ served \in sessions
    /\ pc = "extra" => Server = served /\ ~Exited
    /\ Goto(IF pc = "open" /\ config.extra THEN "extra" ELSE "exchange")
    /\ UNCHANGED <<config, foreign, process, signaling, peerOpen, judgement,
                   files>>

Exchange ==
    /\ pc = "exchange"
    /\ served \in sessions
    /\ \E F \in SUBSET {"transcript"} : Found(F)
    /\ Goto("judge")
    /\ UNCHANGED <<config, foreign, process, signaling, peerOpen, negotiated,
                   outcome, files>>

\* Statistics, transcripts and descriptions are judged.
JudgePeers ==
    /\ pc = "judge"
    /\ \E F \in SUBSET {"transport", "sdp"} : Found(F)
    /\ Goto("delete")
    /\ UNCHANGED <<config, foreign, process, signaling, peerOpen, negotiated,
                   outcome, files>>

\* Deadlines pass, the peer objects, baresip refuses.
TalkFails ==
    /\ pc \in {"open", "extra", "exchange", "judge"}
    /\ \E e \in Errors : Raise(e)
    /\ UNCHANGED <<config, foreign, process, signaling, peerOpen, judgement,
                   files>>

\* delete_session forgets the session before it asks for its deletion, which
\* may be refused because baresip has closed it.
DeleteSession ==
    /\ pc = "delete"
    /\ session' = FALSE
    /\ \/ /\ Server = served /\ served \in sessions
          /\ sessions' = sessions \ {served}
          /\ Close("log") /\ UNCHANGED error
       \/ /\ \E e \in Errors : Raise(e)
          /\ sessions' \in {sessions, sessions \ {Server}}
    /\ UNCHANGED <<config, foreign, process, served, peerOpen, judgement,
                   files>>

\* Faulty variant of ReadLog: a missing line is not a failure.
ReadLogTrusting ==
    /\ pc = "log"
    /\ Goto("write")
    /\ UNCHANGED <<config, foreign, process, signaling, peerOpen, judgement,
                   files>>

\* What baresip must have logged about ICE and DTLS, and about the RTP of
\* every kind of media.
ReadLog ==
    /\ pc = "log"
    /\ Found(({"ice", "dtls"} \ log) \cup
             (IF config.media \subseteq log THEN {} ELSE {"rtp"}))
    /\ Goto("write")
    /\ UNCHANGED <<config, foreign, process, signaling, peerOpen, negotiated,
                   outcome, files>>

\* The log cannot be read, or one of the records cannot be written.
RecordsFail ==
    /\ \/ pc = "log" /\ UNCHANGED evidence
       \/ /\ pc = "write"
          /\ \E n \in 0..5 : evidence' = evidence \cup FirstRecords(n)
    /\ Raise("other")
    /\ UNCHANGED <<config, foreign, process, signaling, peerOpen, judgement,
                   result>>

WriteEvidence ==
    /\ pc = "write"
    /\ evidence' = evidence \cup FirstRecords(6)
    /\ outcome' = [verdict |-> IF failures = {} THEN "PASS" ELSE "FAIL",
                   failures |-> failures]
    /\ Goto("finally")
    /\ UNCHANGED <<config, foreign, process, signaling, peerOpen, negotiated,
                   failures, found, result>>

\* A timeout is the product's failure once the peers have negotiated.
ExceptionVerdict ==
    IF negotiated /\ error = "timeout" THEN "FAIL" ELSE "INFRA_ERROR"

\* Faulty variant of Except: the oracles have the last word.
ExceptForgives ==
    /\ pc = "except"
    /\ outcome' = [verdict |-> IF negotiated /\ failures = {} THEN "PASS"
                              ELSE ExceptionVerdict,
                   failures |-> failures]
    /\ Goto("finally")
    /\ UNCHANGED <<config, foreign, process, signaling, peerOpen, negotiated,
                   failures, found, files>>

\* The exception replaces whatever the oracles have found.
Except ==
    /\ pc = "except"
    /\ outcome' = [verdict |-> ExceptionVerdict, failures |-> {"exception"}]
    /\ Goto("finally")
    /\ UNCHANGED <<config, foreign, process, signaling, peerOpen, negotiated,
                   failures, found, files>>

-----------------------------------------------------------------------------
(* Cleaning up.                                                            *)

\* Faulty variant of ClosePeer: the endpoint is not closed again.
ClosePeerOnly ==
    /\ pc = "finally"
    /\ peerOpen' = FALSE
    /\ Goto("publish")
    /\ UNCHANGED <<config, foreign, process, signaling, judgement, files>>

\* The peer is closed first; if that raises, nothing else is cleaned up.
ClosePeer ==
    /\ pc = "finally"
    /\ \/ peerOpen' = FALSE /\ Close("publish") /\ UNCHANGED error
       \/ FragileCleanup /\ peerOpen /\ Goto("raised") /\ UNCHANGED peerOpen
    /\ UNCHANGED <<config, foreign, process, signaling, judgement, files>>

\* close deletes the session if there is one, whatever the answer, and
\* terminates the process if the harness does not know it is gone.
CloseEndpoint ==
    /\ pc = "close"
    /\ session' = FALSE
    /\ sessions' \in IF session THEN {sessions, sessions \ {Server}} ELSE {sessions}
    /\ Goto(IF own \in {"running", "dead"} THEN "stopping" ELSE "drain")
    /\ UNCHANGED <<config, foreign, process, served, peerOpen, judgement,
                   files>>

\* Faulty variant of Kill: SIGTERM has to do.
KillNever == FALSE

\* The process had five seconds to follow SIGTERM.
Kill ==
    /\ pc = "stopping"
    /\ ~Exited
    /\ killed' = TRUE
    /\ Goto("killing")
    /\ UNCHANGED <<config, foreign, own, bound, logTask, log, signaling,
                   peerOpen, judgement, files>>

Stopped ==
    /\ pc \in {"stopping", "killing"}
    /\ Exited
    /\ Goto("drain")
    /\ UNCHANGED <<config, foreign, process, signaling, peerOpen, judgement,
                   files>>

\* The log is complete when its task has ended; close forgets the process.
Drained ==
    /\ pc = "drain"
    /\ logTask \in {"none", "ended"}
    /\ logTask' = "none"
    /\ own' = "none"
    /\ pc' = after
    /\ UNCHANGED <<config, foreign, bound, killed, log, signaling, peerOpen,
                   after, error, judgement, files>>

\* The log task had failed, and its exception is raised by every close.
DrainFails ==
    /\ pc = "drain"
    /\ logTask = "failed"
    /\ error' = "other"
    /\ pc' = IF after = "publish" THEN "raised" ELSE "except"
    /\ UNCHANGED <<config, foreign, process, signaling, peerOpen, after,
                   judgement, files>>

\* result.json comes last.
Publish ==
    /\ pc = "publish"
    /\ result' = outcome
    /\ evidence' = evidence \cup {"result.json"}
    /\ Goto("done")
    /\ UNCHANGED <<config, foreign, process, signaling, peerOpen, judgement>>

-----------------------------------------------------------------------------
(* baresip and the log.                                                    *)

Bind ==
    /\ own = "running" /\ ~bound /\ ~foreign
    /\ bound' = TRUE
    /\ UNCHANGED <<config, foreign, own, killed, logTask, log, signaling,
                   peerOpen, control, judgement, files>>

Exit ==
    /\ own = "running"
    /\ own' = "dead" /\ bound' = FALSE
    /\ sessions' = sessions \ {"own"}
    /\ UNCHANGED <<config, foreign, killed, logTask, log, served, session,
                   peerOpen, control, judgement, files>>

\* The event loop of the harness learns of the exit.
Reap ==
    /\ own = "dead"
    /\ own' = "reaped"
    /\ UNCHANGED <<config, foreign, bound, killed, logTask, log, signaling,
                   peerOpen, control, judgement, files>>

ForgetSession ==
    /\ "own" \in sessions
    /\ sessions' = sessions \ {"own"}
    /\ UNCHANGED <<config, foreign, process, served, session, peerOpen,
                   control, judgement, files>>

\* baresip logs its progress with a session it holds.
Log(line) ==
    /\ own = "running" /\ "own" \in sessions
    /\ logTask = "reading"
    /\ log' = log \cup {line}
    /\ UNCHANGED <<config, foreign, own, bound, killed, logTask, signaling,
                   peerOpen, control, judgement, files>>

LogEnds ==
    /\ logTask = "reading"
    /\ own \in {"dead", "reaped"}
    /\ logTask' = "ended"
    /\ UNCHANGED <<config, foreign, own, bound, killed, log, signaling,
                   peerOpen, control, judgement, files>>

\* An overlong line or a full disk.
LogFails ==
    /\ FragileCleanup
    /\ logTask = "reading"
    /\ logTask' = "failed"
    /\ UNCHANGED <<config, foreign, own, bound, killed, log, signaling,
                   peerOpen, control, judgement, files>>

-----------------------------------------------------------------------------
Coroutine ==
    \/ Spawn \/ StartFails \/ CheckReady \/ Connect
    \/ CreateSession \/ CreateFails \/ Describe \/ Accept \/ NegotiationFails
    \/ Open \/ Exchange \/ JudgePeers \/ TalkFails
    \/ DeleteSession \/ ReadLog \/ RecordsFail \/ WriteEvidence \/ Except
    \/ ClosePeer \/ CloseEndpoint \/ Kill \/ Stopped \/ Drained \/ DrainFails
    \/ Publish

Next ==
    \/ Coroutine
    \/ Bind \/ Exit \/ Reap \/ ForgetSession
    \/ (\E line \in {"ice", "dtls"} \cup config.media : Log(line))
    \/ LogEnds \/ LogFails

Spec == Init /\ [][Next]_vars

\* What is asked of the page, and to close the browser, is awaited without a
\* deadline (chromium.py); that of an exchange is only on its answers.
AwaitsBrowser ==
    /\ config.browser /\ peerOpen
    /\ pc \in {"create", "accept", "open", "exchange", "judge", "finally"}

-----------------------------------------------------------------------------
(* What a scenario promises.                                               *)

\* Every variable has its type.
TypeOK ==
    /\ config \in Configs
    /\ foreign \in BOOLEAN
    /\ own \in {"none", "running", "dead", "reaped"}
    /\ bound \in BOOLEAN
    /\ killed \in BOOLEAN
    /\ logTask \in {"none", "reading", "ended", "failed"}
    /\ log \subseteq {"ice", "dtls", "audio", "video"}
    /\ sessions \subseteq {"own", "foreign"}
    /\ served \in {"none", "own", "foreign"}
    /\ peerOpen \in BOOLEAN
    /\ pc \in {"spawn", "check", "connect", "create", "describe", "accept",
               "open", "extra", "exchange", "judge", "delete", "log", "write",
               "except", "finally", "close", "stopping", "killing", "drain",
               "publish", "done", "raised"}
    /\ after \in {"except", "log", "publish"}
    /\ error \in {"none"} \cup Errors
    /\ negotiated \in BOOLEAN
    /\ session \in BOOLEAN
    /\ failures \subseteq {"transcript", "transport", "sdp", "ice", "dtls", "rtp"}
    /\ outcome \in Reports
    /\ result \in Reports \cup {None}

\* A pass is about the process this scenario has started, although any
\* listener on the port may have served it: the log lines that a pass needs
\* can only come from that process (_wait_ready, run_product_scenario).
OwnProcessJudged == result.verdict = "PASS" => served = "own"

\* A pass needs every step to have gone well: no oracle found anything, no
\* exception was raised, the session was deleted and did not outlive it.
CleanPass ==
    result.verdict = "PASS" =>
        /\ found = {} /\ error = "none"
        /\ negotiated /\ ~session /\ "own" \notin sessions

\* What is in the evidence directory, the growing log included.
Collected == evidence \cup log

Contract == INSTANCE ScenarioContract WITH
    Evidence <- Identity \cup FirstRecords(6) \cup
        {"baresip.log", "ice", "dtls", "audio", "video", "result.json"},
    collected <- Collected,
    alive <- own = "running" \/ logTask = "reading" \/ peerOpen,
    verdict <- result.verdict

\* The scenario implements the contract of the evidence directory: its
\* verdict is published once, when the peer, the process and the log task
\* are gone, and the directory does not change afterwards.
ImplementsContract == Contract!Spec

=============================================================================
