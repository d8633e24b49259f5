-------------------------------- MODULE Media --------------------------------
(***************************************************************************)
(* The media regression (acceptance/product.py run_media_regression), next *)
(* to the other product scenarios of module Scenario: the same steps are   *)
(* taken twice, each time with a baresip process of its own, without data  *)
(* and with a channel that is kept busy, and the media that arrive are     *)
(* compared.  Each case has its finally clause, the scenario only an       *)
(* except clause: it publishes as soon as the second case or an exception  *)
(* is there.                                                               *)
(***************************************************************************)
EXTENDS Scenario

CONSTANT FragileBrowser  \* whether closing the browser can fail

ASSUME MediaAssumption == FragileBrowser \in BOOLEAN

VARIABLES
    case,     \* 0 in other scenarios, 1 without data, 2 with data
    packets   \* how many packets of media each case has measured

regression == <<case, packets>>
allVars == <<vars, regression>>

Counts == 0..2

MediaInit ==
    /\ Init
    /\ case \in {0, 1}
    /\ case = 1 => config.browser /\ config.media = {"audio", "video"}
    /\ packets = [c \in {1, 2} |-> 0]

-----------------------------------------------------------------------------
(* One case, after the descriptions are exchanged.                         *)

\* The channel opens, if there is one, and media of both kinds arrive.
MediaOpen ==
    /\ pc = "open"
    /\ served \in sessions
    /\ Goto("exchange")
    /\ UNCHANGED <<config, foreign, process, signaling, peerOpen, judgement,
                   files, regression>>

\* For five seconds: messages in bursts that must come back as they were,
\* until one does not; or nothing, even if the session ends.
MediaLoad ==
    /\ pc = "exchange"
    /\ case = 2 => served \in sessions
    /\ \E F \in SUBSET (IF case = 2 THEN {"transcript"} ELSE {}) : Found(F)
    /\ Goto("judge")
    /\ UNCHANGED <<config, foreign, process, signaling, peerOpen, negotiated,
                   outcome, files, regression>>

\* The packets that have come meanwhile are counted, and the messages.
MediaJudge ==
    /\ pc = "judge"
    /\ \E count \in Counts, few \in {FALSE, case = 2} :
          /\ packets' = [packets EXCEPT ![case] = count]
          /\ Found({f \in {"media", "few"} :
                \/ f = "media" /\ count = 0
                \/ f = "few" /\ few})
    /\ Goto("delete")
    /\ UNCHANGED <<config, foreign, process, signaling, peerOpen, negotiated,
                   outcome, files, case>>

\* What baresip must have logged about audio and video, then the files of the
\* case.
MediaWrite ==
    /\ pc = "log"
    /\ Found(IF config.media \subseteq log THEN {} ELSE {"rtp"})
    /\ evidence' = evidence \cup FirstRecords(3)
    /\ Goto("finally")
    /\ UNCHANGED <<config, foreign, process, signaling, peerOpen, negotiated,
                   outcome, result, regression>>

\* The log cannot be read, or one of the files cannot be written.
MediaWriteFails ==
    /\ pc = "log"
    /\ \E n \in 0..2 : evidence' = evidence \cup FirstRecords(n)
    /\ Raise("other")
    /\ UNCHANGED <<config, foreign, process, signaling, peerOpen, judgement,
                   result, regression>>

\* The finally clause of the case: when the browser does not close, the
\* process is left as it is.
MediaClose ==
    /\ pc \in {"finally", "except"}
    /\ \/ peerOpen' = FALSE /\ Close("next") /\ UNCHANGED error
       \/ /\ FragileBrowser /\ peerOpen
          /\ error' = "other" /\ pc' = "next"
          /\ UNCHANGED <<peerOpen, after>>
    /\ UNCHANGED <<config, foreign, process, signaling, judgement, files,
                   regression>>

\* The log was not captured: that ends the case, too.
MediaDrainFails ==
    /\ pc = "drain" /\ after = "next"
    /\ logTask = "failed"
    /\ error' = "other" /\ pc' = "next"
    /\ UNCHANGED <<config, foreign, process, signaling, peerOpen, after,
                   judgement, files, regression>>

-----------------------------------------------------------------------------
(* After a case.                                                           *)

\* The second case has a directory, a process and a peer of its own.
NextCase ==
    /\ pc = "next" /\ error = "none"
    /\ case = 1
    /\ case' = 2
    /\ negotiated' = FALSE /\ killed' = FALSE /\ served' = "none"
    /\ evidence' = evidence \cup log
    /\ log' = {}
    /\ Goto("spawn")
    /\ UNCHANGED <<config, foreign, own, bound, logTask, sessions, session,
                   peerOpen, failures, outcome, found, result, packets>>

PublishAs(report) ==
    /\ outcome' = report
    /\ result' = outcome'
    /\ evidence' = evidence \cup {"result.json"}
    /\ Goto("done")

\* With data there must be four fifths of the packets there were without.
MediaCompare ==
    /\ pc = "next" /\ error = "none"
    /\ case = 2
    /\ Found(IF packets[1] = 0 \/ 10 * packets[2] < 8 * packets[1]
             THEN {"rate"} ELSE {})
    /\ PublishAs([verdict |-> IF failures' = {} THEN "PASS" ELSE "FAIL",
                  failures |-> failures'])
    /\ UNCHANGED <<config, foreign, process, signaling, peerOpen, negotiated,
                   regression>>

\* The budgets and the measurements cannot be written.
MediaCompareFails ==
    /\ pc = "next" /\ error = "none"
    /\ case = 2
    /\ error' = "other"
    /\ UNCHANGED <<config, foreign, process, signaling, peerOpen, pc, after,
                   judgement, files, regression>>

\* The verdict on an exception is that of the case it ends.
MediaExcept ==
    /\ pc = "next" /\ error # "none"
    /\ PublishAs([verdict |-> ExceptionVerdict, failures |-> {"exception"}])
    /\ UNCHANGED <<config, foreign, process, signaling, peerOpen, negotiated,
                   failures, found, regression>>

-----------------------------------------------------------------------------
\* Steps that a case shares with the other scenarios.
Shared ==
    /\ \/ Spawn \/ StartFails \/ CheckReady \/ Connect
       \/ CreateSession \/ CreateFails \/ Describe \/ Accept \/ NegotiationFails
       \/ TalkFails \/ DeleteSession
       \/ CloseEndpoint \/ Kill \/ Stopped \/ Drained
       \/ after # "next" /\ DrainFails
    /\ UNCHANGED regression

Regression ==
    \/ MediaOpen \/ MediaLoad \/ MediaJudge \/ MediaWrite \/ MediaWriteFails
    \/ MediaClose \/ MediaDrainFails \/ NextCase
    \/ MediaCompare \/ MediaCompareFails \/ MediaExcept

Environment ==
    /\ \/ Bind \/ Exit \/ Reap \/ ForgetSession
       \/ (\E line \in config.media : Log(line))
       \/ LogEnds \/ LogFails
    /\ UNCHANGED regression

Harness ==
    \/ case = 0 /\ Coroutine /\ UNCHANGED regression
    \/ case # 0 /\ (Shared \/ Regression)

MediaNext ==
    \/ case = 0 /\ Next /\ UNCHANGED regression
    \/ case # 0 /\ (Shared \/ Regression \/ Environment)

MediaSpec == MediaInit /\ [][MediaNext]_allVars

\* Where the harness awaits its browser without a deadline: the finally clause
\* of a case is also where its exceptions lead.
AwaitsAnyBrowser == AwaitsBrowser \/ (case # 0 /\ peerOpen /\ pc = "except")

\* The coroutine is scheduled and each of its other waits has a deadline, the
\* process dies of SIGKILL, its exit is noticed, and its output ends with it.
\* In start the deadline passes although the polling goes on.
FairMedia ==
    /\ MediaSpec
    /\ WF_allVars(~AwaitsAnyBrowser /\ Harness)
    /\ SF_allVars(StartFails /\ UNCHANGED regression)
    /\ WF_allVars(killed /\ Exit /\ UNCHANGED regression)
    /\ WF_allVars(Reap /\ UNCHANGED regression)
    /\ WF_allVars(LogEnds /\ UNCHANGED regression)

-----------------------------------------------------------------------------
\* A scenario directory is immutable after its result.json is written
\* (docs/evidence-schema.md), the captured log included.
Immutable == [][result # None => Collected' = Collected]_allVars

\* Every scenario and the media regression end, whatever baresip, its log and
\* the peer do, unless they wait for their browser forever.
Ends == <>(pc \in {"done", "raised"}) \/ <>[]AwaitsAnyBrowser

=============================================================================
