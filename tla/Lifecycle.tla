----------------------------- MODULE Lifecycle -----------------------------
(***************************************************************************)
(* The lifecycle campaign (acceptance/product.py run_lifecycle_campaign):  *)
(* one baresip process, and one cycle after the other in which a new peer  *)
(* creates a session, exchanges a message and ends it.  In even cycles the *)
(* peer closes the channel, opens another and deletes the session; in odd  *)
(* ones it leaves, and baresip has to close the session by itself.  After  *)
(* each cycle the harness measures what resources the process holds.       *)
(*                                                                         *)
(* Resources are counted in units, one for each session that is open and   *)
(* one for each that is over but not released; how baresip.start waits and *)
(* how a process is stopped is module Scenario.                            *)
(***************************************************************************)
EXTENDS Integers, Sequences, FiniteSetsExt

CONSTANTS
    MaxCycles,  \* a campaign has at most so many cycles
    Budget      \* the growth that is allowed, in units

ASSUME LifecycleAssumption == MaxCycles \in Nat /\ Budget \in Nat

VARIABLES
    cycles,        \* the number of cycles asked for, 0 for none or less
    cycle,         \* the cycle under way, from 0
    own,           \* the process: "none", "running", "dead", "reaped", or
                   \* "stuck" when it is gone and its log was not captured
    session,       \* what became of the session of each cycle
    retained,      \* sessions that are over and whose resources are not freed
    peer,          \* the peer of the cycle: "none", "open", "closed", "failed"
    known,         \* whether the harness has a session id to delete
    remoteClosed,  \* whether baresip was seen to follow the peer
    pc,            \* where the campaign is
    error,         \* the exception under way
    negotiated,    \* whether this cycle's descriptions were exchanged
    mismatch,      \* whether the transcripts of the cycles differ by now
    failures,      \* the oracle failures collected so far
    samples,       \* the units measured after each cycle
    outcome,       \* what result.json will say
    evidence,      \* the files written
    result,        \* the published verdict, "none" when there is none
    reused,        \* history: cycles whose replacement channel was as it should
    ran            \* history: the cycles that have begun when one last negotiated

baresip == <<own, session, retained>>
talk == <<peer, known, remoteClosed>>
control == <<pc, error>>
judgement == <<negotiated, mismatch, failures, outcome>>
files == <<evidence, result>>
history == <<reused, ran>>
vars == <<cycles, cycle, baresip, talk, control, judgement, samples, files,
          history>>

Cycle == 0..(MaxCycles - 1)
Even(c) == c % 2 = 0
Errors == {"timeout", "other"}

Identity == {"command.txt", "scenario.json", "versions.json"}
Findings == {"transcript", "sid", "replacement", "propagation", "retained",
             "slow", "resources", "log"}

Init ==
    /\ cycles \in 0..MaxCycles /\ cycle = 0
    /\ own = "none"
    /\ session = [c \in Cycle |-> "none"]
    /\ retained = 0
    /\ peer = "none" /\ known = FALSE /\ remoteClosed = FALSE
    /\ pc = "start" /\ error = "none"
    /\ negotiated = FALSE /\ mismatch = FALSE /\ failures = {}
    /\ outcome = "INFRA_ERROR"
    /\ samples = <<>>
    /\ evidence = Identity /\ result = "none"
    /\ reused = {} /\ ran = 0

Goto(place) == pc' = place /\ UNCHANGED error

\* Outside of the cycles an exception goes to the except clause, within a
\* cycle it passes through the cycle's own finally clause.
Raise(e) == error' = e /\ pc' = "except"
RaiseInCycle(e) == error' = e /\ pc' = "cleanup"

\* The session of the cycle under way, for requests that baresip serves.
Serves(state) == own = "running" /\ session[cycle] = state

\* A session that is over is released at once, or not yet, or never.
Over(state) ==
    /\ session' = [session EXCEPT ![cycle] = state]
    /\ retained' \in {retained, retained + 1}

Found(F) == failures' = failures \cup F

-----------------------------------------------------------------------------
(* The campaign around its cycles.                                         *)

Start ==
    /\ pc = "start"
    /\ cycles > 0
    /\ own' = "running"
    /\ evidence' = evidence \cup {"baresip.log"}
    /\ Goto("baseline")
    /\ UNCHANGED <<cycles, cycle, session, retained, talk, judgement, samples,
                   result, history>>

\* No cycles were asked for, or baresip does not start: start has closed it.
StartFails ==
    /\ pc = "start"
    /\ \/ cycles = 0 /\ Raise("other")
       \/ cycles > 0 /\ \E e \in Errors : Raise(e)
    /\ own' \in IF cycles = 0 THEN {"none"} ELSE {"none", "stuck"}
    /\ evidence' \in IF cycles = 0 THEN {evidence}
                      ELSE {evidence, evidence \cup {"baresip.log"}}
    /\ UNCHANGED <<cycles, cycle, session, retained, talk, judgement, samples,
                   result, history>>

\* resource_snapshot raises when the process is known to have exited, and may
\* raise when it has exited without the harness knowing.
Baseline ==
    /\ pc = "baseline"
    /\ \/ own \in {"running", "dead"} /\ Goto("cycle")
       \/ own \in {"dead", "reaped"} /\ Raise("other")
    /\ UNCHANGED <<cycles, cycle, baresip, talk, judgement, samples, files,
                   history>>

\* Faulty variant of BeginCycle: the flag of the last cycle stays.
BeginCycleStillNegotiated ==
    /\ pc = "cycle"
    /\ cycle < cycles
    /\ peer' = "open" /\ known' = FALSE /\ remoteClosed' = FALSE
    /\ Goto("create")
    /\ UNCHANGED <<cycles, cycle, baresip, judgement, samples, files, history>>

BeginCycle ==
    /\ pc = "cycle"
    /\ cycle < cycles
    /\ peer' = "open" /\ known' = FALSE /\ remoteClosed' = FALSE
    /\ negotiated' = FALSE
    /\ Goto("create")
    /\ UNCHANGED <<cycles, cycle, baresip, mismatch, failures, outcome,
                   samples, files, history>>

\* The process is measured after the cycle has been cleaned up; a cycle may
\* have taken too long.
Snapshot ==
    /\ pc = "snapshot"
    /\ \/ /\ own \in {"running", "dead"}
          /\ \E F \in SUBSET {"slow"} : Found(F)
          /\ samples' = Append(samples, IF own = "running" THEN
                retained + Cardinality({c \in Cycle : session[c] = "open"})
                ELSE 0)
          /\ cycle' = cycle + 1
          /\ Goto("cycle")
       \/ /\ own \in {"dead", "reaped"}
          /\ Raise("other")
          /\ UNCHANGED <<cycle, failures, samples>>
    /\ UNCHANGED <<cycles, baresip, talk, negotiated, mismatch, outcome,
                   files, history>>

\* analyze_resources: the highest growth over the baseline, and the slope of
\* the least squares line through the samples times their number (written
\* without its fractions).
Excessive(growth) ==
    LET n == Len(growth) IN
    \/ \E i \in 1..n : growth[i] > Budget
    \/ n > 1 /\ 6 * MapThenSumSet(LAMBDA i : (2 * i - n - 1) * growth[i], 1..n)
                > Budget * (n * n - 1)

Analyse ==
    /\ pc = "cycle"
    /\ cycle = cycles
    /\ Found({f \in {"transcript", "resources"} :
                 \/ f = "transcript" /\ mismatch
                 \/ f = "resources" /\ Excessive(samples)})
    /\ Goto("close")
    /\ UNCHANGED <<cycles, cycle, baresip, talk, negotiated, mismatch, outcome,
                   samples, files, history>>

-----------------------------------------------------------------------------
(* A cycle, until its message is back.                                     *)

\* The first request creates a session, whether or not its answer arrives.
CreateSession ==
    /\ pc = "create"
    /\ own = "running"
    /\ session' = [session EXCEPT ![cycle] = "open"]
    /\ Goto("describe") \/ \E e \in Errors : RaiseInCycle(e)
    /\ UNCHANGED <<cycles, cycle, own, retained, talk, judgement, samples,
                   files, history>>

\* The second request carries the offer; with its answer answer_session
\* returns the session id.
Describe ==
    /\ pc = "describe"
    /\ Serves("open")
    /\ known' = TRUE
    /\ Goto("accept")
    /\ UNCHANGED <<cycles, cycle, baresip, peer, remoteClosed, judgement,
                   samples, files, history>>

Accept ==
    /\ pc = "accept"
    /\ negotiated' = TRUE /\ ran' = cycle + 1
    /\ Goto("open")
    /\ UNCHANGED <<cycles, cycle, baresip, talk, mismatch, failures, outcome,
                   samples, files, reused>>

Open ==
    /\ pc = "open"
    /\ Serves("open")
    /\ Goto("exchange")
    /\ UNCHANGED <<cycles, cycle, baresip, talk, judgement, samples, files,
                   history>>

\* One message and what comes back, judged with those of all other cycles.
Exchange ==
    /\ pc = "exchange"
    /\ Serves("open")
    /\ mismatch' \in {mismatch, TRUE}
    /\ Goto(IF Even(cycle) THEN "shut" ELSE "leave")
    /\ UNCHANGED <<cycles, cycle, baresip, talk, negotiated, failures, outcome,
                   samples, files, history>>

\* The peer raises, a deadline passes, baresip has exited or refuses.
CycleFails ==
    /\ pc \in {"create", "describe", "accept", "open", "exchange", "shut"}
    /\ \E e \in Errors : RaiseInCycle(e)
    /\ UNCHANGED <<cycles, cycle, baresip, talk, judgement, samples, files,
                   history>>

-----------------------------------------------------------------------------
(* The end of an even cycle.                                               *)

\* Both sides close the channel and reset its stream.
ShutChannel ==
    /\ pc = "shut"
    /\ Serves("open")
    /\ Goto("replace")
    /\ UNCHANGED <<cycles, cycle, baresip, talk, judgement, samples, files,
                   history>>

\* Faulty variant of Replace: the stream of the replacement is not compared.
ReplaceAnywhere ==
    /\ pc = "replace"
    /\ Serves("open")
    /\ remoteClosed' = TRUE
    /\ \E good \in BOOLEAN : reused' = IF good THEN reused \cup {cycle} ELSE reused
    /\ mismatch' \in {mismatch, TRUE}
    /\ Goto("delete")
    /\ UNCHANGED <<cycles, cycle, baresip, peer, known, negotiated, failures,
                   outcome, samples, files, ran>>

\* A replacement must get the stream of the closed channel and echo.
Replace ==
    /\ pc = "replace"
    /\ Serves("open")
    /\ remoteClosed' = TRUE
    /\ \E F \in SUBSET {"sid"} :
          /\ Found(F)
          /\ reused' = IF F = {} THEN reused \cup {cycle} ELSE reused
    /\ mismatch' \in {mismatch, TRUE}
    /\ Goto("delete")
    /\ UNCHANGED <<cycles, cycle, baresip, peer, known, negotiated, outcome,
                   samples, files, ran>>

\* Only what the code takes for a channel that does not open is caught here.
ReplaceFails ==
    /\ pc = "replace"
    /\ \/ (\E F \in SUBSET {"sid"} : Found(F \cup {"replacement"})) /\ Goto("delete")
       \/ UNCHANGED failures /\ RaiseInCycle("other")
    /\ UNCHANGED <<cycles, cycle, baresip, talk, negotiated, mismatch, outcome,
                   samples, files, history>>

-----------------------------------------------------------------------------
(* The end of an odd cycle.                                                *)

LeavePeer ==
    /\ pc = "leave"
    /\ \/ peer' = "closed" /\ Goto("missing")
       \/ peer' = "failed" /\ \E e \in Errors : RaiseInCycle(e)
    /\ UNCHANGED <<cycles, cycle, baresip, known, remoteClosed, judgement,
                   samples, files, history>>

\* wait_session_missing polls until baresip does not know the session.  That
\* is what it says of a session it has closed, and might say of another.
SessionMissing ==
    /\ pc = "missing"
    /\ own = "running"
    /\ remoteClosed' = TRUE
    /\ Goto("delete")
    /\ UNCHANGED <<cycles, cycle, baresip, peer, known, judgement, samples,
                   files, history>>

\* Faulty variant of MissingFails: the polling has no deadline.
MissingFailsOnExit ==
    /\ pc = "missing"
    /\ own # "running"
    /\ RaiseInCycle("other")
    /\ UNCHANGED <<cycles, cycle, baresip, talk, judgement, samples, files,
                   history>>

\* The deadline passes, a failure; or baresip is found to have exited.
MissingFails ==
    /\ pc = "missing"
    /\ \/ Found({"propagation"}) /\ Goto("delete")
       \/ UNCHANGED failures /\ own # "running" /\ RaiseInCycle("other")
    /\ UNCHANGED <<cycles, cycle, baresip, talk, negotiated, mismatch, outcome,
                   samples, files, history>>

-----------------------------------------------------------------------------
(* The session is deleted in every cycle, and may have taken too long.     *)

\* Faulty variant of Delete: a session seen to be missing is left alone.
DeleteUnlessSeen ==
    /\ pc = "delete"
    /\ \/ Serves("open") /\ ~remoteClosed /\ Over("deleted")
       \/ Serves("open") /\ remoteClosed /\ UNCHANGED <<session, retained>>
       \/ Serves("closed") /\ ~Even(cycle) /\ UNCHANGED <<session, retained>>
    /\ known' = FALSE
    /\ Goto("cleanup")
    /\ UNCHANGED <<cycles, cycle, own, peer, remoteClosed, judgement, samples,
                   files, history>>

\* In an odd cycle the session may be missing, and has to be if it was seen
\* to be.
Delete ==
    /\ pc = "delete"
    /\ \/ /\ Serves("open")
          /\ Over("deleted")
          /\ \E F \in SUBSET {"slow"} :
                Found(F \cup IF ~Even(cycle) /\ remoteClosed THEN {"retained"} ELSE {})
       \/ /\ Serves("closed") /\ ~Even(cycle)
          /\ \E F \in SUBSET {"slow"} : Found(F)
          /\ UNCHANGED <<session, retained>>
    /\ known' = FALSE
    /\ Goto("cleanup")
    /\ UNCHANGED <<cycles, cycle, own, peer, remoteClosed, negotiated,
                   mismatch, outcome, samples, files, history>>

\* It is refused, not served or not answered, perhaps after all was done.
DeleteFails ==
    /\ pc = "delete"
    /\ \E e \in Errors : RaiseInCycle(e)
    /\ \/ UNCHANGED <<session, retained>>
       \/ Serves("open") /\ Over("deleted")
    /\ UNCHANGED <<cycles, cycle, own, talk, judgement, samples, files,
                   history>>

\* The finally clause of a cycle: a session still known is deleted, whatever
\* comes of it, and the peer is closed (again, in an odd cycle).  What the
\* peer raises here takes the place of the exception under way.
Cleanup ==
    /\ pc = "cleanup"
    /\ \/ UNCHANGED <<session, retained>>
       \/ known /\ Serves("open") /\ Over("deleted")
    /\ \/ /\ peer' = IF peer = "failed" THEN peer ELSE "closed"
          /\ pc' = IF error = "none" THEN "snapshot" ELSE "except"
          /\ UNCHANGED error
       \/ peer' = "failed" /\ \E e \in Errors : Raise(e)
    /\ UNCHANGED <<cycles, cycle, own, known, remoteClosed, judgement, samples,
                   files, history>>

-----------------------------------------------------------------------------
(* Judging and ending.                                                     *)

\* close stops the process, with which open sessions end, and waits for the
\* task that captures the log: when it has failed, so does each close.
Close ==
    /\ pc \in {"close", "finally"}
    /\ session' = [c \in Cycle |->
                      IF session[c] = "open" THEN "ended" ELSE session[c]]
    /\ \/ /\ own # "stuck"
          /\ own' = "none"
          /\ Goto(IF pc = "close" THEN "log" ELSE "publish")
       \/ /\ own # "none"
          /\ own' = "stuck"
          /\ error' = "other"
          /\ pc' = IF pc = "close" THEN "except" ELSE "raised"
    /\ UNCHANGED <<cycles, cycle, retained, talk, judgement, samples, files,
                   history>>

\* ICE completions and DTLS verifications are counted.
ReadLog ==
    /\ pc = "log"
    /\ \E F \in SUBSET {"log"} : Found(F)
    /\ Goto("write")
    /\ UNCHANGED <<cycles, cycle, baresip, talk, negotiated, mismatch, outcome,
                   samples, files, history>>

Write ==
    /\ pc = "write"
    /\ evidence' = evidence \cup {"budgets.json", "resource-samples.json",
          "resource-analysis.json", "sent-manifest.json",
          "received-manifest.json"}
    /\ outcome' = IF failures = {} THEN "PASS" ELSE "FAIL"
    /\ Goto("finally")
    /\ UNCHANGED <<cycles, cycle, baresip, talk, negotiated, mismatch,
                   failures, samples, result, history>>

Except ==
    /\ pc = "except"
    /\ outcome' = IF negotiated /\ error = "timeout" THEN "FAIL"
                  ELSE "INFRA_ERROR"
    /\ Goto("finally")
    /\ UNCHANGED <<cycles, cycle, baresip, talk, negotiated, mismatch,
                   failures, samples, files, history>>

\* Faulty variant of Publish: the result does not wait for the process.
PublishEarly ==
    /\ pc \in {"finally", "publish"}
    /\ result' = outcome
    /\ evidence' = evidence \cup {"result.json"}
    /\ Goto("done")
    /\ UNCHANGED <<cycles, cycle, baresip, talk, judgement, samples, history>>

Publish ==
    /\ pc = "publish"
    /\ result' = outcome
    /\ evidence' = evidence \cup {"result.json"}
    /\ Goto("done")
    /\ UNCHANGED <<cycles, cycle, baresip, talk, judgement, samples, history>>

-----------------------------------------------------------------------------
(* baresip.                                                                *)

Exit ==
    /\ own = "running"
    /\ own' = "dead"
    /\ session' = [c \in Cycle |->
                      IF session[c] = "open" THEN "ended" ELSE session[c]]
    /\ retained' = 0
    /\ UNCHANGED <<cycles, cycle, talk, control, judgement, samples, files,
                   history>>

Reap ==
    /\ own = "dead"
    /\ own' = "reaped"
    /\ UNCHANGED <<cycles, cycle, session, retained, talk, control, judgement,
                   samples, files, history>>

\* baresip closes the session, because its peer has left or for no reason.
CloseSession ==
    /\ cycle < cycles
    /\ Serves("open")
    /\ Over("closed")
    /\ UNCHANGED <<cycles, cycle, own, talk, control, judgement, samples,
                   files, history>>

\* Resources of a session that is over are freed at last.
Release ==
    /\ own = "running" /\ retained > 0
    /\ retained' = retained - 1
    /\ UNCHANGED <<cycles, cycle, own, session, talk, control, judgement,
                   samples, files, history>>

-----------------------------------------------------------------------------
\* Steps for which baresip has to answer, and all others.
Served ==
    \/ CreateSession \/ Describe \/ Open \/ Exchange \/ ShutChannel \/ Replace
    \/ SessionMissing \/ Delete

Coroutine ==
    \/ Start \/ StartFails \/ Baseline \/ BeginCycle \/ Snapshot \/ Analyse
    \/ Accept \/ CycleFails \/ ReplaceFails \/ LeavePeer \/ MissingFails
    \/ DeleteFails \/ Cleanup
    \/ Close \/ ReadLog \/ Write \/ Except \/ Publish

Next == Served \/ Coroutine \/ Exit \/ Reap \/ CloseSession \/ Release

Spec == Init /\ [][Next]_vars

\* The coroutine is scheduled, and each of its waits has a deadline; nothing
\* is assumed of baresip.
FairSpec == Spec /\ WF_vars(Coroutine)

-----------------------------------------------------------------------------
(* What the campaign promises.                                             *)

\* Every variable has its type.
TypeOK ==
    /\ cycles \in 0..MaxCycles /\ cycle \in 0..cycles
    /\ own \in {"none", "running", "dead", "reaped", "stuck"}
    /\ session \in [Cycle -> {"none", "open", "closed", "deleted", "ended"}]
    /\ retained \in Nat
    /\ peer \in {"none", "open", "closed", "failed"}
    /\ known \in BOOLEAN /\ remoteClosed \in BOOLEAN
    /\ pc \in {"start", "baseline", "cycle", "create", "describe", "accept",
               "open", "exchange", "shut", "replace", "leave", "missing",
               "delete", "cleanup", "snapshot", "close", "log", "write",
               "except", "finally", "publish", "done", "raised"}
    /\ error \in {"none"} \cup Errors
    /\ negotiated \in BOOLEAN /\ mismatch \in BOOLEAN
    /\ failures \subseteq Findings
    /\ outcome \in {"PASS", "FAIL", "INFRA_ERROR"}
    /\ samples \in Seq(Nat)
    /\ result \in {"none", "PASS", "FAIL", "INFRA_ERROR"}
    /\ reused \subseteq Cycle /\ ran \in 0..cycles

\* No cycle starts while baresip still has a session of an earlier one: what
\* a cycle measures is its own doing (delete_session_id, missing_ok).
CyclesIsolated ==
    pc \in {"cycle", "create"} => \A c \in Cycle : session[c] # "open"

\* The campaign passes only if baresip itself closed the session of every
\* peer that left, gave every replacement channel the stream of the closed
\* one, echoed in every cycle, and holds at the end the resources of no more
\* sessions than the budget allows.
PassMeansFollowed ==
    result = "PASS" =>
        /\ \A c \in 0..(cycles - 1) :
              IF Even(c) THEN session[c] = "deleted" /\ c \in reused
                         ELSE session[c] = "closed"
        /\ cycles > 0 /\ ~mismatch
        /\ retained <= Budget

\* FAIL says that the endpoints ran (README.md): some cycle negotiated, and a
\* deadline is blamed on baresip only if the cycle in which it passed did
\* (exception_verdict, negotiated).
FailMeansRan ==
    outcome = "FAIL" => ran > 0 /\ (error = "timeout" => ran = cycle + 1)

Contract == INSTANCE ScenarioContract WITH
    Evidence <- Identity \cup {"baresip.log", "budgets.json",
        "resource-samples.json", "resource-analysis.json",
        "sent-manifest.json", "received-manifest.json", "result.json"},
    collected <- evidence,
    alive <- own # "none" \/ peer = "open",
    verdict <- result

\* The campaign implements the contract of the evidence directory: one
\* verdict, published when the process and the last peer are gone.
ImplementsContract == Contract!Spec

\* Every campaign ends, whatever baresip and the peers do.
Ends == <>(pc \in {"done", "raised"})

=============================================================================
