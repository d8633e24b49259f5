-------------------------- MODULE Lifecycle_proofs --------------------------
(***************************************************************************)
(* What the lifecycle campaign promises for any number of cycles and any   *)
(* budget: no cycle starts on a session of an earlier one, a PASS means    *)
(* that baresip followed its peers in every cycle and holds no more than   *)
(* the budget, a FAIL that the endpoints ran, and the evidence directory   *)
(* is what its contract says.                                              *)
(***************************************************************************)
EXTENDS Lifecycle, TLAPS, FiniteSetTheorems, SequenceTheorems

\* Where a cycle is under way.
InCycle == {"create", "describe", "accept", "open", "exchange", "shut",
            "replace", "leave", "missing", "delete", "cleanup"}
Talking == {"open", "exchange", "shut", "replace", "leave", "missing", "delete"}
Judging == {"close", "log", "write"}
Ending == {"finally", "publish", "done", "raised"}

\* The types in three groups.
Data ==
    /\ cycles \in 0..MaxCycles /\ cycle \in 0..cycles
    /\ session \in [Cycle -> {"none", "open", "closed", "deleted", "ended"}]
    /\ retained \in Nat
    /\ samples \in Seq(Nat)
    /\ reused \subseteq Cycle /\ ran \in 0..cycles
Places ==
    /\ own \in {"none", "running", "dead", "reaped", "stuck"}
    /\ peer \in {"none", "open", "closed", "failed"}
    /\ pc \in InCycle \cup Judging \cup Ending \cup
             {"start", "baseline", "cycle", "snapshot", "except"}
    /\ error \in {"none"} \cup Errors
    /\ failures \subseteq Findings
    /\ outcome \in {"PASS", "FAIL", "INFRA_ERROR"}
    /\ result \in {"none", "PASS", "FAIL", "INFRA_ERROR"}
Flags ==
    /\ known \in BOOLEAN /\ remoteClosed \in BOOLEAN
    /\ negotiated \in BOOLEAN /\ mismatch \in BOOLEAN

\* A cycle is one of those asked for, and each ended one left a sample.
Counting ==
    /\ pc \in InCycle \cup {"snapshot"} => cycle < cycles
    /\ pc \in Judging => cycle = cycles
    /\ pc \in {"start", "baseline"} => cycle = 0
    /\ pc \notin {"start", "except"} \cup Ending => cycles > 0
    /\ Len(samples) = cycle

\* At any time at most the session of the cycle under way is open, in the
\* running process, and not past its deletion.
Isolated ==
    /\ \A c \in Cycle : session[c] = "open" =>
          /\ own = "running" /\ c = cycle
          /\ pc \notin {"start", "baseline", "cycle", "create", "snapshot"}
          /\ ~(pc = "cleanup" /\ error = "none")

\* Where an exception is under way, and what it says of the last cycle.
Blamed ==
    /\ pc \in (InCycle \ {"cleanup"}) \cup Judging \cup
             {"start", "baseline", "cycle", "snapshot"} => error = "none"
    /\ cycle > 0 \/ negotiated => ran > 0
    /\ pc \in InCycle \cup {"snapshot"} /\ negotiated => ran = cycle + 1
    /\ error = "timeout" /\ negotiated => ran = cycle + 1
    /\ pc \in Talking \cup {"snapshot"} => negotiated
    /\ pc = "cleanup" /\ error = "none" => negotiated
    /\ pc \in {"start", "baseline"} => ~negotiated
    /\ outcome = "FAIL" => pc \in Ending /\ FailMeansRan

\* What became of a cycle's session and its channel.
FollowedIn(c) == IF Even(c) THEN session[c] = "deleted" /\ c \in reused
                           ELSE session[c] = "closed"
Ended == pc = "snapshot" \/ (pc = "cleanup" /\ error = "none")

\* As long as nothing was found, baresip followed in every cycle so far.
Followed ==
    /\ failures = {} => \A c \in 0..(cycle - 1) : FollowedIn(c)
    /\ failures = {} /\ Ended => FollowedIn(cycle)
    /\ failures = {} /\ pc = "delete" =>
          IF Even(cycle) THEN cycle \in reused ELSE remoteClosed
    /\ pc \in {"shut", "replace"} => Even(cycle)
    /\ pc \in {"leave", "missing"} => ~Even(cycle)

\* The last sample bounds what baresip still retains.
Measured ==
    /\ own \in {"dead", "reaped"} => retained = 0
    /\ pc \in {"cycle"} \cup Judging /\ cycle > 0 => retained <= samples[cycle]
    /\ pc \in Judging /\ failures = {} => retained <= Budget /\ ~mismatch

\* A PASS is decided when everything has been seen.
Passed ==
    outcome = "PASS" =>
        /\ pc \in Ending
        /\ failures = {} /\ cycle = cycles /\ cycles > 0
        /\ retained <= Budget /\ ~mismatch

\* Nothing is published before everything is gone.
Files ==
    /\ evidence \subseteq Identity \cup {"baresip.log", "budgets.json",
          "resource-samples.json", "resource-analysis.json",
          "sent-manifest.json", "received-manifest.json", "result.json"}
    /\ pc = "done" => result = outcome
    /\ pc # "done" => result = "none" /\ "result.json" \notin evidence
    /\ peer = "open" => pc \in InCycle
    /\ pc \in {"publish", "done"} => own = "none"

Types == Data /\ Places /\ Flags
IInv == Types /\ Counting /\ Isolated /\ Blamed /\ Followed /\ Measured
        /\ Passed /\ Files

-----------------------------------------------------------------------------
\* The groups are the types.
LEMMA TypesAreTypes == Types <=> TypeOK
  BY DEF Types, Data, Places, Flags, TypeOK, InCycle, Judging, Ending

\* The invariant holds initially.
LEMMA Initially == Init => IInv
  <1> SUFFICES ASSUME Init PROVE IInv
    OBVIOUS
  <1> USE LifecycleAssumption DEF LifecycleAssumption, Init, Cycle, Errors, Findings, Identity,
             InCycle, Talking, Judging, Ending
  <1>1. Data
    BY EmptySeq DEF Data
  <1>2. Places /\ Flags
    BY DEF Places, Flags
  <1>3. Counting /\ Isolated /\ Blamed
    BY DEF Counting, Isolated, Blamed
  <1>4. Followed /\ Measured /\ Passed /\ Files
    BY DEF Followed, Measured, Passed, Files, Ended
  <1>. QED
    BY <1>1, <1>2, <1>3, <1>4 DEF IInv, Types

\* Every step keeps the process, the peer, the place and the reports.
LEMMA PlacesStep == Places /\ [Next]_vars => Places'
  <1> SUFFICES ASSUME Places, [Next]_vars PROVE Places'
    OBVIOUS
  <1> USE DEF Places, Errors, Findings, InCycle, Talking, Judging, Ending,
             vars, baresip, talk, control, judgement, files, history
  <1>1. CASE CreateSession
    BY <1>1 DEF CreateSession, Goto, RaiseInCycle, Serves
  <1>2. CASE Describe
    BY <1>2 DEF Describe, Goto, Serves
  <1>3. CASE Open
    BY <1>3 DEF Open, Goto, Serves
  <1>4. CASE Exchange
    BY <1>4 DEF Exchange, Goto, Serves
  <1>5. CASE ShutChannel
    BY <1>5 DEF ShutChannel, Goto, Serves
  <1>6. CASE Replace
    BY <1>6 DEF Replace, Goto, Serves, Found
  <1>7. CASE SessionMissing
    BY <1>7 DEF SessionMissing, Goto
  <1>8. CASE Delete
    BY <1>8 DEF Delete, Goto, Serves, Over, Found
  <1>9. CASE Start
    BY <1>9 DEF Start, Goto
  <1>10. CASE StartFails
    BY <1>10 DEF StartFails, Raise
  <1>11. CASE Baseline
    BY <1>11 DEF Baseline, Goto, Raise
  <1>12. CASE BeginCycle
    BY <1>12 DEF BeginCycle, Goto
  <1>13. CASE Snapshot
    BY <1>13 DEF Snapshot, Goto, Raise, Found
  <1>14. CASE Analyse
    BY <1>14 DEF Analyse, Goto, Found
  <1>15. CASE Accept
    BY <1>15 DEF Accept, Goto
  <1>16. CASE CycleFails
    BY <1>16 DEF CycleFails, RaiseInCycle
  <1>17. CASE ReplaceFails
    BY <1>17 DEF ReplaceFails, Goto, Found, RaiseInCycle
  <1>18. CASE LeavePeer
    BY <1>18 DEF LeavePeer, Goto, RaiseInCycle
  <1>19. CASE MissingFails
    BY <1>19 DEF MissingFails, Goto, Found, RaiseInCycle
  <1>20. CASE DeleteFails
    BY <1>20 DEF DeleteFails, RaiseInCycle, Serves, Over
  <1>21. CASE Cleanup
    BY <1>21 DEF Cleanup, Serves, Over, Raise
  <1>22. CASE Close
    BY <1>22 DEF Close, Goto
  <1>23. CASE ReadLog
    BY <1>23 DEF ReadLog, Goto, Found
  <1>24. CASE Write
    BY <1>24 DEF Write, Goto
  <1>25. CASE Except
    BY <1>25 DEF Except, Goto
  <1>26. CASE Publish
    BY <1>26 DEF Publish, Goto
  <1>27. CASE Exit
    BY <1>27 DEF Exit
  <1>28. CASE Reap
    BY <1>28 DEF Reap
  <1>29. CASE CloseSession
    BY <1>29 DEF CloseSession, Serves, Over
  <1>30. CASE Release
    BY <1>30 DEF Release
  <1>31. CASE UNCHANGED vars
    BY <1>31 DEF vars
  <1>. QED
    BY <1>1, <1>2, <1>3, <1>4, <1>5, <1>6, <1>7, <1>8, <1>9, <1>10, <1>11,
       <1>12, <1>13, <1>14, <1>15, <1>16, <1>17, <1>18, <1>19, <1>20,
       <1>21, <1>22, <1>23, <1>24, <1>25, <1>26, <1>27, <1>28, <1>29,
       <1>30, <1>31
    DEF Next, Served, Coroutine

\* Every step keeps the flags.
LEMMA FlagsStep == Flags /\ [Next]_vars => Flags'
  <1> SUFFICES ASSUME Flags, [Next]_vars PROVE Flags'
    OBVIOUS
  <1> USE DEF Flags, vars, baresip, talk, control, judgement, files, history
  <1>1. CASE CreateSession
    BY <1>1 DEF CreateSession, Goto, RaiseInCycle, Serves
  <1>2. CASE Describe
    BY <1>2 DEF Describe, Goto, Serves
  <1>3. CASE Open
    BY <1>3 DEF Open, Goto, Serves
  <1>4. CASE Exchange
    BY <1>4 DEF Exchange, Goto, Serves
  <1>5. CASE ShutChannel
    BY <1>5 DEF ShutChannel, Goto, Serves
  <1>6. CASE Replace
    BY <1>6 DEF Replace, Goto, Serves, Found
  <1>7. CASE SessionMissing
    BY <1>7 DEF SessionMissing, Goto
  <1>8. CASE Delete
    BY <1>8 DEF Delete, Goto, Serves, Over, Found
  <1>9. CASE Start
    BY <1>9 DEF Start, Goto
  <1>10. CASE StartFails
    BY <1>10 DEF StartFails, Raise
  <1>11. CASE Baseline
    BY <1>11 DEF Baseline, Goto, Raise
  <1>12. CASE BeginCycle
    BY <1>12 DEF BeginCycle, Goto
  <1>13. CASE Snapshot
    BY <1>13 DEF Snapshot, Goto, Raise, Found
  <1>14. CASE Analyse
    BY <1>14 DEF Analyse, Goto, Found
  <1>15. CASE Accept
    BY <1>15 DEF Accept, Goto
  <1>16. CASE CycleFails
    BY <1>16 DEF CycleFails, RaiseInCycle
  <1>17. CASE ReplaceFails
    BY <1>17 DEF ReplaceFails, Goto, Found, RaiseInCycle
  <1>18. CASE LeavePeer
    BY <1>18 DEF LeavePeer, Goto, RaiseInCycle
  <1>19. CASE MissingFails
    BY <1>19 DEF MissingFails, Goto, Found, RaiseInCycle
  <1>20. CASE DeleteFails
    BY <1>20 DEF DeleteFails, RaiseInCycle, Serves, Over
  <1>21. CASE Cleanup
    BY <1>21 DEF Cleanup, Serves, Over, Raise
  <1>22. CASE Close
    BY <1>22 DEF Close, Goto
  <1>23. CASE ReadLog
    BY <1>23 DEF ReadLog, Goto, Found
  <1>24. CASE Write
    BY <1>24 DEF Write, Goto
  <1>25. CASE Except
    BY <1>25 DEF Except, Goto
  <1>26. CASE Publish
    BY <1>26 DEF Publish, Goto
  <1>27. CASE Exit
    BY <1>27 DEF Exit
  <1>28. CASE Reap
    BY <1>28 DEF Reap
  <1>29. CASE CloseSession
    BY <1>29 DEF CloseSession, Serves, Over
  <1>30. CASE Release
    BY <1>30 DEF Release
  <1>31. CASE UNCHANGED vars
    BY <1>31 DEF vars
  <1>. QED
    BY <1>1, <1>2, <1>3, <1>4, <1>5, <1>6, <1>7, <1>8, <1>9, <1>10, <1>11,
       <1>12, <1>13, <1>14, <1>15, <1>16, <1>17, <1>18, <1>19, <1>20,
       <1>21, <1>22, <1>23, <1>24, <1>25, <1>26, <1>27, <1>28, <1>29,
       <1>30, <1>31
    DEF Next, Served, Coroutine

\* What Snapshot measures.
Units == IF own = "running"
         THEN retained + Cardinality({c \in Cycle : session[c] = "open"}) ELSE 0

LEMMA SampleIsNatural == retained \in Nat => Units \in Nat /\ (own = "running" => retained <= Units)
  <1> DEFINE openNow == {c \in Cycle : session[c] = "open"}
  <1>1. Cardinality(openNow) \in Nat
    <2>1. IsFiniteSet(Cycle)
      BY LifecycleAssumption, FS_Interval DEF Cycle, LifecycleAssumption
    <2>2. IsFiniteSet(openNow)
      BY <2>1, FS_Subset
    <2>. QED
      BY <2>2, FS_CardinalityType
  <1> HIDE DEF openNow
  <1>2. Units = IF own = "running" THEN retained + Cardinality(openNow) ELSE 0
    BY DEF Units, openNow
  <1>. QED
    BY <1>1, <1>2

\* Every step keeps the sessions, their number and the measurements.
LEMMA DataStep == Data /\ Counting /\ [Next]_vars => Data'
  <1> SUFFICES ASSUME Data /\ Counting, [Next]_vars PROVE Data'
    OBVIOUS
  <1> USE DEF Data, Counting, Cycle, InCycle, Talking, Judging, Ending, vars, baresip, talk, control, judgement, files, history
  <1>0. cycle < cycles => cycle \in Cycle
    BY LifecycleAssumption DEF LifecycleAssumption
  <1>1. CASE CreateSession
    BY <1>1 DEF CreateSession, Goto, RaiseInCycle, Serves
  <1>2. CASE Describe
    BY <1>2 DEF Describe, Goto, Serves
  <1>3. CASE Open
    BY <1>3 DEF Open, Goto, Serves
  <1>4. CASE Exchange
    BY <1>4 DEF Exchange, Goto, Serves
  <1>5. CASE ShutChannel
    BY <1>5 DEF ShutChannel, Goto, Serves
  <1>6. CASE Replace
    <2>1. reused' \subseteq Cycle
      BY <1>6, <1>0 DEF Replace
    <2>2. UNCHANGED <<cycles, cycle, session, retained, samples, ran>>
      BY <1>6 DEF Replace
    <2>. QED
      BY <2>1, <2>2
  <1>7. CASE SessionMissing
    BY <1>7 DEF SessionMissing, Goto
  <1>8. CASE Delete
    BY <1>8 DEF Delete, Goto, Serves, Over, Found
  <1>9. CASE Start
    BY <1>9 DEF Start, Goto
  <1>10. CASE StartFails
    BY <1>10 DEF StartFails, Raise
  <1>11. CASE Baseline
    BY <1>11 DEF Baseline, Goto, Raise
  <1>12. CASE BeginCycle
    BY <1>12 DEF BeginCycle, Goto
  <1>13. CASE Snapshot
    <2>1. samples' \in Seq(Nat)
      <3>1. samples' = Append(samples, Units) \/ samples' = samples
        BY <1>13 DEF Snapshot, Units
      <3>2. Units \in Nat
        BY SampleIsNatural
      <3>. QED
        BY <3>1, <3>2, AppendProperties
    <2>. QED
      BY <1>13, <2>1 DEF Snapshot, Goto, Raise
  <1>14. CASE Analyse
    BY <1>14 DEF Analyse, Goto, Found
  <1>15. CASE Accept
    BY <1>15 DEF Accept, Goto
  <1>16. CASE CycleFails
    BY <1>16 DEF CycleFails, RaiseInCycle
  <1>17. CASE ReplaceFails
    BY <1>17 DEF ReplaceFails, Goto, Found, RaiseInCycle
  <1>18. CASE LeavePeer
    BY <1>18 DEF LeavePeer, Goto, RaiseInCycle
  <1>19. CASE MissingFails
    BY <1>19 DEF MissingFails, Goto, Found, RaiseInCycle
  <1>20. CASE DeleteFails
    BY <1>20 DEF DeleteFails, RaiseInCycle, Serves, Over
  <1>21. CASE Cleanup
    BY <1>21 DEF Cleanup, Serves, Over, Raise
  <1>22. CASE Close
    BY <1>22 DEF Close, Goto
  <1>23. CASE ReadLog
    BY <1>23 DEF ReadLog, Goto, Found
  <1>24. CASE Write
    BY <1>24 DEF Write, Goto
  <1>25. CASE Except
    BY <1>25 DEF Except, Goto
  <1>26. CASE Publish
    BY <1>26 DEF Publish, Goto
  <1>27. CASE Exit
    BY <1>27 DEF Exit
  <1>28. CASE Reap
    BY <1>28 DEF Reap
  <1>29. CASE CloseSession
    <2>1. session' \in [Cycle -> {"none", "open", "closed", "deleted", "ended"}]
      BY <1>29, <1>0 DEF CloseSession, Over
    <2>2. retained' \in Nat
      BY <1>29 DEF CloseSession, Over
    <2>3. UNCHANGED <<cycles, cycle, samples, reused, ran>>
      BY <1>29 DEF CloseSession
    <2>. QED
      BY <2>1, <2>2, <2>3
  <1>30. CASE Release
    BY <1>30 DEF Release
  <1>31. CASE UNCHANGED vars
    BY <1>31 DEF vars
  <1>. QED
    BY <1>1, <1>2, <1>3, <1>4, <1>5, <1>6, <1>7, <1>8, <1>9, <1>10, <1>11,
       <1>12, <1>13, <1>14, <1>15, <1>16, <1>17, <1>18, <1>19, <1>20,
       <1>21, <1>22, <1>23, <1>24, <1>25, <1>26, <1>27, <1>28, <1>29,
       <1>30, <1>31
    DEF Next, Served, Coroutine

\* Cycles are counted, and each is sampled.
LEMMA CountingStep == Types /\ Counting /\ [Next]_vars => Counting'
  <1> SUFFICES ASSUME Types /\ Counting, [Next]_vars PROVE Counting'
    OBVIOUS
  <1> USE DEF Types, Data, Counting, InCycle, Talking, Judging, Ending, vars, baresip, talk, control, judgement, files, history
  <1>1. CASE CreateSession
    BY <1>1 DEF CreateSession, Goto, RaiseInCycle, Serves
  <1>2. CASE Describe
    BY <1>2 DEF Describe, Goto, Serves
  <1>3. CASE Open
    BY <1>3 DEF Open, Goto, Serves
  <1>4. CASE Exchange
    BY <1>4 DEF Exchange, Goto, Serves
  <1>5. CASE ShutChannel
    BY <1>5 DEF ShutChannel, Goto, Serves
  <1>6. CASE Replace
    BY <1>6 DEF Replace, Goto, Serves, Found
  <1>7. CASE SessionMissing
    BY <1>7 DEF SessionMissing, Goto
  <1>8. CASE Delete
    BY <1>8 DEF Delete, Goto, Serves, Over, Found
  <1>9. CASE Start
    BY <1>9 DEF Start, Goto
  <1>10. CASE StartFails
    BY <1>10 DEF StartFails, Raise
  <1>11. CASE Baseline
    BY <1>11 DEF Baseline, Goto, Raise
  <1>12. CASE BeginCycle
    BY <1>12 DEF BeginCycle, Goto
  <1>13. CASE Snapshot
    BY <1>13 DEF Snapshot, Goto, Raise, Found
  <1>14. CASE Analyse
    BY <1>14 DEF Analyse, Goto, Found
  <1>15. CASE Accept
    BY <1>15 DEF Accept, Goto
  <1>16. CASE CycleFails
    BY <1>16 DEF CycleFails, RaiseInCycle
  <1>17. CASE ReplaceFails
    BY <1>17 DEF ReplaceFails, Goto, Found, RaiseInCycle
  <1>18. CASE LeavePeer
    BY <1>18 DEF LeavePeer, Goto, RaiseInCycle
  <1>19. CASE MissingFails
    BY <1>19 DEF MissingFails, Goto, Found, RaiseInCycle
  <1>20. CASE DeleteFails
    BY <1>20 DEF DeleteFails, RaiseInCycle, Serves, Over
  <1>21. CASE Cleanup
    BY <1>21 DEF Cleanup, Serves, Over, Raise
  <1>22. CASE Close
    BY <1>22 DEF Close, Goto
  <1>23. CASE ReadLog
    BY <1>23 DEF ReadLog, Goto, Found
  <1>24. CASE Write
    BY <1>24 DEF Write, Goto
  <1>25. CASE Except
    BY <1>25 DEF Except, Goto
  <1>26. CASE Publish
    BY <1>26 DEF Publish, Goto
  <1>27. CASE Exit
    BY <1>27 DEF Exit
  <1>28. CASE Reap
    BY <1>28 DEF Reap
  <1>29. CASE CloseSession
    BY <1>29 DEF CloseSession, Serves, Over
  <1>30. CASE Release
    BY <1>30 DEF Release
  <1>31. CASE UNCHANGED vars
    BY <1>31 DEF vars
  <1>. QED
    BY <1>1, <1>2, <1>3, <1>4, <1>5, <1>6, <1>7, <1>8, <1>9, <1>10, <1>11,
       <1>12, <1>13, <1>14, <1>15, <1>16, <1>17, <1>18, <1>19, <1>20,
       <1>21, <1>22, <1>23, <1>24, <1>25, <1>26, <1>27, <1>28, <1>29,
       <1>30, <1>31
    DEF Next, Served, Coroutine

\* Nothing excessive was measured: no sample is over the budget.
LEMMA WithinBudget ==
  ASSUME NEW growth \in Seq(Nat), ~Excessive(growth), NEW i \in 1..Len(growth)
  PROVE  growth[i] <= Budget
  <1>1. ~(growth[i] > Budget)
    BY Zenon DEF Excessive
  <1>2. growth[i] \in Nat /\ Budget \in Nat
    BY LifecycleAssumption DEF LifecycleAssumption
  <1>. QED
    BY <1>1, <1>2

\* A session does not outlive its cycle.
LEMMA IsolatedStep == Types /\ Counting /\ Isolated /\ [Next]_vars => Isolated'
  <1> SUFFICES ASSUME Types /\ Counting /\ Isolated, [Next]_vars PROVE Isolated'
    OBVIOUS
  <1> USE DEF Types, Data, Places, Counting, Cycle, InCycle, Talking, Judging, Ending, vars, baresip, talk, control, judgement, files, history, Isolated, Errors
  <1>1. CASE CreateSession
    BY <1>1 DEF CreateSession, Goto, RaiseInCycle, Serves
  <1>2. CASE Describe
    BY <1>2 DEF Describe, Goto, Serves
  <1>3. CASE Open
    BY <1>3 DEF Open, Goto, Serves
  <1>4. CASE Exchange
    BY <1>4 DEF Exchange, Goto, Serves
  <1>5. CASE ShutChannel
    BY <1>5 DEF ShutChannel, Goto, Serves
  <1>6. CASE Replace
    BY <1>6 DEF Replace, Goto, Serves, Found
  <1>7. CASE SessionMissing
    BY <1>7 DEF SessionMissing, Goto
  <1>8. CASE Delete
    BY <1>8 DEF Delete, Goto, Serves, Over, Found
  <1>9. CASE Start
    BY <1>9 DEF Start, Goto
  <1>10. CASE StartFails
    BY <1>10 DEF StartFails, Raise
  <1>11. CASE Baseline
    BY <1>11 DEF Baseline, Goto, Raise
  <1>12. CASE BeginCycle
    BY <1>12 DEF BeginCycle, Goto
  <1>13. CASE Snapshot
    BY <1>13 DEF Snapshot, Goto, Raise, Found
  <1>14. CASE Analyse
    BY <1>14 DEF Analyse, Goto, Found
  <1>15. CASE Accept
    BY <1>15 DEF Accept, Goto
  <1>16. CASE CycleFails
    BY <1>16 DEF CycleFails, RaiseInCycle
  <1>17. CASE ReplaceFails
    BY <1>17 DEF ReplaceFails, Goto, Found, RaiseInCycle
  <1>18. CASE LeavePeer
    BY <1>18 DEF LeavePeer, Goto, RaiseInCycle
  <1>19. CASE MissingFails
    BY <1>19 DEF MissingFails, Goto, Found, RaiseInCycle
  <1>20. CASE DeleteFails
    BY <1>20 DEF DeleteFails, RaiseInCycle, Serves, Over
  <1>21. CASE Cleanup
    BY <1>21 DEF Cleanup, Serves, Over, Raise
  <1>22. CASE Close
    BY <1>22 DEF Close, Goto
  <1>23. CASE ReadLog
    BY <1>23 DEF ReadLog, Goto, Found
  <1>24. CASE Write
    BY <1>24 DEF Write, Goto
  <1>25. CASE Except
    BY <1>25 DEF Except, Goto
  <1>26. CASE Publish
    BY <1>26 DEF Publish, Goto
  <1>27. CASE Exit
    BY <1>27 DEF Exit
  <1>28. CASE Reap
    BY <1>28 DEF Reap
  <1>29. CASE CloseSession
    BY <1>29 DEF CloseSession, Serves, Over
  <1>30. CASE Release
    BY <1>30 DEF Release
  <1>31. CASE UNCHANGED vars
    BY <1>31 DEF vars
  <1>. QED
    BY <1>1, <1>2, <1>3, <1>4, <1>5, <1>6, <1>7, <1>8, <1>9, <1>10, <1>11,
       <1>12, <1>13, <1>14, <1>15, <1>16, <1>17, <1>18, <1>19, <1>20,
       <1>21, <1>22, <1>23, <1>24, <1>25, <1>26, <1>27, <1>28, <1>29,
       <1>30, <1>31
    DEF Next, Served, Coroutine

\* A deadline is blamed on the cycle in which it passed.
LEMMA BlamedStep == Types /\ Counting /\ Blamed /\ [Next]_vars => Blamed'
  <1> SUFFICES ASSUME Types /\ Counting /\ Blamed, [Next]_vars PROVE Blamed'
    OBVIOUS
  <1> USE DEF Types, Data, Places, Counting, Cycle, InCycle, Talking, Judging, Ending, vars, baresip, talk, control, judgement, files, history, Blamed, FailMeansRan, Errors
  <1>1. CASE CreateSession
    BY <1>1 DEF CreateSession, Goto, RaiseInCycle, Serves
  <1>2. CASE Describe
    BY <1>2 DEF Describe, Goto, Serves
  <1>3. CASE Open
    BY <1>3 DEF Open, Goto, Serves
  <1>4. CASE Exchange
    BY <1>4 DEF Exchange, Goto, Serves
  <1>5. CASE ShutChannel
    BY <1>5 DEF ShutChannel, Goto, Serves
  <1>6. CASE Replace
    BY <1>6 DEF Replace, Goto, Serves, Found
  <1>7. CASE SessionMissing
    BY <1>7 DEF SessionMissing, Goto
  <1>8. CASE Delete
    BY <1>8 DEF Delete, Goto, Serves, Over, Found
  <1>9. CASE Start
    BY <1>9 DEF Start, Goto
  <1>10. CASE StartFails
    BY <1>10 DEF StartFails, Raise
  <1>11. CASE Baseline
    BY <1>11 DEF Baseline, Goto, Raise
  <1>12. CASE BeginCycle
    BY <1>12 DEF BeginCycle, Goto
  <1>13. CASE Snapshot
    BY <1>13 DEF Snapshot, Goto, Raise, Found
  <1>14. CASE Analyse
    BY <1>14 DEF Analyse, Goto, Found
  <1>15. CASE Accept
    BY <1>15 DEF Accept, Goto
  <1>16. CASE CycleFails
    BY <1>16 DEF CycleFails, RaiseInCycle
  <1>17. CASE ReplaceFails
    BY <1>17 DEF ReplaceFails, Goto, Found, RaiseInCycle
  <1>18. CASE LeavePeer
    BY <1>18 DEF LeavePeer, Goto, RaiseInCycle
  <1>19. CASE MissingFails
    BY <1>19 DEF MissingFails, Goto, Found, RaiseInCycle
  <1>20. CASE DeleteFails
    BY <1>20 DEF DeleteFails, RaiseInCycle, Serves, Over
  <1>21. CASE Cleanup
    BY <1>21 DEF Cleanup, Serves, Over, Raise
  <1>22. CASE Close
    BY <1>22 DEF Close, Goto
  <1>23. CASE ReadLog
    BY <1>23 DEF ReadLog, Goto, Found
  <1>24. CASE Write
    BY <1>24 DEF Write, Goto
  <1>25. CASE Except
    BY <1>25 DEF Except, Goto
  <1>26. CASE Publish
    BY <1>26 DEF Publish, Goto
  <1>27. CASE Exit
    BY <1>27 DEF Exit
  <1>28. CASE Reap
    BY <1>28 DEF Reap
  <1>29. CASE CloseSession
    BY <1>29 DEF CloseSession, Serves, Over
  <1>30. CASE Release
    BY <1>30 DEF Release
  <1>31. CASE UNCHANGED vars
    BY <1>31 DEF vars
  <1>. QED
    BY <1>1, <1>2, <1>3, <1>4, <1>5, <1>6, <1>7, <1>8, <1>9, <1>10, <1>11,
       <1>12, <1>13, <1>14, <1>15, <1>16, <1>17, <1>18, <1>19, <1>20,
       <1>21, <1>22, <1>23, <1>24, <1>25, <1>26, <1>27, <1>28, <1>29,
       <1>30, <1>31
    DEF Next, Served, Coroutine

\* A cycle that baresip did not follow leaves a failure.
LEMMA FollowedStep == Types /\ Counting /\ Isolated /\ Followed /\ [Next]_vars => Followed'
  <1> SUFFICES ASSUME Types /\ Counting /\ Isolated /\ Followed, [Next]_vars PROVE Followed'
    OBVIOUS
  <1> USE DEF Types, Data, Places, Counting, Cycle, InCycle, Talking, Judging, Ending, vars, baresip, talk, control, judgement, files, history, Isolated, Followed, FollowedIn, Ended, Errors
  <1>0. /\ cycle \in Nat /\ \A c \in 0..(cycle - 1) : c \in Cycle /\ c # cycle
        /\ pc \in InCycle \cup {"snapshot"} => cycle \in Cycle
    BY LifecycleAssumption DEF LifecycleAssumption
  <1>1. CASE CreateSession
    BY <1>1 DEF CreateSession, Goto, RaiseInCycle, Serves
  <1>2. CASE Describe
    BY <1>2 DEF Describe, Goto, Serves
  <1>3. CASE Open
    BY <1>3 DEF Open, Goto, Serves
  <1>4. CASE Exchange
    BY <1>4 DEF Exchange, Goto, Serves
  <1>5. CASE ShutChannel
    BY <1>5 DEF ShutChannel, Goto, Serves
  <1>6. CASE Replace
    BY <1>6 DEF Replace, Goto, Serves, Found
  <1>7. CASE SessionMissing
    BY <1>7 DEF SessionMissing, Goto
  <1>8. CASE Delete
    <2>1. cycle \in Cycle /\ \A c \in 0..(cycle - 1) : session'[c] = session[c]
      BY <1>8, <1>0 DEF Delete, Over
    <2>2. pc = "delete" /\ pc' = "cleanup" /\ UNCHANGED <<cycle, reused>>
      BY <1>8 DEF Delete, Goto
    <2>3. failures \subseteq failures'
      BY <1>8 DEF Delete, Found
    <2>4. failures' = {} => FollowedIn(cycle)'
      <3>1. CASE Serves("closed") /\ ~Even(cycle) /\ UNCHANGED session
        BY <3>1, <2>2 DEF Serves
      <3>2. CASE Over("deleted") /\ (~Even(cycle) /\ remoteClosed => failures' # {})
        <4>1. session'[cycle] = "deleted"
          BY <2>1, <3>2 DEF Over
        <4>2. failures' = {} => Even(cycle) /\ cycle \in reused
          BY <2>2, <2>3, <3>2
        <4>. QED
          BY <2>2, <4>1, <4>2
      <3>. QED
        BY <1>8, <3>1, <3>2 DEF Delete, Found
    <2>. QED
      BY <2>1, <2>2, <2>3, <2>4
  <1>9. CASE Start
    BY <1>9 DEF Start, Goto
  <1>10. CASE StartFails
    BY <1>10 DEF StartFails, Raise
  <1>11. CASE Baseline
    BY <1>11 DEF Baseline, Goto, Raise
  <1>12. CASE BeginCycle
    BY <1>12 DEF BeginCycle, Goto
  <1>13. CASE Snapshot
    BY <1>13 DEF Snapshot, Goto, Raise, Found
  <1>14. CASE Analyse
    BY <1>14 DEF Analyse, Goto, Found
  <1>15. CASE Accept
    BY <1>15 DEF Accept, Goto
  <1>16. CASE CycleFails
    BY <1>16 DEF CycleFails, RaiseInCycle
  <1>17. CASE ReplaceFails
    BY <1>17 DEF ReplaceFails, Goto, Found, RaiseInCycle
  <1>18. CASE LeavePeer
    BY <1>18 DEF LeavePeer, Goto, RaiseInCycle
  <1>19. CASE MissingFails
    BY <1>19 DEF MissingFails, Goto, Found, RaiseInCycle
  <1>20. CASE DeleteFails
    <2>1. \A c \in 0..(cycle - 1) : session'[c] = session[c]
      BY <1>20, <1>0 DEF DeleteFails, Over
    <2>2. Ended => session'[cycle] = session[cycle]
      BY <1>20, <1>0 DEF DeleteFails
    <2>3. UNCHANGED <<cycle, reused, remoteClosed, failures>>
      BY <1>20 DEF DeleteFails
    <2>4. pc' # "delete" /\ pc' \notin {"shut", "replace", "leave", "missing"}
             /\ (Ended' => Ended)
      BY <1>20 DEF DeleteFails, RaiseInCycle
    <2>. QED
      BY <2>1, <2>2, <2>3, <2>4
  <1>21. CASE Cleanup
    <2>1. \A c \in 0..(cycle - 1) : session'[c] = session[c]
      BY <1>21, <1>0 DEF Cleanup, Over
    <2>2. Ended => session'[cycle] = session[cycle]
      BY <1>21, <1>0 DEF Cleanup, Serves, Over
    <2>3. UNCHANGED <<cycle, reused, remoteClosed, failures>>
      BY <1>21 DEF Cleanup
    <2>4. pc' # "delete" /\ pc' \notin {"shut", "replace", "leave", "missing"}
             /\ (Ended' => Ended)
      BY <1>21 DEF Cleanup, Raise
    <2>. QED
      BY <2>1, <2>2, <2>3, <2>4
  <1>22. CASE Close
    <2>1. \A c \in 0..(cycle - 1) : session'[c] = session[c]
      BY <1>22, <1>0 DEF Close
    <2>2. Ended => session'[cycle] = session[cycle]
      BY <1>22, <1>0 DEF Close
    <2>3. UNCHANGED <<cycle, reused, remoteClosed, failures>>
      BY <1>22 DEF Close
    <2>4. pc' # "delete" /\ pc' \notin {"shut", "replace", "leave", "missing"}
             /\ (Ended' => Ended)
      BY <1>22 DEF Close, Goto
    <2>. QED
      BY <2>1, <2>2, <2>3, <2>4
  <1>23. CASE ReadLog
    BY <1>23 DEF ReadLog, Goto, Found
  <1>24. CASE Write
    BY <1>24 DEF Write, Goto
  <1>25. CASE Except
    BY <1>25 DEF Except, Goto
  <1>26. CASE Publish
    BY <1>26 DEF Publish, Goto
  <1>27. CASE Exit
    <2>1. \A c \in 0..(cycle - 1) : session'[c] = session[c]
      BY <1>27, <1>0 DEF Exit
    <2>2. Ended => session'[cycle] = session[cycle]
      BY <1>27, <1>0 DEF Exit
    <2>3. UNCHANGED <<cycle, reused, remoteClosed, failures>>
      BY <1>27 DEF Exit
    <2>4. UNCHANGED <<pc, error>>
      BY <1>27 DEF Exit
    <2>. QED
      BY <2>1, <2>2, <2>3, <2>4
  <1>28. CASE Reap
    BY <1>28 DEF Reap
  <1>29. CASE CloseSession
    BY <1>29 DEF CloseSession, Serves, Over
  <1>30. CASE Release
    BY <1>30 DEF Release
  <1>31. CASE UNCHANGED vars
    BY <1>31 DEF vars
  <1>. QED
    BY <1>1, <1>2, <1>3, <1>4, <1>5, <1>6, <1>7, <1>8, <1>9, <1>10, <1>11,
       <1>12, <1>13, <1>14, <1>15, <1>16, <1>17, <1>18, <1>19, <1>20,
       <1>21, <1>22, <1>23, <1>24, <1>25, <1>26, <1>27, <1>28, <1>29,
       <1>30, <1>31
    DEF Next, Served, Coroutine

\* Resources do not grow after the last sample.
LEMMA MeasuredStep == Types /\ Counting /\ Isolated /\ Measured /\ [Next]_vars => Measured'
  <1> SUFFICES ASSUME Types /\ Counting /\ Isolated /\ Measured, [Next]_vars PROVE Measured'
    OBVIOUS
  <1> USE DEF Types, Data, Places, Counting, Cycle, InCycle, Talking, Judging, Ending, vars, baresip, talk, control, judgement, files, history, Isolated, Measured
  <1>0. Budget \in Nat /\ (cycle > 0 => samples[cycle] \in Nat)
    BY LifecycleAssumption DEF LifecycleAssumption
  <1>1. CASE CreateSession
    BY <1>1, <1>0 DEF CreateSession, Goto, RaiseInCycle, Serves
  <1>2. CASE Describe
    BY <1>2, <1>0 DEF Describe, Goto, Serves
  <1>3. CASE Open
    BY <1>3, <1>0 DEF Open, Goto, Serves
  <1>4. CASE Exchange
    BY <1>4, <1>0 DEF Exchange, Goto, Serves
  <1>5. CASE ShutChannel
    BY <1>5, <1>0 DEF ShutChannel, Goto, Serves
  <1>6. CASE Replace
    BY <1>6, <1>0 DEF Replace, Goto, Serves, Found
  <1>7. CASE SessionMissing
    BY <1>7, <1>0 DEF SessionMissing, Goto
  <1>8. CASE Delete
    BY <1>8, <1>0 DEF Delete, Goto, Serves, Over, Found
  <1>9. CASE Start
    BY <1>9, <1>0 DEF Start, Goto
  <1>10. CASE StartFails
    BY <1>10, <1>0 DEF StartFails, Raise
  <1>11. CASE Baseline
    BY <1>11, <1>0 DEF Baseline, Goto, Raise
  <1>12. CASE BeginCycle
    BY <1>12, <1>0 DEF BeginCycle, Goto
  <1>13. CASE Snapshot
    <2>1. CASE samples' = Append(samples, Units) /\ cycle' = cycle + 1
      <3>1. samples'[cycle'] = Units /\ Len(samples) = cycle
        BY <2>1, SampleIsNatural, AppendProperties
      <3>2. own \in {"running", "dead"} /\ UNCHANGED <<own, retained>>
            /\ pc' \notin Judging
        BY <1>13, <2>1 DEF Snapshot, Goto, Raise
      <3>3. retained <= Units
        BY <3>2, SampleIsNatural DEF Units
      <3>. QED
        BY <3>1, <3>2, <3>3
    <2>2. CASE pc' = "except"
      BY <1>13, <2>2 DEF Snapshot
    <2>. QED
      BY <1>13, <2>1, <2>2 DEF Snapshot, Goto, Raise, Units
  <1>14. CASE Analyse
    <2>1. retained <= samples[cycle] /\ cycle > 0
      BY <1>14 DEF Analyse
    <2>2. failures' = {} => ~Excessive(samples) /\ ~mismatch
      BY <1>14 DEF Analyse, Found
    <2>3. failures' = {} => samples[cycle] <= Budget
      BY <2>1, <2>2, WithinBudget
    <2>4. UNCHANGED <<own, retained, samples, cycle, mismatch>> /\ pc' = "close"
      BY <1>14 DEF Analyse, Goto
    <2>5. failures' = {} => retained <= Budget
      BY <1>0, <2>1, <2>3
    <2>. QED
      BY <2>1, <2>2, <2>4, <2>5
  <1>15. CASE Accept
    BY <1>15, <1>0 DEF Accept, Goto
  <1>16. CASE CycleFails
    BY <1>16, <1>0 DEF CycleFails, RaiseInCycle
  <1>17. CASE ReplaceFails
    BY <1>17, <1>0 DEF ReplaceFails, Goto, Found, RaiseInCycle
  <1>18. CASE LeavePeer
    BY <1>18, <1>0 DEF LeavePeer, Goto, RaiseInCycle
  <1>19. CASE MissingFails
    BY <1>19, <1>0 DEF MissingFails, Goto, Found, RaiseInCycle
  <1>20. CASE DeleteFails
    BY <1>20, <1>0 DEF DeleteFails, RaiseInCycle, Serves, Over
  <1>21. CASE Cleanup
    BY <1>21, <1>0 DEF Cleanup, Serves, Over, Raise
  <1>22. CASE Close
    BY <1>22, <1>0 DEF Close, Goto
  <1>23. CASE ReadLog
    BY <1>23, <1>0 DEF ReadLog, Goto, Found
  <1>24. CASE Write
    BY <1>24, <1>0 DEF Write, Goto
  <1>25. CASE Except
    BY <1>25, <1>0 DEF Except, Goto
  <1>26. CASE Publish
    BY <1>26, <1>0 DEF Publish, Goto
  <1>27. CASE Exit
    BY <1>27, <1>0 DEF Exit
  <1>28. CASE Reap
    BY <1>28, <1>0 DEF Reap
  <1>29. CASE CloseSession
    <2>1. cycle \in Cycle /\ session[cycle] = "open"
      BY <1>29, LifecycleAssumption DEF LifecycleAssumption, CloseSession, Serves
    <2>2. pc \notin {"cycle"} \cup Judging /\ own = "running"
      BY <1>29, <2>1 DEF CloseSession
    <2>. QED
      BY <1>29, <2>2 DEF CloseSession
  <1>30. CASE Release
    BY <1>30, <1>0 DEF Release
  <1>31. CASE UNCHANGED vars
    BY <1>31 DEF vars
  <1>. QED
    BY <1>1, <1>2, <1>3, <1>4, <1>5, <1>6, <1>7, <1>8, <1>9, <1>10, <1>11,
       <1>12, <1>13, <1>14, <1>15, <1>16, <1>17, <1>18, <1>19, <1>20,
       <1>21, <1>22, <1>23, <1>24, <1>25, <1>26, <1>27, <1>28, <1>29,
       <1>30, <1>31
    DEF Next, Served, Coroutine

\* A PASS is decided once.
LEMMA PassedStep == Types /\ Counting /\ Measured /\ Passed /\ [Next]_vars => Passed'
  <1> SUFFICES ASSUME Types /\ Counting /\ Measured /\ Passed, [Next]_vars PROVE Passed'
    OBVIOUS
  <1> USE DEF Types, Data, Places, Counting, Cycle, InCycle, Talking, Judging, Ending, vars, baresip, talk, control, judgement, files, history, Measured, Passed
  <1>0. Budget \in Nat /\ (cycle > 0 => samples[cycle] \in Nat)
    BY LifecycleAssumption DEF LifecycleAssumption
  <1>1. CASE CreateSession
    BY <1>1, <1>0 DEF CreateSession, Goto, RaiseInCycle, Serves
  <1>2. CASE Describe
    BY <1>2, <1>0 DEF Describe, Goto, Serves
  <1>3. CASE Open
    BY <1>3, <1>0 DEF Open, Goto, Serves
  <1>4. CASE Exchange
    BY <1>4, <1>0 DEF Exchange, Goto, Serves
  <1>5. CASE ShutChannel
    BY <1>5, <1>0 DEF ShutChannel, Goto, Serves
  <1>6. CASE Replace
    BY <1>6, <1>0 DEF Replace, Goto, Serves, Found
  <1>7. CASE SessionMissing
    BY <1>7, <1>0 DEF SessionMissing, Goto
  <1>8. CASE Delete
    BY <1>8, <1>0 DEF Delete, Goto, Serves, Over, Found
  <1>9. CASE Start
    BY <1>9, <1>0 DEF Start, Goto
  <1>10. CASE StartFails
    BY <1>10, <1>0 DEF StartFails, Raise
  <1>11. CASE Baseline
    BY <1>11, <1>0 DEF Baseline, Goto, Raise
  <1>12. CASE BeginCycle
    BY <1>12, <1>0 DEF BeginCycle, Goto
  <1>13. CASE Snapshot
    BY <1>13, <1>0 DEF Snapshot, Goto, Raise, Found
  <1>14. CASE Analyse
    BY <1>14, <1>0 DEF Analyse, Goto, Found
  <1>15. CASE Accept
    BY <1>15, <1>0 DEF Accept, Goto
  <1>16. CASE CycleFails
    BY <1>16, <1>0 DEF CycleFails, RaiseInCycle
  <1>17. CASE ReplaceFails
    BY <1>17, <1>0 DEF ReplaceFails, Goto, Found, RaiseInCycle
  <1>18. CASE LeavePeer
    BY <1>18, <1>0 DEF LeavePeer, Goto, RaiseInCycle
  <1>19. CASE MissingFails
    BY <1>19, <1>0 DEF MissingFails, Goto, Found, RaiseInCycle
  <1>20. CASE DeleteFails
    BY <1>20, <1>0 DEF DeleteFails, RaiseInCycle, Serves, Over
  <1>21. CASE Cleanup
    BY <1>21, <1>0 DEF Cleanup, Serves, Over, Raise
  <1>22. CASE Close
    BY <1>22, <1>0 DEF Close, Goto
  <1>23. CASE ReadLog
    BY <1>23, <1>0 DEF ReadLog, Goto, Found
  <1>24. CASE Write
    BY <1>24, <1>0 DEF Write, Goto
  <1>25. CASE Except
    BY <1>25, <1>0 DEF Except, Goto
  <1>26. CASE Publish
    BY <1>26, <1>0 DEF Publish, Goto
  <1>27. CASE Exit
    BY <1>27, <1>0 DEF Exit
  <1>28. CASE Reap
    BY <1>28, <1>0 DEF Reap
  <1>29. CASE CloseSession
    BY <1>29, <1>0 DEF CloseSession, Serves, Over
  <1>30. CASE Release
    BY <1>30, <1>0 DEF Release
  <1>31. CASE UNCHANGED vars
    BY <1>31 DEF vars
  <1>. QED
    BY <1>1, <1>2, <1>3, <1>4, <1>5, <1>6, <1>7, <1>8, <1>9, <1>10, <1>11,
       <1>12, <1>13, <1>14, <1>15, <1>16, <1>17, <1>18, <1>19, <1>20,
       <1>21, <1>22, <1>23, <1>24, <1>25, <1>26, <1>27, <1>28, <1>29,
       <1>30, <1>31
    DEF Next, Served, Coroutine

\* The result is written last.
LEMMA FilesStep == Types /\ Counting /\ Passed /\ Files /\ [Next]_vars => Files'
  <1> SUFFICES ASSUME Types /\ Counting /\ Passed /\ Files, [Next]_vars PROVE Files'
    OBVIOUS
  <1> USE DEF Types, Data, Places, Counting, Cycle, InCycle, Talking, Judging, Ending, vars, baresip, talk, control, judgement, files, history, Files, Identity
  <1>1. CASE CreateSession
    BY <1>1 DEF CreateSession, Goto, RaiseInCycle, Serves
  <1>2. CASE Describe
    BY <1>2 DEF Describe, Goto, Serves
  <1>3. CASE Open
    BY <1>3 DEF Open, Goto, Serves
  <1>4. CASE Exchange
    BY <1>4 DEF Exchange, Goto, Serves
  <1>5. CASE ShutChannel
    BY <1>5 DEF ShutChannel, Goto, Serves
  <1>6. CASE Replace
    BY <1>6 DEF Replace, Goto, Serves, Found
  <1>7. CASE SessionMissing
    BY <1>7 DEF SessionMissing, Goto
  <1>8. CASE Delete
    BY <1>8 DEF Delete, Goto, Serves, Over, Found
  <1>9. CASE Start
    BY <1>9 DEF Start, Goto
  <1>10. CASE StartFails
    BY <1>10 DEF StartFails, Raise
  <1>11. CASE Baseline
    BY <1>11 DEF Baseline, Goto, Raise
  <1>12. CASE BeginCycle
    BY <1>12 DEF BeginCycle, Goto
  <1>13. CASE Snapshot
    BY <1>13 DEF Snapshot, Goto, Raise, Found
  <1>14. CASE Analyse
    BY <1>14 DEF Analyse, Goto, Found
  <1>15. CASE Accept
    BY <1>15 DEF Accept, Goto
  <1>16. CASE CycleFails
    BY <1>16 DEF CycleFails, RaiseInCycle
  <1>17. CASE ReplaceFails
    BY <1>17 DEF ReplaceFails, Goto, Found, RaiseInCycle
  <1>18. CASE LeavePeer
    BY <1>18 DEF LeavePeer, Goto, RaiseInCycle
  <1>19. CASE MissingFails
    BY <1>19 DEF MissingFails, Goto, Found, RaiseInCycle
  <1>20. CASE DeleteFails
    BY <1>20 DEF DeleteFails, RaiseInCycle, Serves, Over
  <1>21. CASE Cleanup
    BY <1>21 DEF Cleanup, Serves, Over, Raise
  <1>22. CASE Close
    BY <1>22 DEF Close, Goto
  <1>23. CASE ReadLog
    BY <1>23 DEF ReadLog, Goto, Found
  <1>24. CASE Write
    BY <1>24 DEF Write, Goto
  <1>25. CASE Except
    BY <1>25 DEF Except, Goto
  <1>26. CASE Publish
    BY <1>26 DEF Publish, Goto
  <1>27. CASE Exit
    BY <1>27 DEF Exit
  <1>28. CASE Reap
    BY <1>28 DEF Reap
  <1>29. CASE CloseSession
    BY <1>29 DEF CloseSession, Serves, Over
  <1>30. CASE Release
    BY <1>30 DEF Release
  <1>31. CASE UNCHANGED vars
    BY <1>31 DEF vars
  <1>. QED
    BY <1>1, <1>2, <1>3, <1>4, <1>5, <1>6, <1>7, <1>8, <1>9, <1>10, <1>11,
       <1>12, <1>13, <1>14, <1>15, <1>16, <1>17, <1>18, <1>19, <1>20,
       <1>21, <1>22, <1>23, <1>24, <1>25, <1>26, <1>27, <1>28, <1>29,
       <1>30, <1>31
    DEF Next, Served, Coroutine

\* The invariant holds always.
LEMMA Correct == Spec => []IInv
  <1>1. IInv /\ [Next]_vars => IInv'
    <2> SUFFICES ASSUME IInv, [Next]_vars PROVE IInv'
      OBVIOUS
    <2>1. Types'
      BY DataStep, PlacesStep, FlagsStep DEF IInv, Types
    <2>2. Counting' /\ Isolated' /\ Blamed'
      BY CountingStep, IsolatedStep, BlamedStep DEF IInv
    <2>3. Followed' /\ Measured'
      BY FollowedStep, MeasuredStep DEF IInv
    <2>4. Passed' /\ Files'
      BY PassedStep, FilesStep DEF IInv
    <2>. QED
      BY <2>1, <2>2, <2>3, <2>4 DEF IInv
  <1>. QED
    BY Initially, <1>1, PTL DEF Spec

-----------------------------------------------------------------------------
\* Every variable keeps its type, for any number of cycles.
THEOREM TypeCorrect == Spec => []TypeOK
  <1>1. IInv => TypeOK
    BY TypesAreTypes DEF IInv
  <1>. QED
    BY Correct, <1>1, PTL

\* No cycle starts while baresip has a session of an earlier one: each cycle
\* deletes its session or ends the campaign (delete_session_id).
THEOREM EachCycleAlone == Spec => []CyclesIsolated
  <1>1. IInv => CyclesIsolated
    BY DEF IInv, Isolated, CyclesIsolated
  <1>. QED
    BY Correct, <1>1, PTL

\* A FAIL says that the endpoints ran, and a deadline is blamed only on the
\* cycle that had negotiated (exception_verdict).
THEOREM FailIsBacked == Spec => []FailMeansRan
  <1>1. IInv => FailMeansRan
    BY DEF IInv, Blamed, FailMeansRan
  <1>. QED
    BY Correct, <1>1, PTL

\* A PASS means that baresip closed the session of every peer that left,
\* gave every replacement the stream of its predecessor, echoed in every
\* cycle and retains no more than the budget, for any number of cycles.
THEOREM PassIsFollowed == Spec => []PassMeansFollowed
  <1>1. IInv => PassMeansFollowed
    <2> SUFFICES ASSUME IInv, result = "PASS" PROVE PassMeansFollowed
      BY DEF PassMeansFollowed
    <2>1. outcome = "PASS"
      BY DEF IInv, Files
    <2>2. failures = {} /\ cycle = cycles /\ cycles > 0 /\ ~mismatch
          /\ retained <= Budget
      BY <2>1 DEF IInv, Passed
    <2>3. \A c \in 0..(cycles - 1) : FollowedIn(c)
      BY <2>2 DEF IInv, Followed
    <2>. QED
      BY <2>2, <2>3 DEF PassMeansFollowed, FollowedIn
  <1>. QED
    BY Correct, <1>1, PTL

-----------------------------------------------------------------------------
\* The directory starts as its contract says.
LEMMA ContractInit == Init => Contract!Init
  BY DEF Init, Contract!Init, Identity

\* A step only adds to the evidence.
LEMMA EvidenceGrows ==
  ASSUME [Next]_vars PROVE evidence \subseteq evidence'
  <1> USE DEF files
  <1>1. CASE CreateSession
    BY <1>1 DEF CreateSession, Goto, RaiseInCycle, Serves
  <1>2. CASE Describe
    BY <1>2 DEF Describe, Goto, Serves
  <1>3. CASE Open
    BY <1>3 DEF Open, Goto, Serves
  <1>4. CASE Exchange
    BY <1>4 DEF Exchange, Goto, Serves
  <1>5. CASE ShutChannel
    BY <1>5 DEF ShutChannel, Goto, Serves
  <1>6. CASE Replace
    BY <1>6 DEF Replace, Goto, Serves, Found
  <1>7. CASE SessionMissing
    BY <1>7 DEF SessionMissing, Goto
  <1>8. CASE Delete
    BY <1>8 DEF Delete, Goto, Serves, Over, Found
  <1>9. CASE Start
    BY <1>9 DEF Start, Goto
  <1>10. CASE StartFails
    BY <1>10 DEF StartFails, Raise
  <1>11. CASE Baseline
    BY <1>11 DEF Baseline, Goto, Raise
  <1>12. CASE BeginCycle
    BY <1>12 DEF BeginCycle, Goto
  <1>13. CASE Snapshot
    BY <1>13 DEF Snapshot, Goto, Raise, Found
  <1>14. CASE Analyse
    BY <1>14 DEF Analyse, Goto, Found
  <1>15. CASE Accept
    BY <1>15 DEF Accept, Goto
  <1>16. CASE CycleFails
    BY <1>16 DEF CycleFails, RaiseInCycle
  <1>17. CASE ReplaceFails
    BY <1>17 DEF ReplaceFails, Goto, Found, RaiseInCycle
  <1>18. CASE LeavePeer
    BY <1>18 DEF LeavePeer, Goto, RaiseInCycle
  <1>19. CASE MissingFails
    BY <1>19 DEF MissingFails, Goto, Found, RaiseInCycle
  <1>20. CASE DeleteFails
    BY <1>20 DEF DeleteFails, RaiseInCycle, Serves, Over
  <1>21. CASE Cleanup
    BY <1>21 DEF Cleanup, Serves, Over, Raise
  <1>22. CASE Close
    BY <1>22 DEF Close, Goto
  <1>23. CASE ReadLog
    BY <1>23 DEF ReadLog, Goto, Found
  <1>24. CASE Write
    BY <1>24 DEF Write, Goto
  <1>25. CASE Except
    BY <1>25 DEF Except, Goto
  <1>26. CASE Publish
    BY <1>26 DEF Publish, Goto
  <1>27. CASE Exit
    BY <1>27 DEF Exit
  <1>28. CASE Reap
    BY <1>28 DEF Reap
  <1>29. CASE CloseSession
    BY <1>29 DEF CloseSession, Serves, Over
  <1>30. CASE Release
    BY <1>30 DEF Release
  <1>31. CASE UNCHANGED vars
    BY <1>31 DEF vars, baresip, talk, files
  <1>. QED
    BY <1>1, <1>2, <1>3, <1>4, <1>5, <1>6, <1>7, <1>8, <1>9, <1>10, <1>11,
       <1>12, <1>13, <1>14, <1>15, <1>16, <1>17, <1>18, <1>19, <1>20,
       <1>21, <1>22, <1>23, <1>24, <1>25, <1>26, <1>27, <1>28, <1>29,
       <1>30, <1>31
    DEF Next, Served, Coroutine

\* Every step but publishing leaves the result alone.
LEMMA ResultKept ==
  ASSUME [Next]_vars, ~Publish PROVE result' = result
  <1> USE DEF files
  <1>1. CASE CreateSession
    BY <1>1 DEF CreateSession, Goto, RaiseInCycle, Serves
  <1>2. CASE Describe
    BY <1>2 DEF Describe, Goto, Serves
  <1>3. CASE Open
    BY <1>3 DEF Open, Goto, Serves
  <1>4. CASE Exchange
    BY <1>4 DEF Exchange, Goto, Serves
  <1>5. CASE ShutChannel
    BY <1>5 DEF ShutChannel, Goto, Serves
  <1>6. CASE Replace
    BY <1>6 DEF Replace, Goto, Serves, Found
  <1>7. CASE SessionMissing
    BY <1>7 DEF SessionMissing, Goto
  <1>8. CASE Delete
    BY <1>8 DEF Delete, Goto, Serves, Over, Found
  <1>9. CASE Start
    BY <1>9 DEF Start, Goto
  <1>10. CASE StartFails
    BY <1>10 DEF StartFails, Raise
  <1>11. CASE Baseline
    BY <1>11 DEF Baseline, Goto, Raise
  <1>12. CASE BeginCycle
    BY <1>12 DEF BeginCycle, Goto
  <1>13. CASE Snapshot
    BY <1>13 DEF Snapshot, Goto, Raise, Found
  <1>14. CASE Analyse
    BY <1>14 DEF Analyse, Goto, Found
  <1>15. CASE Accept
    BY <1>15 DEF Accept, Goto
  <1>16. CASE CycleFails
    BY <1>16 DEF CycleFails, RaiseInCycle
  <1>17. CASE ReplaceFails
    BY <1>17 DEF ReplaceFails, Goto, Found, RaiseInCycle
  <1>18. CASE LeavePeer
    BY <1>18 DEF LeavePeer, Goto, RaiseInCycle
  <1>19. CASE MissingFails
    BY <1>19 DEF MissingFails, Goto, Found, RaiseInCycle
  <1>20. CASE DeleteFails
    BY <1>20 DEF DeleteFails, RaiseInCycle, Serves, Over
  <1>21. CASE Cleanup
    BY <1>21 DEF Cleanup, Serves, Over, Raise
  <1>22. CASE Close
    BY <1>22 DEF Close, Goto
  <1>23. CASE ReadLog
    BY <1>23 DEF ReadLog, Goto, Found
  <1>24. CASE Write
    BY <1>24 DEF Write, Goto
  <1>25. CASE Except
    BY <1>25 DEF Except, Goto
  <1>27. CASE Exit
    BY <1>27 DEF Exit
  <1>28. CASE Reap
    BY <1>28 DEF Reap
  <1>29. CASE CloseSession
    BY <1>29 DEF CloseSession, Serves, Over
  <1>30. CASE Release
    BY <1>30 DEF Release
  <1>31. CASE UNCHANGED vars
    BY <1>31 DEF vars, baresip, talk, files
  <1>. QED
    BY <1>1, <1>2, <1>3, <1>4, <1>5, <1>6, <1>7, <1>8, <1>9, <1>10, <1>11,
       <1>12, <1>13, <1>14, <1>15, <1>16, <1>17, <1>18, <1>19, <1>20,
       <1>21, <1>22, <1>23, <1>24, <1>25, <1>27, <1>28, <1>29,
       <1>30, <1>31
    DEF Next, Served, Coroutine

\* Once it is written nothing moves.
LEMMA Finished ==
  ASSUME IInv, [Next]_vars, pc = "done"
  PROVE  UNCHANGED <<evidence, own, peer, result>>
  <1> USE DEF IInv, Files, baresip, talk, files
  <1>1. CASE CreateSession
    BY <1>1 DEF CreateSession, Goto, RaiseInCycle, Serves
  <1>2. CASE Describe
    BY <1>2 DEF Describe, Goto, Serves
  <1>3. CASE Open
    BY <1>3 DEF Open, Goto, Serves
  <1>4. CASE Exchange
    BY <1>4 DEF Exchange, Goto, Serves
  <1>5. CASE ShutChannel
    BY <1>5 DEF ShutChannel, Goto, Serves
  <1>6. CASE Replace
    BY <1>6 DEF Replace, Goto, Serves, Found
  <1>7. CASE SessionMissing
    BY <1>7 DEF SessionMissing, Goto
  <1>8. CASE Delete
    BY <1>8 DEF Delete, Goto, Serves, Over, Found
  <1>9. CASE Start
    BY <1>9 DEF Start, Goto
  <1>10. CASE StartFails
    BY <1>10 DEF StartFails, Raise
  <1>11. CASE Baseline
    BY <1>11 DEF Baseline, Goto, Raise
  <1>12. CASE BeginCycle
    BY <1>12 DEF BeginCycle, Goto
  <1>13. CASE Snapshot
    BY <1>13 DEF Snapshot, Goto, Raise, Found
  <1>14. CASE Analyse
    BY <1>14 DEF Analyse, Goto, Found
  <1>15. CASE Accept
    BY <1>15 DEF Accept, Goto
  <1>16. CASE CycleFails
    BY <1>16 DEF CycleFails, RaiseInCycle
  <1>17. CASE ReplaceFails
    BY <1>17 DEF ReplaceFails, Goto, Found, RaiseInCycle
  <1>18. CASE LeavePeer
    BY <1>18 DEF LeavePeer, Goto, RaiseInCycle
  <1>19. CASE MissingFails
    BY <1>19 DEF MissingFails, Goto, Found, RaiseInCycle
  <1>20. CASE DeleteFails
    BY <1>20 DEF DeleteFails, RaiseInCycle, Serves, Over
  <1>21. CASE Cleanup
    BY <1>21 DEF Cleanup, Serves, Over, Raise
  <1>22. CASE Close
    BY <1>22 DEF Close, Goto
  <1>23. CASE ReadLog
    BY <1>23 DEF ReadLog, Goto, Found
  <1>24. CASE Write
    BY <1>24 DEF Write, Goto
  <1>25. CASE Except
    BY <1>25 DEF Except, Goto
  <1>26. CASE Publish
    BY <1>26 DEF Publish, Goto
  <1>27. CASE Exit
    BY <1>27 DEF Exit
  <1>28. CASE Reap
    BY <1>28 DEF Reap
  <1>29. CASE CloseSession
    BY <1>29 DEF CloseSession, Serves, Over
  <1>30. CASE Release
    BY <1>30 DEF Release
  <1>31. CASE UNCHANGED vars
    BY <1>31 DEF vars, baresip, talk, files
  <1>. QED
    BY <1>1, <1>2, <1>3, <1>4, <1>5, <1>6, <1>7, <1>8, <1>9, <1>10, <1>11,
       <1>12, <1>13, <1>14, <1>15, <1>16, <1>17, <1>18, <1>19, <1>20,
       <1>21, <1>22, <1>23, <1>24, <1>25, <1>26, <1>27, <1>28, <1>29,
       <1>30, <1>31
    DEF Next, Served, Coroutine

\* Before the result is written, evidence is only collected.
LEMMA CollectStep ==
  ASSUME IInv, IInv', [Next]_vars, result = "none", result' = "none"
  PROVE  Contract!Collect
  <1>1. "result.json" \notin evidence'
    BY DEF IInv, Files, Passed, Types, Places
  <1>2. evidence' \in SUBSET (Identity \cup {"baresip.log", "budgets.json",
          "resource-samples.json", "resource-analysis.json",
          "sent-manifest.json", "received-manifest.json", "result.json"})
    BY DEF IInv, Files
  <1>3. (own' # "none" \/ peer' = "open") \in BOOLEAN
    OBVIOUS
  <1>. QED
    BY <1>1, <1>2, <1>3, EvidenceGrows DEF Contract!Collect

\* Every step of the campaign is one of its contract, or none.
LEMMA ContractStep == IInv /\ IInv' /\ [Next]_vars => [Contract!Next]_(Contract!vars)
  <1> SUFFICES ASSUME IInv, IInv', [Next]_vars PROVE [Contract!Next]_(Contract!vars)
    OBVIOUS
  <1>1. CASE pc = "done"
    BY <1>1, Finished DEF Contract!vars
  <1>2. CASE pc # "done" /\ Publish
    <2>1. result = "none" /\ result' \in {"PASS", "FAIL", "INFRA_ERROR"}
      BY <1>2 DEF IInv, Types, Places, Files, Publish
    <2>2. ~(own # "none" \/ peer = "open")
      BY <1>2 DEF IInv, Files, InCycle, Publish
    <2>3. UNCHANGED <<own, peer>> /\ evidence' = evidence \cup {"result.json"}
      BY <1>2 DEF Publish, baresip, talk
    <2>. QED
      BY <2>1, <2>2, <2>3 DEF Contract!Next, Contract!Publish
  <1>3. CASE pc # "done" /\ ~Publish
    <2>1. result = "none" /\ result' = "none"
      BY <1>3, ResultKept DEF IInv, Files
    <2>. QED
      BY <2>1, CollectStep DEF Contract!Next
  <1>. QED
    BY <1>1, <1>2, <1>3

\* The campaign implements the contract of its evidence directory
\* (docs/evidence-schema.md) for any number of cycles.
THEOREM Refinement == Spec => ImplementsContract
  BY Correct, ContractInit, ContractStep, PTL DEF Spec, ImplementsContract, Contract!Spec

=============================================================================
