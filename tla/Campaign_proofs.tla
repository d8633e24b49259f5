--------------------------- MODULE Campaign_proofs ---------------------------
(***************************************************************************)
(* The promise of the product campaign, for any number of operations and   *)
(* bound artifacts: if nobody has restored an earlier content or rebuilt   *)
(* the manifest file meanwhile, a passing campaign has run every operation *)
(* while every artifact whose content was bound had that content.  And     *)
(* whatever happens to artifacts, manifest and the evidence directory:     *)
(* verdicts are backed by verifications, failed ones leave an              *)
(* infrastructure error, and nothing of two campaigns is mixed.            *)
(***************************************************************************)
EXTENDS Campaign, TLAPS, SequenceTheorems

\* The types the argument needs.
Typed ==
    /\ artifact \in Contents
    /\ bound \in Bindings
    /\ measured \in Bindings
    /\ cursor \in Nat \ {0}
    /\ scenario \in Nat \ {0}
    /\ verdict \in Verdicts
    /\ verdicts \in [Scenarios -> Verdicts \cup {"none"}]

\* The artifacts only move away from their first content, which is what is
\* bound of those that could be examined, and every verification compares
\* with the binding.
Drift ==
    /\ \A a \in Artifacts : bound[a] \in {0, Unknown}
    /\ manifest = bound
    /\ pc = "hash" => expected = bound

\* A content changed during an operation is still changed after it, and the
\* verification that follows has read it so or will still read it.
Evidence ==
    \A a \in Artifacts :
        /\ <<scenario, a>> \in tainted
        /\ bound[a] # Unknown
        /\ pc = "operate" \/ stage = "after"
        =>
        /\ artifact[a] # 0
        /\ pc = "hash" /\ a < cursor => measured[a] # 0

\* Where the operations are: recorded verdicts and started operations lie
\* behind or are at hand, and only started operations pass, those during
\* which nothing changed that is bound.
Progress ==
    /\ stage \in {"start", "before", "after"}
    /\ stage = "start" => scenario = 1
    /\ pc \in {"prepare", "sweep"} => stage = "start" /\ ran = {}
    /\ stage # "start" /\ pc \in {"load", "hash", "operate"} =>
          scenario \in Scenarios
    /\ pc \in {"load", "hash"} /\ stage \in {"start", "before"} =>
          \A a \in Artifacts : <<scenario, a>> \notin tainted
    /\ pc = "operate" \/ (stage = "after" /\ pc \in {"load", "hash"}) =>
          scenario \in ran
    /\ ran \subseteq Scenarios
    /\ tainted \subseteq ran \X Artifacts
    /\ \A s \in ran : s <= scenario
    /\ \A s \in Scenarios : verdicts[s] # "none" => s < scenario
    /\ \A s \in Scenarios :
          verdicts[s] = "PASS" =>
             /\ s \in ran
             /\ \A a \in Artifacts : bound[a] # Unknown => <<s, a>> \notin tainted

PassedOnly ==
    summary = "PASS" => pc = "done" /\ \A s \in Scenarios : verdicts[s] = "PASS"

Quiet == Typed /\ Drift /\ Evidence /\ Progress /\ PassedOnly

\* Disturbances are never forgotten, and nothing is claimed after one.
IInv == disturbed = {} => Quiet

\* What can be learned of an artifact is a version or that it is unknown.
LEMMA BindingTyped ==
  ASSUME artifact \in Contents
  PROVE  /\ \A a \in Artifacts : Examined(a) \in Versions \cup {Unknown}
         /\ Binding \in Bindings
  <1>1. \A a \in Artifacts : Examined(a) \in Versions \cup {Unknown}
    BY DEF Examined, Contents
  <1>. QED
    BY <1>1 DEF Binding, Bindings

LEMMA FirstContent == Original \in Contents /\ Original \in Bindings
  BY CampaignAssumption
     DEF CampaignAssumption, Original, Contents, Bindings, Versions

LEMMA Initially == Init => IInv
  <1> SUFFICES ASSUME Init PROVE IInv
    OBVIOUS
  <1>1. Typed
    BY FirstContent, BindingTyped DEF Init, Typed, Verdicts
  <1>2. Drift
    BY DEF Init, Drift, Original, Binding, Examined
  <1>3. Evidence /\ Progress /\ PassedOnly
    BY DEF Init, Evidence, Progress, PassedOnly
  <1> QED
    BY <1>1, <1>2, <1>3 DEF IInv, Quiet

LEMMA Remembered == [Next]_vars => (disturbed' = {} => disturbed = {})
  <1> SUFFICES ASSUME [Next]_vars, disturbed' = {} PROVE disturbed = {}
    OBVIOUS
  <1> USE DEF environment, verification, results, history
  <1>1. ASSUME NEW a \in Artifacts, NEW v \in Versions, Change(a, v)
        PROVE  disturbed = {}
    BY <1>1 DEF Change
  <1>2. ASSUME NEW v \in Verdicts, OperationReturns(v) PROVE disturbed = {}
    BY <1>2 DEF OperationReturns
  <1>3. CASE Prepare \/ PrepareRefuses \/ Sweep \/ SweepFails \/ MakeDirectory
    BY <1>3 DEF Prepare, PrepareRefuses, Sweep, SweepFails, MakeDirectory
  <1>4. CASE Load \/ Hash \/ StartVerified
    BY <1>4 DEF Load, Hash, StartVerified
  <1>5. CASE BeforeVerified \/ AfterVerified \/ StartFails \/ CheckFails
    BY <1>5 DEF BeforeVerified, AfterVerified, StartFails, CheckFails
  <1>6. CASE OperationRaises \/ Conclude \/ CalibrationRaises \/ Killed
    BY <1>6 DEF OperationRaises, Conclude, CalibrationRaises, Killed
  <1>7. CASE Rewrite
    BY <1>7 DEF Rewrite
  <1>8. ASSUME NEW t \in Trees, Obscure(t) PROVE disturbed = {}
    BY <1>8 DEF Obscure
  <1>9. CASE UNCHANGED vars
    BY <1>9 DEF vars
  <1> QED
    BY <1>1, <1>2, <1>3, <1>4, <1>5, <1>6, <1>7, <1>8, <1>9 DEF Next, Step

LEMMA Invariance == IInv /\ [Next]_vars => IInv'
  <1> SUFFICES ASSUME Quiet, [Next]_vars, disturbed' = {} PROVE Quiet'
    BY Remembered DEF IInv
  <1> USE CampaignAssumption
  <1> USE DEF Quiet, Typed, environment, verification, results, history,
          Artifacts, Scenarios
  <1>1. CASE Prepare \/ Sweep \/ SweepFails \/ MakeDirectory
    <2>1. Typed' /\ Drift' /\ PassedOnly'
      BY <1>1 DEF Prepare, Sweep, SweepFails, MakeDirectory, Abort, Drift,
                  PassedOnly
    <2>2. Progress' /\ Evidence'
      BY <1>1 DEF Prepare, Sweep, SweepFails, MakeDirectory, Abort, Progress,
                  Evidence
    <2> QED
      BY <2>1, <2>2
  <1>2. CASE PrepareRefuses
    BY <1>2 DEF PrepareRefuses, Abort, Drift, Evidence, Progress, PassedOnly
  <1>3. CASE Load
    <2>1. /\ measured' \in Bindings
          /\ cursor' = 1
          /\ cursor' \in Nat \ {0}
      BY <1>3, FirstContent DEF Load
    <2>2. Typed'
      BY <1>3, <2>1 DEF Load
    <2>3. Drift' /\ Progress' /\ PassedOnly'
      BY <1>3 DEF Load, Drift, Progress, PassedOnly
    <2>4. Evidence'
      BY <1>3, <2>1 DEF Load, Evidence
    <2> QED
      BY <2>2, <2>3, <2>4
  <1>4. CASE Hash
    <2>1. Typed'
      <3>1. Examined(cursor) \in Versions \cup {Unknown}
        BY <1>4, BindingTyped DEF Hash
      <3>2. measured' \in Bindings /\ cursor' \in Nat \ {0}
        BY <1>4, <3>1 DEF Hash, Bindings
      <3> QED
        BY <1>4, <3>2 DEF Hash
    <2>2. Drift' /\ Progress' /\ PassedOnly'
      BY <1>4 DEF Hash, Drift, Progress, PassedOnly
    <2>3. Evidence'
      <3>1. \A a \in Artifacts : artifact[a] # 0 => Examined(a) # 0
        BY DEF Examined, CampaignAssumption
      <3>2. \A a \in Artifacts :
               measured'[a] = IF a = cursor THEN Examined(a) ELSE measured[a]
        BY <1>4 DEF Hash, Bindings
      <3>3. \A a \in Artifacts : a < cursor' => a < cursor \/ a = cursor
        BY <1>4 DEF Hash
      <3>4. UNCHANGED <<artifact, bound, pc, stage, scenario, tainted>>
        BY <1>4 DEF Hash
      <3> QED
        BY <1>4, <3>1, <3>2, <3>3, <3>4 DEF Evidence, Hash
    <2> QED
      BY <2>1, <2>2, <2>3
  <1>5. CASE StartVerified
    <2>1. Typed' /\ Drift' /\ PassedOnly'
      BY <1>5 DEF StartVerified, Matches, Drift, PassedOnly
    <2>2. Evidence'
      BY <1>5 DEF StartVerified, Matches, Evidence
    <2>3. Progress'
      <3>1. /\ pc = "hash" /\ stage = "start" /\ stage' = "before"
            /\ pc' \in {"load", "calibrate"}
            /\ pc' = "load" => NumScenarios > 0
            /\ UNCHANGED <<scenario, ran, tainted, verdicts>>
        BY <1>5 DEF StartVerified, Matches
      <3>2. scenario = 1 /\ \A a \in Artifacts : <<scenario, a>> \notin tainted
        BY <3>1 DEF Progress
      <3>3. pc' = "load" => scenario' \in Scenarios'
        BY <3>1, <3>2 DEF CampaignAssumption
      <3> QED
        BY <3>1, <3>2, <3>3 DEF Progress
    <2> QED
      BY <2>1, <2>2, <2>3
  <1>6. CASE BeforeVerified
    <2>1. Typed' /\ Drift' /\ PassedOnly'
      BY <1>6 DEF BeforeVerified, Matches, Drift, PassedOnly
    <2>2. /\ pc = "hash" /\ pc' = "operate" /\ stage = "before"
          /\ ran' = ran \cup {scenario}
          /\ tainted' = tainted \cup
                {<<scenario, a>> : a \in {b \in Artifacts : artifact[b] # 0}}
          /\ UNCHANGED <<artifact, bound, stage, scenario, verdicts>>
      BY <1>6 DEF BeforeVerified, Matches, Original
    <2>3. /\ scenario \in Scenarios /\ ~(verdicts[scenario] = "PASS")
          /\ \A a \in Artifacts : <<scenario, a>> \notin tainted
      BY <2>2 DEF Progress
    <2>4. Progress'
      <3>1. ran' \subseteq Scenarios /\ tainted' \subseteq ran' \X Artifacts
        BY <2>2, <2>3 DEF Progress
      <3>2. \A s \in ran' : s <= scenario'
        BY <2>2 DEF Progress
      <3>3. \A s \in Scenarios, a \in Artifacts :
               s # scenario => (<<s, a>> \in tainted' <=> <<s, a>> \in tainted)
        BY <2>2
      <3>4. \A s \in Scenarios :
               verdicts'[s] = "PASS" =>
                  /\ s \in ran'
                  /\ \A a \in Artifacts :
                        bound'[a] # Unknown => <<s, a>> \notin tainted'
        BY <2>2, <2>3, <3>3 DEF Progress
      <3> QED
        BY <2>2, <2>3, <3>1, <3>2, <3>4 DEF Progress
    <2>5. Evidence'
      <3>1. \A a \in Artifacts : <<scenario, a>> \in tainted' => artifact[a] # 0
        BY <2>2, <2>3
      <3> QED
        BY <2>2, <3>1 DEF Evidence
    <2> QED
      BY <2>1, <2>4, <2>5
  <1>7. ASSUME NEW v \in Verdicts, OperationReturns(v) PROVE Quiet'
    BY <1>7 DEF OperationReturns, Drift, Evidence, Progress, PassedOnly
  <1>8. CASE OperationRaises
    BY <1>8 DEF OperationRaises, Abort, Drift, Evidence, Progress, PassedOnly
  <1>9. CASE AfterVerified
    <2>1. \A a \in Artifacts : bound[a] # Unknown => <<scenario, a>> \notin tainted
      BY <1>9 DEF AfterVerified, Matches, Drift, Evidence
    <2>4. Typed'
      <3>1. verdicts' \in [Scenarios -> Verdicts \cup {"none"}]
        BY <1>9 DEF AfterVerified
      <3>2. scenario' \in Nat \ {0}
        BY <1>9 DEF AfterVerified, Advance
      <3> QED
        BY <1>9, <3>1, <3>2 DEF AfterVerified
    <2>2. Typed' /\ Drift' /\ PassedOnly'
      BY <1>9, <2>4 DEF AfterVerified, Matches, Advance, Drift, PassedOnly
    <2>3. Progress' /\ Evidence'
      BY <1>9, <2>1 DEF AfterVerified, Matches, Advance, Progress, Evidence
    <2> QED
      BY <2>2, <2>3
  <1>10. CASE StartFails
    BY <1>10 DEF StartFails, Mismatch, Drift, Evidence, Progress, PassedOnly
  <1>11. CASE CheckFails
    <2>3. Typed'
      <3>1. verdicts' \in [Scenarios -> Verdicts \cup {"none"}]
        BY <1>11 DEF CheckFails, Verdicts
      <3>2. scenario' \in Nat \ {0}
        BY <1>11 DEF CheckFails, Advance
      <3> QED
        BY <1>11, <3>1, <3>2 DEF CheckFails
    <2>1. Typed' /\ Drift' /\ PassedOnly'
      BY <1>11, <2>3 DEF CheckFails, Mismatch, Advance, Drift, PassedOnly
    <2>2. Progress' /\ Evidence'
      BY <1>11 DEF CheckFails, Mismatch, Advance, Progress, Evidence
    <2> QED
      BY <2>1, <2>2
  <1>12. CASE Conclude
    BY <1>12 DEF Conclude, Passed, Drift, Evidence, Progress, PassedOnly
  <1>13. CASE Killed
    BY <1>13 DEF Killed, Running, Abort, Drift, Evidence, Progress, PassedOnly
  <1>14. ASSUME NEW a \in Artifacts, NEW v \in Versions, Change(a, v)
         PROVE  Quiet'
    <2>1. /\ artifact' = [artifact EXCEPT ![a] = v]
          /\ v > artifact[a] /\ artifact[a] \in Nat /\ v \in Nat
          /\ UNCHANGED <<bound, manifest, expected, measured, cursor, summary,
                         verdict, pc, stage, scenario, ran, verdicts>>
          /\ tainted' \subseteq tainted \cup {<<scenario, a>>}
          /\ pc # "operate" => tainted' = tainted
      <3>1. artifact[a] \in Nat /\ v \in Nat
        BY DEF Versions, Contents
      <3>2. v > artifact[a]
        BY <1>14, {"restored"} # {} DEF Change
      <3> QED
        BY <1>14, <3>1, <3>2 DEF Change
    <2>2. Typed' /\ Drift' /\ PassedOnly'
      <3>1. artifact' \in Contents
        BY <2>1 DEF Contents
      <3> QED
        BY <2>1, <3>1 DEF Drift, PassedOnly
    <2>3. Progress'
      <3>1. pc = "operate" =>
               /\ scenario \in ran /\ scenario \in Scenarios
               /\ ~(verdicts[scenario] = "PASS")
        BY DEF Progress
      <3>2. tainted' \subseteq ran' \X Artifacts
        BY <2>1, <3>1 DEF Progress
      <3>3. \A s \in Scenarios, b \in Artifacts :
               s # scenario \/ pc # "operate" =>
                  (<<s, b>> \in tainted' => <<s, b>> \in tainted)
        BY <2>1
      <3>4. \A s \in Scenarios :
               verdicts'[s] = "PASS" =>
                  /\ s \in ran'
                  /\ \A b \in Artifacts :
                        bound'[b] # Unknown => <<s, b>> \notin tainted'
        BY <2>1, <3>1, <3>3 DEF Progress
      <3>5. pc' \in {"load", "hash"} /\ stage' \in {"start", "before"} =>
               \A b \in Artifacts : <<scenario', b>> \notin tainted'
        BY <2>1 DEF Progress
      <3> QED
        BY <2>1, <3>2, <3>4, <3>5 DEF Progress
    <2>4. Evidence'
      <3>1. artifact'[a] # 0 /\ \A b \in Artifacts \ {a} : artifact'[b] = artifact[b]
        BY <2>1 DEF Contents
      <3>2. \A b \in Artifacts : b # a \/ pc # "operate" =>
               (<<scenario, b>> \in tainted' => <<scenario, b>> \in tainted)
        BY <2>1
      <3> QED
        BY <2>1, <3>1, <3>2 DEF Evidence
    <2> QED
      BY <2>2, <2>3, <2>4
  <1>15. CASE Rewrite
    BY <1>15 DEF Rewrite
  <1>17. CASE CalibrationRaises
    BY <1>17 DEF CalibrationRaises, Abort, Drift, Evidence, Progress, PassedOnly
  <1>18. ASSUME NEW t \in Trees, Obscure(t) PROVE Quiet'
    BY <1>18 DEF Obscure, Running, Drift, Evidence, Progress, PassedOnly
  <1>16. CASE UNCHANGED vars
    BY <1>16 DEF vars, Drift, Evidence, Progress, PassedOnly
  <1> QED
    BY <1>1, <1>2, <1>3, <1>4, <1>5, <1>6, <1>7, <1>8, <1>9, <1>10, <1>11,
       <1>12, <1>13, <1>14, <1>15, <1>16, <1>17, <1>18 DEF Next, Step

\* A campaign that passes has run every operation, and no artifact whose
\* content was bound had another one at any moment of any of them (run,
\* checked, verify_build_manifest and source_state together), if nothing was
\* restored or rebuilt.
THEOREM PassMeansUnchanged == Spec => []UnchangedOnPass
  <1>1. IInv => UnchangedOnPass
    <2> SUFFICES ASSUME IInv, summary = "PASS", disturbed = {}
                 PROVE  /\ ran = Scenarios
                        /\ \A change \in tainted : bound[change[2]] = Unknown
      BY DEF UnchangedOnPass
    <2>1. \A s \in Scenarios : s \in ran /\
             \A a \in Artifacts : bound[a] # Unknown => <<s, a>> \notin tainted
      BY DEF IInv, Quiet, PassedOnly, Progress
    <2>2. ran \subseteq Scenarios /\ tainted \subseteq ran \X Artifacts
      BY DEF IInv, Quiet, Progress
    <2> QED
      BY <2>1, <2>2
  <1>2. IInv /\ [Next]_vars => IInv'
    BY Invariance
  <1> QED
    BY <1>1, <1>2, Initially, PTL DEF Spec

-----------------------------------------------------------------------------
(* The promises that need no quiet environment.                            *)

\* The types in three groups.
Copies ==
    /\ artifact \in Contents /\ manifest \in Bindings
    /\ opaque \subseteq Trees
    /\ expected \in Bindings /\ measured \in Bindings /\ bound \in Bindings
    /\ cursor \in 1..(NumArtifacts + 1)
Places ==
    /\ pc \in {"prepare", "sweep", "load", "hash", "operate", "calibrate", "done",
               "aborted"}
    /\ stage \in {"start", "before", "after"}
    /\ verdict \in Verdicts
    /\ summary \in Verdicts \cup {"none"}
    /\ disturbed \subseteq {"restored", "rebuilt"}
Flags ==
    /\ calibrated \in BOOLEAN /\ protected \in BOOLEAN
    /\ leftover \subseteq {"evidence", "summary"}
    /\ cause \in {"none", "prepare", "operate", "calibrate", "outside"}
Records ==
    /\ scenario \in 1..(NumScenarios + 1)
    /\ verdicts \in [Scenarios -> Verdicts \cup {"none"}]
    /\ checks \in Seq(Checks)
    /\ failures \subseteq {"before", "after"} \X Scenarios
    /\ ran \subseteq Scenarios
    /\ tainted \subseteq Scenarios \X Artifacts

\* The operation at hand is one of the campaign's, has been started or not,
\* and nothing is recorded of it or of a later one.
AtHand ==
    /\ stage = "start" => scenario = 1
    /\ pc \in {"prepare", "sweep"} => stage = "start" /\ ran = {}
    /\ pc = "operate" => stage = "before"
    /\ stage # "start" /\ pc \in {"load", "hash", "operate"} => scenario \in Scenarios
    /\ pc \in {"load", "hash"} /\ stage # "after" => scenario \notin ran
    /\ pc = "operate" \/ (pc \in {"load", "hash"} /\ stage = "after") => scenario \in ran
    /\ \A s \in ran : s <= scenario
    /\ \A s \in Scenarios : verdicts[s] # "none" => s < scenario
    /\ \A f \in failures : f[2] < scenario

\* Whatever is verified is the bound content, unless that was rebound.
Bound ==
    \/ "rebuilt" \in disturbed
    \/ manifest = bound /\ (pc = "hash" => expected = bound)

IsBound(digest) == digest = bound \/ "rebuilt" \in disturbed

\* The last record belongs to the operation that was started.
Opened ==
    pc = "operate" \/ (stage = "after" /\ pc \in {"load", "hash"}) =>
        /\ Len(checks) > 0
        /\ checks[Len(checks)].stage = "before"
        /\ checks[Len(checks)].scenario = scenario
        /\ IsBound(checks[Len(checks)].digest)

\* Two records, one after the other, of the same operation.
Pair(s, k) ==
    /\ checks[k].scenario = s /\ checks[k].stage = "before"
    /\ checks[k + 1].scenario = s /\ checks[k + 1].stage = "after"
    /\ IsBound(checks[k].digest) /\ IsBound(checks[k + 1].digest)

Backed ==
    \A s \in Scenarios :
        verdicts[s] \in {"PASS", "FAIL"} =>
            s \in ran /\ \E k \in 1..(Len(checks) - 1) : Pair(s, k)

\* What an earlier campaign left is gone when this one begins, and before
\* that it does and writes nothing.
Swept ==
    /\ NothingMixed
    /\ pc \in {"prepare", "sweep"} =>
          checks = <<>> /\ failures = {} /\ ran = {} /\ summary = "none"
    /\ pc \notin {"prepare", "sweep", "aborted"} => leftover = {}

Types == Copies /\ Places /\ Flags /\ Records
Always == Types /\ AtHand /\ Bound /\ Opened /\ Backed /\ FailuresRecorded /\ Swept

LEMMA TypesAreTypes == Types <=> TypeOK
  BY DEF Types, Copies, Places, Flags, Records, TypeOK

LEMMA AlwaysInitially == Init => Always
  <1> SUFFICES ASSUME Init PROVE Always
    OBVIOUS
  <1> USE CampaignAssumption DEF CampaignAssumption, Init
  <1>1. Copies
    <2>1. Original \in Contents /\ Original \in Bindings
      BY DEF Original, Contents, Bindings, Versions
    <2>2. Binding \in Bindings
      BY <2>1, BindingTyped
    <2>. QED
      BY <2>1, <2>2 DEF Copies
  <1>2. Places /\ Flags
    BY DEF Places, Flags, Verdicts
  <1>3. Records
    BY DEF Records, Scenarios
  <1>4. AtHand /\ Bound /\ Opened /\ Backed
    BY DEF AtHand, Bound, Opened, Backed
  <1>5. FailuresRecorded /\ Swept
    BY DEF FailuresRecorded, Swept, NothingMixed
  <1>. QED
    BY <1>1, <1>2, <1>3, <1>4, <1>5 DEF Always, Types

\* Every step keeps the contents.
LEMMA CopiesStep == Copies /\ [Next]_vars => Copies'
  <1> SUFFICES ASSUME Copies, [Next]_vars PROVE Copies'
    OBVIOUS
  <1> USE DEF Copies, environment, verification, results, history
  <1>1. CASE Prepare \/ Sweep \/ SweepFails \/ MakeDirectory
    BY <1>1 DEF Prepare, Sweep, SweepFails, MakeDirectory, Abort
  <1>2. CASE PrepareRefuses
    BY <1>2 DEF PrepareRefuses, Abort
  <1>3. CASE Load
    <2>1. Original \in Bindings
      BY CampaignAssumption DEF CampaignAssumption, Original, Bindings, Versions
    <2>2. cursor' \in 1..(NumArtifacts + 1)
      BY <1>3, CampaignAssumption DEF Load, CampaignAssumption
    <2>. QED
      BY <1>3, <2>1, <2>2 DEF Load
  <1>4. CASE Hash
    <2>1. cursor \in Artifacts /\ cursor' \in 1..(NumArtifacts + 1)
      BY <1>4, CampaignAssumption DEF Hash, CampaignAssumption, Artifacts
    <2>2. measured' \in Bindings
      BY <1>4, <2>1, BindingTyped DEF Hash, Bindings
    <2>. QED
      BY <1>4, <2>1, <2>2 DEF Hash
  <1>5. CASE StartVerified
    BY <1>5 DEF StartVerified, Matches
  <1>6. CASE BeforeVerified
    BY <1>6 DEF BeforeVerified, Matches, NewCheck
  <1>7. CASE AfterVerified
    BY <1>7 DEF AfterVerified, Matches, NewCheck, Advance
  <1>8. CASE StartFails
    BY <1>8 DEF StartFails, Mismatch
  <1>9. CASE CheckFails
    BY <1>9 DEF CheckFails, Mismatch, Advance
  <1>10. ASSUME NEW v \in Verdicts, OperationReturns(v) PROVE Copies'
    BY <1>10 DEF OperationReturns
  <1>11. CASE OperationRaises
    BY <1>11 DEF OperationRaises, Abort
  <1>12. CASE Conclude
    BY <1>12 DEF Conclude
  <1>13. CASE CalibrationRaises
    BY <1>13 DEF CalibrationRaises, Abort
  <1>14. CASE Killed
    BY <1>14 DEF Killed, Running, Abort
  <1>15. ASSUME NEW a \in Artifacts, NEW v \in Versions, Change(a, v)
         PROVE  Copies'
    <2>1. artifact' \in Contents
      BY <1>15 DEF Change, Contents
    <2>. QED
      BY <1>15, <2>1 DEF Change
  <1>16. CASE Rewrite
    BY <1>16, BindingTyped DEF Rewrite, Running
  <1>18. ASSUME NEW t \in Trees, Obscure(t) PROVE Copies'
    BY <1>18 DEF Obscure, Running
  <1>17. CASE UNCHANGED vars
    BY <1>17 DEF vars
  <1>. QED
    BY <1>1, <1>2, <1>3, <1>4, <1>5, <1>6, <1>7, <1>8, <1>9, <1>10, <1>11,
       <1>12, <1>13, <1>14, <1>15, <1>16, <1>17,
       <1>18 DEF Next, Step

\* Every step keeps the place and the verdicts.
LEMMA PlacesStep == Places /\ [Next]_vars => Places'
  <1> SUFFICES ASSUME Places, [Next]_vars PROVE Places'
    OBVIOUS
  <1> USE DEF Places, Verdicts, environment, verification, results, history
  <1>1. CASE Prepare \/ Sweep \/ SweepFails \/ MakeDirectory
    BY <1>1 DEF Prepare, Sweep, SweepFails, MakeDirectory, Abort
  <1>2. CASE PrepareRefuses
    BY <1>2 DEF PrepareRefuses, Abort
  <1>3. CASE Load
    BY <1>3 DEF Load, Original
  <1>4. CASE Hash
    BY <1>4 DEF Hash
  <1>5. CASE StartVerified
    BY <1>5 DEF StartVerified, Matches
  <1>6. CASE BeforeVerified
    BY <1>6 DEF BeforeVerified, Matches, NewCheck
  <1>7. CASE AfterVerified
    BY <1>7 DEF AfterVerified, Matches, NewCheck, Advance
  <1>8. CASE StartFails
    BY <1>8 DEF StartFails, Mismatch
  <1>9. CASE CheckFails
    BY <1>9 DEF CheckFails, Mismatch, Advance
  <1>10. ASSUME NEW v \in Verdicts, OperationReturns(v) PROVE Places'
    BY <1>10 DEF OperationReturns
  <1>11. CASE OperationRaises
    BY <1>11 DEF OperationRaises, Abort
  <1>12. CASE Conclude
    BY <1>12 DEF Conclude
  <1>13. CASE CalibrationRaises
    BY <1>13 DEF CalibrationRaises, Abort
  <1>14. CASE Killed
    BY <1>14 DEF Killed, Running, Abort
  <1>15. ASSUME NEW a \in Artifacts, NEW v \in Versions, Change(a, v)
         PROVE  Places'
    BY <1>15 DEF Change, Running
  <1>16. CASE Rewrite
    BY <1>16 DEF Rewrite, Running
  <1>18. ASSUME NEW t \in Trees, Obscure(t) PROVE Places'
    BY <1>18 DEF Obscure, Running
  <1>17. CASE UNCHANGED vars
    BY <1>17 DEF vars
  <1>. QED
    BY <1>1, <1>2, <1>3, <1>4, <1>5, <1>6, <1>7, <1>8, <1>9, <1>10, <1>11,
       <1>12, <1>13, <1>14, <1>15, <1>16, <1>17,
       <1>18 DEF Next, Step

\* Every step keeps the flags.
LEMMA FlagsStep == Flags /\ [Next]_vars => Flags'
  <1> SUFFICES ASSUME Flags, [Next]_vars PROVE Flags'
    OBVIOUS
  <1> USE DEF Flags, environment, verification, results, history
  <1>1. CASE Prepare \/ Sweep \/ SweepFails \/ MakeDirectory
    BY <1>1 DEF Prepare, Sweep, SweepFails, MakeDirectory, Abort
  <1>2. CASE PrepareRefuses
    BY <1>2 DEF PrepareRefuses, Abort
  <1>3. CASE Load
    BY <1>3 DEF Load, Original
  <1>4. CASE Hash
    BY <1>4 DEF Hash
  <1>5. CASE StartVerified
    BY <1>5 DEF StartVerified, Matches
  <1>6. CASE BeforeVerified
    BY <1>6 DEF BeforeVerified, Matches, NewCheck
  <1>7. CASE AfterVerified
    BY <1>7 DEF AfterVerified, Matches, NewCheck, Advance
  <1>8. CASE StartFails
    BY <1>8 DEF StartFails, Mismatch
  <1>9. CASE CheckFails
    BY <1>9 DEF CheckFails, Mismatch, Advance
  <1>10. ASSUME NEW v \in Verdicts, OperationReturns(v) PROVE Flags'
    BY <1>10 DEF OperationReturns
  <1>11. CASE OperationRaises
    BY <1>11 DEF OperationRaises, Abort
  <1>12. CASE Conclude
    BY <1>12 DEF Conclude
  <1>13. CASE CalibrationRaises
    BY <1>13 DEF CalibrationRaises, Abort
  <1>14. CASE Killed
    BY <1>14 DEF Killed, Running, Abort
  <1>15. ASSUME NEW a \in Artifacts, NEW v \in Versions, Change(a, v)
         PROVE  Flags'
    BY <1>15 DEF Change, Running
  <1>16. CASE Rewrite
    BY <1>16 DEF Rewrite, Running
  <1>18. ASSUME NEW t \in Trees, Obscure(t) PROVE Flags'
    BY <1>18 DEF Obscure, Running
  <1>17. CASE UNCHANGED vars
    BY <1>17 DEF vars
  <1>. QED
    BY <1>1, <1>2, <1>3, <1>4, <1>5, <1>6, <1>7, <1>8, <1>9, <1>10, <1>11,
       <1>12, <1>13, <1>14, <1>15, <1>16, <1>17,
       <1>18 DEF Next, Step

\* Every step keeps the records.
LEMMA RecordsStep == Copies /\ Places /\ Records /\ AtHand /\ [Next]_vars => Records'
  <1> SUFFICES ASSUME Copies /\ Places /\ Records /\ AtHand, [Next]_vars PROVE Records'
    OBVIOUS
  <1> USE DEF Copies, Places, Records, AtHand, environment, verification, results, history
  <1>1. CASE Prepare \/ Sweep \/ SweepFails \/ MakeDirectory
    BY <1>1 DEF Prepare, Sweep, SweepFails, MakeDirectory, Abort
  <1>2. CASE PrepareRefuses
    BY <1>2 DEF PrepareRefuses, Abort
  <1>3. CASE Load
    BY <1>3 DEF Load, Original
  <1>4. CASE Hash
    BY <1>4 DEF Hash
  <1>5. CASE StartVerified
    BY <1>5 DEF StartVerified, Matches
  <1>6. CASE BeforeVerified
    <2>1. scenario \in Scenarios
      BY <1>6 DEF BeforeVerified, Matches
    <2>2. NewCheck("before") \in Checks
      BY <2>1 DEF NewCheck, Checks
    <2>3. checks' \in Seq(Checks)
      BY <1>6, <2>2, AppendProperties DEF BeforeVerified
    <2>4. ran' \subseteq Scenarios /\ tainted' \subseteq Scenarios \X Artifacts
      BY <1>6, <2>1 DEF BeforeVerified
    <2>. QED
      BY <1>6, <2>3, <2>4 DEF BeforeVerified
  <1>7. CASE AfterVerified
    <2>1. scenario \in Scenarios /\ scenario' \in 1..(NumScenarios + 1)
      BY <1>7, CampaignAssumption DEF AfterVerified, Matches, Advance, CampaignAssumption, Scenarios
    <2>2. NewCheck("after") \in Checks
      BY <2>1 DEF NewCheck, Checks
    <2>3. checks' \in Seq(Checks)
      BY <1>7, <2>2, AppendProperties DEF AfterVerified
    <2>4. verdicts' \in [Scenarios -> Verdicts \cup {"none"}]
      BY <1>7, <2>1 DEF AfterVerified
    <2>. QED
      BY <1>7, <2>1, <2>3, <2>4 DEF AfterVerified
  <1>8. CASE StartFails
    BY <1>8 DEF StartFails, Mismatch
  <1>9. CASE CheckFails
    <2>1. scenario \in Scenarios /\ scenario' \in 1..(NumScenarios + 1)
      BY <1>9, CampaignAssumption DEF CheckFails, Mismatch, Advance, CampaignAssumption, Scenarios
    <2>2. failures' \subseteq {"before", "after"} \X Scenarios
      BY <1>9, <2>1 DEF CheckFails
    <2>3. verdicts' \in [Scenarios -> Verdicts \cup {"none"}]
      BY <1>9, <2>1 DEF CheckFails, Verdicts
    <2>. QED
      BY <1>9, <2>1, <2>2, <2>3 DEF CheckFails
  <1>10. ASSUME NEW v \in Verdicts, OperationReturns(v) PROVE Records'
    BY <1>10 DEF OperationReturns
  <1>11. CASE OperationRaises
    BY <1>11 DEF OperationRaises, Abort
  <1>12. CASE Conclude
    BY <1>12 DEF Conclude
  <1>13. CASE CalibrationRaises
    BY <1>13 DEF CalibrationRaises, Abort
  <1>14. CASE Killed
    BY <1>14 DEF Killed, Running, Abort
  <1>15. ASSUME NEW a \in Artifacts, NEW v \in Versions, Change(a, v)
         PROVE  Records'
    <2>1. pc = "operate" => scenario \in Scenarios
      OBVIOUS
    <2>2. tainted' \subseteq Scenarios \X Artifacts
      BY <1>15, <2>1 DEF Change
    <2>. QED
      BY <1>15, <2>2 DEF Change
  <1>16. CASE Rewrite
    BY <1>16 DEF Rewrite, Running
  <1>18. ASSUME NEW t \in Trees, Obscure(t) PROVE Records'
    BY <1>18 DEF Obscure, Running
  <1>17. CASE UNCHANGED vars
    BY <1>17 DEF vars
  <1>. QED
    BY <1>1, <1>2, <1>3, <1>4, <1>5, <1>6, <1>7, <1>8, <1>9, <1>10, <1>11,
       <1>12, <1>13, <1>14, <1>15, <1>16, <1>17,
       <1>18 DEF Next, Step

\* The operations are taken one after the other.
LEMMA AtHandStep == Records /\ AtHand /\ [Next]_vars => AtHand'
  <1> SUFFICES ASSUME Records /\ AtHand, [Next]_vars PROVE AtHand'
    OBVIOUS
  <1> USE DEF Records, AtHand, Scenarios, environment, verification, results, history
  <1>1. CASE Prepare \/ Sweep \/ SweepFails \/ MakeDirectory
    BY <1>1, CampaignAssumption DEF Prepare, Sweep, SweepFails, MakeDirectory, Abort
  <1>2. CASE PrepareRefuses
    BY <1>2, CampaignAssumption DEF PrepareRefuses, Abort
  <1>3. CASE Load
    BY <1>3, CampaignAssumption DEF Load, Original
  <1>4. CASE Hash
    BY <1>4, CampaignAssumption DEF Hash
  <1>5. CASE StartVerified
    BY <1>5, CampaignAssumption DEF StartVerified, Matches
  <1>6. CASE BeforeVerified
    BY <1>6, CampaignAssumption DEF BeforeVerified, Matches, NewCheck
  <1>7. CASE AfterVerified
    BY <1>7, CampaignAssumption DEF AfterVerified, Matches, NewCheck, Advance
  <1>8. CASE StartFails
    BY <1>8, CampaignAssumption DEF StartFails, Mismatch
  <1>9. CASE CheckFails
    BY <1>9, CampaignAssumption DEF CheckFails, Mismatch, Advance
  <1>10. ASSUME NEW v \in Verdicts, OperationReturns(v) PROVE AtHand'
    BY <1>10, CampaignAssumption DEF OperationReturns
  <1>11. CASE OperationRaises
    BY <1>11, CampaignAssumption DEF OperationRaises, Abort
  <1>12. CASE Conclude
    BY <1>12, CampaignAssumption DEF Conclude
  <1>13. CASE CalibrationRaises
    BY <1>13, CampaignAssumption DEF CalibrationRaises, Abort
  <1>14. CASE Killed
    BY <1>14, CampaignAssumption DEF Killed, Running, Abort
  <1>15. ASSUME NEW a \in Artifacts, NEW v \in Versions, Change(a, v)
         PROVE  AtHand'
    BY <1>15, CampaignAssumption DEF Change, Running
  <1>16. CASE Rewrite
    BY <1>16, CampaignAssumption DEF Rewrite, Running
  <1>18. ASSUME NEW t \in Trees, Obscure(t) PROVE AtHand'
    BY <1>18 DEF Obscure, Running
  <1>17. CASE UNCHANGED vars
    BY <1>17 DEF vars
  <1>. QED
    BY <1>1, <1>2, <1>3, <1>4, <1>5, <1>6, <1>7, <1>8, <1>9, <1>10, <1>11,
       <1>12, <1>13, <1>14, <1>15, <1>16, <1>17,
       <1>18 DEF Next, Step

\* Every verification is of the bound content.
LEMMA BoundStep == Bound /\ [Next]_vars => Bound'
  <1> SUFFICES ASSUME Bound, [Next]_vars PROVE Bound'
    OBVIOUS
  <1> USE DEF Bound, environment, verification, results, history
  <1>1. CASE Prepare \/ Sweep \/ SweepFails \/ MakeDirectory
    BY <1>1 DEF Prepare, Sweep, SweepFails, MakeDirectory, Abort
  <1>2. CASE PrepareRefuses
    BY <1>2 DEF PrepareRefuses, Abort
  <1>3. CASE Load
    BY <1>3 DEF Load, Original
  <1>4. CASE Hash
    BY <1>4 DEF Hash
  <1>5. CASE StartVerified
    BY <1>5 DEF StartVerified, Matches
  <1>6. CASE BeforeVerified
    BY <1>6 DEF BeforeVerified, Matches, NewCheck
  <1>7. CASE AfterVerified
    BY <1>7 DEF AfterVerified, Matches, NewCheck, Advance
  <1>8. CASE StartFails
    BY <1>8 DEF StartFails, Mismatch
  <1>9. CASE CheckFails
    BY <1>9 DEF CheckFails, Mismatch, Advance
  <1>10. ASSUME NEW v \in Verdicts, OperationReturns(v) PROVE Bound'
    BY <1>10 DEF OperationReturns
  <1>11. CASE OperationRaises
    BY <1>11 DEF OperationRaises, Abort
  <1>12. CASE Conclude
    BY <1>12 DEF Conclude
  <1>13. CASE CalibrationRaises
    BY <1>13 DEF CalibrationRaises, Abort
  <1>14. CASE Killed
    BY <1>14 DEF Killed, Running, Abort
  <1>15. ASSUME NEW a \in Artifacts, NEW v \in Versions, Change(a, v)
         PROVE  Bound'
    BY <1>15 DEF Change, Running
  <1>16. CASE Rewrite
    BY <1>16 DEF Rewrite, Running
  <1>18. ASSUME NEW t \in Trees, Obscure(t) PROVE Bound'
    BY <1>18 DEF Obscure, Running
  <1>17. CASE UNCHANGED vars
    BY <1>17 DEF vars
  <1>. QED
    BY <1>1, <1>2, <1>3, <1>4, <1>5, <1>6, <1>7, <1>8, <1>9, <1>10, <1>11,
       <1>12, <1>13, <1>14, <1>15, <1>16, <1>17,
       <1>18 DEF Next, Step

\* A failure is recorded once and for all.
LEMMA FailuresStep == Records /\ AtHand /\ FailuresRecorded /\ [Next]_vars => FailuresRecorded'
  <1> SUFFICES ASSUME Records /\ AtHand /\ FailuresRecorded, [Next]_vars PROVE FailuresRecorded'
    OBVIOUS
  <1> USE DEF Records, AtHand, FailuresRecorded, Scenarios, environment, verification, results, history
  <1>1. CASE Prepare \/ Sweep \/ SweepFails \/ MakeDirectory
    BY <1>1 DEF Prepare, Sweep, SweepFails, MakeDirectory, Abort
  <1>2. CASE PrepareRefuses
    BY <1>2 DEF PrepareRefuses, Abort
  <1>3. CASE Load
    BY <1>3 DEF Load, Original
  <1>4. CASE Hash
    BY <1>4 DEF Hash
  <1>5. CASE StartVerified
    BY <1>5 DEF StartVerified, Matches
  <1>6. CASE BeforeVerified
    BY <1>6 DEF BeforeVerified, Matches, NewCheck
  <1>7. CASE AfterVerified
    BY <1>7 DEF AfterVerified, Matches, NewCheck, Advance
  <1>8. CASE StartFails
    BY <1>8 DEF StartFails, Mismatch
  <1>9. CASE CheckFails
    BY <1>9 DEF CheckFails, Mismatch, Advance
  <1>10. ASSUME NEW v \in Verdicts, OperationReturns(v) PROVE FailuresRecorded'
    BY <1>10 DEF OperationReturns
  <1>11. CASE OperationRaises
    BY <1>11 DEF OperationRaises, Abort
  <1>12. CASE Conclude
    BY <1>12 DEF Conclude
  <1>13. CASE CalibrationRaises
    BY <1>13 DEF CalibrationRaises, Abort
  <1>14. CASE Killed
    BY <1>14 DEF Killed, Running, Abort
  <1>15. ASSUME NEW a \in Artifacts, NEW v \in Versions, Change(a, v)
         PROVE  FailuresRecorded'
    BY <1>15 DEF Change, Running
  <1>16. CASE Rewrite
    BY <1>16 DEF Rewrite, Running
  <1>18. ASSUME NEW t \in Trees, Obscure(t) PROVE FailuresRecorded'
    BY <1>18 DEF Obscure, Running
  <1>17. CASE UNCHANGED vars
    BY <1>17 DEF vars
  <1>. QED
    BY <1>1, <1>2, <1>3, <1>4, <1>5, <1>6, <1>7, <1>8, <1>9, <1>10, <1>11,
       <1>12, <1>13, <1>14, <1>15, <1>16, <1>17,
       <1>18 DEF Next, Step

\* Only this campaign's own summary is written.
LEMMA SweptStep == Flags /\ Swept /\ [Next]_vars => Swept'
  <1> SUFFICES ASSUME Flags /\ Swept, [Next]_vars PROVE Swept'
    OBVIOUS
  <1> USE DEF Flags, Swept, NothingMixed, environment, verification, results, history
  <1>1. CASE Prepare \/ Sweep \/ SweepFails \/ MakeDirectory
    BY <1>1 DEF Prepare, Sweep, SweepFails, MakeDirectory, Abort
  <1>2. CASE PrepareRefuses
    BY <1>2 DEF PrepareRefuses, Abort
  <1>3. CASE Load
    BY <1>3 DEF Load, Original
  <1>4. CASE Hash
    BY <1>4 DEF Hash
  <1>5. CASE StartVerified
    BY <1>5 DEF StartVerified, Matches
  <1>6. CASE BeforeVerified
    BY <1>6 DEF BeforeVerified, Matches, NewCheck
  <1>7. CASE AfterVerified
    BY <1>7 DEF AfterVerified, Matches, NewCheck, Advance
  <1>8. CASE StartFails
    BY <1>8 DEF StartFails, Mismatch
  <1>9. CASE CheckFails
    BY <1>9 DEF CheckFails, Mismatch, Advance
  <1>10. ASSUME NEW v \in Verdicts, OperationReturns(v) PROVE Swept'
    BY <1>10 DEF OperationReturns
  <1>11. CASE OperationRaises
    BY <1>11 DEF OperationRaises, Abort
  <1>12. CASE Conclude
    BY <1>12 DEF Conclude
  <1>13. CASE CalibrationRaises
    BY <1>13 DEF CalibrationRaises, Abort
  <1>14. CASE Killed
    BY <1>14 DEF Killed, Running, Abort
  <1>15. ASSUME NEW a \in Artifacts, NEW v \in Versions, Change(a, v)
         PROVE  Swept'
    BY <1>15 DEF Change, Running
  <1>16. CASE Rewrite
    BY <1>16 DEF Rewrite, Running
  <1>18. ASSUME NEW t \in Trees, Obscure(t) PROVE Swept'
    BY <1>18 DEF Obscure, Running
  <1>17. CASE UNCHANGED vars
    BY <1>17 DEF vars
  <1>. QED
    BY <1>1, <1>2, <1>3, <1>4, <1>5, <1>6, <1>7, <1>8, <1>9, <1>10, <1>11,
       <1>12, <1>13, <1>14, <1>15, <1>16, <1>17,
       <1>18 DEF Next, Step

\* The operation at hand has its first record.
LEMMA OpenedStep == Records /\ AtHand /\ Bound /\ Opened /\ [Next]_vars => Opened'
  <1> SUFFICES ASSUME Records /\ AtHand /\ Bound /\ Opened, [Next]_vars PROVE Opened'
    OBVIOUS
  <1> USE DEF Records, AtHand, Bound, Opened, IsBound, environment, verification, results, history
  <1>1. CASE Prepare \/ Sweep \/ SweepFails \/ MakeDirectory
    BY <1>1 DEF Prepare, Sweep, SweepFails, MakeDirectory, Abort
  <1>2. CASE PrepareRefuses
    BY <1>2 DEF PrepareRefuses, Abort
  <1>3. CASE Load
    BY <1>3 DEF Load, Original
  <1>4. CASE Hash
    BY <1>4 DEF Hash
  <1>5. CASE StartVerified
    BY <1>5 DEF StartVerified, Matches
  <1>6. CASE BeforeVerified
    BY <1>6 DEF BeforeVerified, Matches, NewCheck
  <1>7. CASE AfterVerified
    BY <1>7 DEF AfterVerified, Matches, NewCheck, Advance
  <1>8. CASE StartFails
    BY <1>8 DEF StartFails, Mismatch
  <1>9. CASE CheckFails
    BY <1>9 DEF CheckFails, Mismatch, Advance
  <1>10. ASSUME NEW v \in Verdicts, OperationReturns(v) PROVE Opened'
    BY <1>10 DEF OperationReturns
  <1>11. CASE OperationRaises
    BY <1>11 DEF OperationRaises, Abort
  <1>12. CASE Conclude
    BY <1>12 DEF Conclude
  <1>13. CASE CalibrationRaises
    BY <1>13 DEF CalibrationRaises, Abort
  <1>14. CASE Killed
    BY <1>14 DEF Killed, Running, Abort
  <1>15. ASSUME NEW a \in Artifacts, NEW v \in Versions, Change(a, v)
         PROVE  Opened'
    BY <1>15 DEF Change, Running
  <1>16. CASE Rewrite
    BY <1>16 DEF Rewrite, Running
  <1>18. ASSUME NEW t \in Trees, Obscure(t) PROVE Opened'
    BY <1>18 DEF Obscure, Running
  <1>17. CASE UNCHANGED vars
    BY <1>17 DEF vars
  <1>. QED
    BY <1>1, <1>2, <1>3, <1>4, <1>5, <1>6, <1>7, <1>8, <1>9, <1>10, <1>11,
       <1>12, <1>13, <1>14, <1>15, <1>16, <1>17,
       <1>18 DEF Next, Step

\* Records are only added at the end, and rebinding is never undone.
Later ==
    /\ checks \in Seq(Checks)
    /\ checks' = checks \/ \E c \in Checks : checks' = Append(checks, c)
    /\ bound' = bound
    /\ disturbed \subseteq disturbed'

\* A pair stays where it is.
LEMMA PairKept ==
  ASSUME Later, NEW s, NEW k \in 1..(Len(checks) - 1), Pair(s, k)
  PROVE  k \in 1..(Len(checks') - 1) /\ Pair(s, k)'
  <1>1. /\ Len(checks) \in Nat
        /\ k \in 1..Len(checks) /\ k + 1 \in 1..Len(checks)
    BY DEF Later
  <1>2. /\ Len(checks') \in Nat /\ Len(checks) <= Len(checks')
        /\ checks'[k] = checks[k] /\ checks'[k + 1] = checks[k + 1]
    <2>1. CASE checks' = checks
      BY <1>1, <2>1
    <2>2. ASSUME NEW c \in Checks, checks' = Append(checks, c)
          PROVE  /\ Len(checks') \in Nat /\ Len(checks) <= Len(checks')
                 /\ checks'[k] = checks[k] /\ checks'[k + 1] = checks[k + 1]
      BY <1>1, <2>2, AppendProperties DEF Later
    <2>. QED
      BY <2>1, <2>2 DEF Later
  <1>3. k \in 1..(Len(checks') - 1)
    BY <1>1, <1>2
  <1>4. Pair(s, k)'
    BY <1>2 DEF Pair, IsBound, Later
  <1>. QED
    BY <1>3, <1>4

\* What a later record does not take back stays backed.
LEMMA BackedKept ==
  ASSUME Backed, Later, ran \subseteq ran', NEW s \in Scenarios,
         verdicts[s] \in {"PASS", "FAIL"}
  PROVE  s \in ran' /\ \E k \in 1..(Len(checks') - 1) : Pair(s, k)'
  <1>1. PICK k \in 1..(Len(checks) - 1) : Pair(s, k)
    BY DEF Backed
  <1>2. k \in 1..(Len(checks') - 1) /\ Pair(s, k)'
    BY <1>1, PairKept
  <1>. QED
    BY <1>2 DEF Backed

\* Every step that touches neither the verdicts nor the records.
LEMMA Aside ==
  ASSUME [Next]_vars, ~BeforeVerified, ~AfterVerified, ~CheckFails
  PROVE  /\ UNCHANGED <<checks, verdicts, bound, ran>>
         /\ disturbed \subseteq disturbed'
  <1> USE DEF environment, verification, results, history
  <1>1. CASE Prepare \/ Sweep \/ SweepFails \/ MakeDirectory
    BY <1>1 DEF Prepare, Sweep, SweepFails, MakeDirectory, Abort
  <1>2. CASE PrepareRefuses
    BY <1>2 DEF PrepareRefuses, Abort
  <1>3. CASE Load
    BY <1>3 DEF Load
  <1>4. CASE Hash
    BY <1>4 DEF Hash
  <1>5. CASE StartVerified
    BY <1>5 DEF StartVerified
  <1>6. CASE StartFails
    BY <1>6 DEF StartFails
  <1>7. CASE OperationRaises
    BY <1>7 DEF OperationRaises, Abort
  <1>8. CASE Conclude
    BY <1>8 DEF Conclude
  <1>9. CASE CalibrationRaises
    BY <1>9 DEF CalibrationRaises, Abort
  <1>10. CASE Killed
    BY <1>10 DEF Killed, Abort
  <1>11. CASE Rewrite
    BY <1>11 DEF Rewrite
  <1>12. ASSUME NEW v \in Verdicts, OperationReturns(v)
        PROVE  /\ UNCHANGED <<checks, verdicts, bound, ran>>
               /\ disturbed \subseteq disturbed'
    BY <1>12 DEF OperationReturns
  <1>13. ASSUME NEW a \in Artifacts, NEW v \in Versions, Change(a, v)
        PROVE  /\ UNCHANGED <<checks, verdicts, bound, ran>>
               /\ disturbed \subseteq disturbed'
    BY <1>13 DEF Change
  <1>14. CASE UNCHANGED vars
    BY <1>14 DEF vars
  <1>15. ASSUME NEW t \in Trees, Obscure(t)
        PROVE  /\ UNCHANGED <<checks, verdicts, bound, ran>>
               /\ disturbed \subseteq disturbed'
    BY <1>15 DEF Obscure
  <1>. QED
    BY <1>1, <1>2, <1>3, <1>4, <1>5, <1>6, <1>7, <1>8,
       <1>9, <1>10, <1>11, <1>12, <1>13, <1>14, <1>15 DEF Next, Step

\* A recorded verdict has its pair.
LEMMA BackedStep ==
  Types /\ AtHand /\ Bound /\ Opened /\ Backed /\ [Next]_vars => Backed'
  <1> SUFFICES ASSUME Types, AtHand, Bound, Opened, Backed, [Next]_vars
               PROVE  Backed'
    OBVIOUS
  <1> USE DEF environment, verification, results, history
  <1>0. checks \in Seq(Checks) /\ verdicts \in [Scenarios -> Verdicts \cup {"none"}]
    BY DEF Types, Records
  <1>1. CASE ~BeforeVerified /\ ~AfterVerified /\ ~CheckFails
    <2>1. UNCHANGED <<checks, verdicts, bound, ran>> /\ disturbed \subseteq disturbed'
      BY <1>1, Aside
    <2>2. Later /\ ran \subseteq ran' /\ verdicts' = verdicts
      BY <1>0, <2>1 DEF Later
    <2>. QED
      BY <2>2, BackedKept DEF Backed
  <1>2. CASE BeforeVerified
    <2>1. NewCheck("before") \in Checks
      BY <1>2 DEF BeforeVerified, Matches, NewCheck, Checks, AtHand, Types, Copies
    <2>2. Later /\ ran \subseteq ran' /\ verdicts' = verdicts
      BY <1>0, <1>2, <2>1 DEF BeforeVerified, Later
    <2>. QED
      BY <2>2, BackedKept DEF Backed
  <1>3. CASE CheckFails
    <2>1. Later /\ ran \subseteq ran'
      BY <1>0, <1>3 DEF CheckFails, Later
    <2>2. \A s \in Scenarios : verdicts'[s] \in {"PASS", "FAIL"} => verdicts[s] \in {"PASS", "FAIL"}
      BY <1>0, <1>3 DEF CheckFails
    <2>. QED
      BY <2>1, <2>2, BackedKept DEF Backed
  <1>4. CASE AfterVerified
    <2>0. /\ pc = "hash" /\ stage = "after" /\ measured = expected
          /\ checks' = Append(checks, NewCheck("after"))
          /\ UNCHANGED <<bound, disturbed, ran>>
          /\ verdicts' = [verdicts EXCEPT ![scenario] = verdict]
      BY <1>4 DEF AfterVerified, Matches
    <2>1. scenario \in Scenarios /\ scenario \in ran
      BY <2>0 DEF AtHand
    <2>2. NewCheck("after") \in Checks
      BY <2>1 DEF NewCheck, Checks, Types, Copies
    <2>3. Later /\ ran \subseteq ran'
      BY <1>0, <2>0, <2>2 DEF Later
    <2>4. \A s \in Scenarios \ {scenario} : verdicts'[s] = verdicts[s]
      BY <1>0, <2>0
    <2>5. PICK s \in Scenarios : s = scenario
      BY <2>1
    <2>6. PICK k \in Nat : k = Len(checks)
      BY <1>0
    <2>7. /\ k > 0 /\ checks[k].stage = "before" /\ checks[k].scenario = s
          /\ IsBound(checks[k].digest)
      BY <2>0, <2>5, <2>6 DEF Opened
    <2>8. /\ k \in 1..(Len(checks') - 1)
          /\ checks'[k] = checks[k] /\ checks'[k + 1] = NewCheck("after")
      BY <1>0, <2>0, <2>2, <2>6, <2>7, AppendProperties
    <2>9. IsBound(measured)
      BY <2>0 DEF Bound, IsBound
    <2>10. /\ checks'[k + 1].stage = "after" /\ checks'[k + 1].scenario = s
           /\ checks'[k + 1].digest = measured
      BY <2>5, <2>8 DEF NewCheck
    <2>11. Pair(s, k)'
      BY <2>0, <2>7, <2>8, <2>9, <2>10 DEF Pair, IsBound
    <2>12. s \in ran'
      BY <2>0, <2>1, <2>5
    <2>13. \A r \in Scenarios : r = s \/ verdicts'[r] = verdicts[r]
      BY <2>4, <2>5
    <2> SUFFICES ASSUME NEW r \in Scenarios, verdicts'[r] \in {"PASS", "FAIL"}
                 PROVE  r \in ran' /\ \E j \in 1..(Len(checks') - 1) : Pair(r, j)'
      BY DEF Backed
    <2>14. CASE r = s
      BY <2>8, <2>11, <2>12, <2>14
    <2>15. CASE r # s
      BY <2>3, <2>13, <2>15, BackedKept
    <2>. QED
      BY <2>14, <2>15
  <1>. QED
    BY <1>1, <1>2, <1>3, <1>4

\* These hold always, whatever happens to the artifacts and the manifest.
LEMMA HoldAlways == Spec => []Always
  <1>1. Always /\ [Next]_vars => Always'
    <2> SUFFICES ASSUME Always, [Next]_vars PROVE Always'
      OBVIOUS
    <2>1. Types'
      BY CopiesStep, PlacesStep, FlagsStep, RecordsStep DEF Always, Types
    <2>2. AtHand' /\ Bound' /\ FailuresRecorded' /\ Swept'
      BY AtHandStep, BoundStep, FailuresStep, SweptStep DEF Always, Types
    <2>3. Opened' /\ Backed'
      BY OpenedStep, BackedStep DEF Always, Types
    <2>. QED
      BY <2>1, <2>2, <2>3 DEF Always
  <1>. QED
    BY AlwaysInitially, <1>1, PTL DEF Spec

\* Every variable keeps its type, for any number of operations and artifacts.
THEOREM TypeCorrect == Spec => []TypeOK
  <1>1. Always => TypeOK
    BY TypesAreTypes DEF Always
  <1>. QED
    BY HoldAlways, <1>1, PTL

\* A recorded verdict of an operation's own is backed by the two verifications
\* next to each other in provenance-checks.json (checked).
THEOREM VerdictsAreBacked == Spec => []VerdictBacked
  <1>1. Always => VerdictBacked
    <2> SUFFICES ASSUME Always, NEW s \in Scenarios, verdicts[s] \in {"PASS", "FAIL"}
                 PROVE  /\ s \in ran
                        /\ \E k \in 1..(Len(checks) - 1) :
                              /\ checks[k].scenario = s /\ checks[k].stage = "before"
                              /\ checks[k + 1].scenario = s /\ checks[k + 1].stage = "after"
                              /\ \/ {checks[k].digest, checks[k + 1].digest} = {bound}
                                 \/ "rebuilt" \in disturbed
      BY DEF VerdictBacked
    <2>1. s \in ran /\ \E k \in 1..(Len(checks) - 1) : Pair(s, k)
      BY DEF Always, Backed
    <2>2. PICK k \in 1..(Len(checks) - 1) : Pair(s, k)
      BY <2>1
    <2>. QED
      BY <2>1, <2>2 DEF Pair, IsBound
  <1>. QED
    BY HoldAlways, <1>1, PTL

\* A failed verification is an infrastructure error of its operation, for any
\* number of operations (checked).
THEOREM FailuresAreRecorded == Spec => []FailuresRecorded
  <1>1. Always => FailuresRecorded
    BY DEF Always
  <1>. QED
    BY HoldAlways, <1>1, PTL

\* Whenever a campaign was ended, killed or refused, also while the directory
\* was being removed: what is left of an earlier one never stands beside
\* anything of this one (prepare_evidence_dir).
THEOREM DirectoryIsOwn == Spec => []NothingMixed
  <1>1. Always => NothingMixed
    BY DEF Always, Swept
  <1>. QED
    BY HoldAlways, <1>1, PTL

=============================================================================
