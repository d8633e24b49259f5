------------------------------ MODULE Campaign ------------------------------
(***************************************************************************)
(* A product acceptance campaign (acceptance/product_cli.py run) and the   *)
(* build binding it relies on (acceptance/evidence.py).  The campaign runs *)
(* its operations one after the other, each between two verifications of   *)
(* the bound artifacts against the build manifest.                         *)
(*                                                                         *)
(* A verification is not atomic: it loads the manifest file, then reads    *)
(* the artifacts one by one (the source trees, then the executable, its    *)
(* libraries, the helpers and the modules), and compares at the end.       *)
(* Builds and editors work on the same files meanwhile.  An artifact is    *)
(* its version, that of a source tree being what git makes of it; the      *)
(* digest over all of them is the tuple of versions.  Of a tree that git   *)
(* cannot examine, the tuple only says that it is unknown.                 *)
(***************************************************************************)
EXTENDS Naturals, Sequences, FiniteSets

CONSTANTS
    NumScenarios,  \* how many checked operations the campaign has
    BrowserScenarios,  \* those of them that talk to a browser
    NumArtifacts,  \* how many artifacts the manifest binds
    NumTrees,      \* how many of them, the first ones, are source trees
    Unknown,       \* stands for the content of a tree git cannot examine
    MaxVersion,    \* bound: how many contents an artifact may take on
    MaxDisturbances  \* bound: how many restorations and rebuilds there are

ASSUME CampaignAssumption ==
    /\ NumScenarios \in Nat
    /\ BrowserScenarios \subseteq 1..NumScenarios
    /\ NumArtifacts \in Nat \ {0}
    /\ NumTrees \in 0..NumArtifacts
    /\ Unknown \notin 0..MaxVersion
    /\ MaxVersion \in Nat
    /\ MaxDisturbances \in Nat

Scenarios == 1..NumScenarios
Artifacts == 1..NumArtifacts
Trees == 1..NumTrees
Versions == 0..MaxVersion
Contents == [Artifacts -> Versions]
Bindings == [Artifacts -> Versions \cup {Unknown}]
Verdicts == {"PASS", "FAIL", "INFRA_ERROR"}

VARIABLES
    artifact,    \* the content of every artifact on disk
    opaque,      \* the source trees that git cannot examine
    manifest,    \* the binding in the manifest file
    pc,          \* where the campaign is
    stage,       \* which verification is under way: start, before or after
    scenario,    \* the operation it is for
    expected,    \* the binding loaded for this verification
    measured,    \* the artifacts read for this verification
    cursor,      \* the artifact to read next
    verdict,     \* what the running operation returned
    verdicts,    \* the recorded verdict of every operation
    checks,      \* provenance-checks.json: the verifications that succeeded
    failures,    \* the verifications that failed
    calibrated,  \* whether the oracles tell good from injected behaviour
    summary,     \* the verdict of the summary it wrote, "none" before
    leftover,    \* what an earlier campaign left in the evidence directory
    protected,   \* whether the evidence path is refused as protected
    bound,       \* history: the binding the campaign was started for
    ran,         \* history: the operations that were started
    tainted,     \* history: which operation saw which artifact changed
    disturbed,   \* history: whether an artifact got an earlier content back
                 \* and whether the manifest file was built anew
    cause        \* history: where an exception or signal ended the campaign

environment == <<artifact, opaque, manifest>>
verification == <<stage, expected, measured, cursor>>
results == <<verdict, verdicts, checks, failures, summary>>
history == <<bound, ran, tainted, disturbed>>
vars == <<environment, pc, verification, scenario, results, calibrated,
          protected, leftover, history, cause>>

Original == [a \in Artifacts |-> 0]

\* What can be learned of an artifact: source_state reports a tree that git
\* status or diff fails on as unknown and has no digest of it, at most its
\* last commit, which tells nothing of the files.
Examined(a) == IF a \in opaque THEN Unknown ELSE artifact[a]

\* build_manifest, if nothing changes meanwhile.
Binding == [a \in Artifacts |-> Examined(a)]

\* Whatever the path is, an earlier campaign may have used it, and written its
\* summary or ended without one.
Init ==
    /\ artifact = Original
    /\ opaque \in SUBSET Trees
    /\ manifest = Binding
    /\ pc = "prepare"
    /\ stage = "start"
    /\ scenario = 1
    /\ expected = Original
    /\ measured = Original
    /\ cursor = 1
    /\ verdict = "INFRA_ERROR"
    /\ verdicts = [s \in Scenarios |-> "none"]
    /\ checks = <<>>
    /\ failures = {}
    /\ calibrated \in BOOLEAN
    /\ protected \in BOOLEAN
    /\ summary = "none"
    /\ leftover \in {{}, {"evidence"}, {"evidence", "summary"}}
    /\ bound = manifest
    /\ ran = {}
    /\ tainted = {}
    /\ disturbed = {}
    /\ cause = "none"

-----------------------------------------------------------------------------
(* The campaign.                                                           *)

\* An exception that nobody catches, or a signal.
Abort(why) == pc' = "aborted" /\ cause' = why

\* prepare_evidence_dir accepts the path.
Prepare ==
    /\ pc = "prepare"
    /\ ~protected
    /\ pc' = "sweep"
    /\ UNCHANGED <<environment, verification, scenario, results, calibrated,
                   protected, leftover, history, cause>>

\* prepare_evidence_dir refuses a directory that is not an evidence tree.
PrepareRefuses ==
    /\ pc = "prepare"
    /\ protected
    /\ Abort("prepare")
    /\ UNCHANGED <<environment, verification, scenario, results, calibrated,
                   protected, leftover, history>>

\* rmtree removes what an earlier campaign left, in any order.
Sweep ==
    /\ pc = "sweep"
    /\ \E file \in leftover : leftover' = leftover \ {file}
    /\ UNCHANGED <<environment, pc, verification, scenario, results,
                   calibrated, protected, history, cause>>

\* rmtree, or mkdir after it, raises.
SweepFails ==
    /\ pc = "sweep"
    /\ Abort("prepare")
    /\ UNCHANGED <<environment, verification, scenario, results, calibrated,
                   protected, leftover, history>>

\* Faulty variant of MakeDirectory: errors of rmtree are ignored, and a
\* directory that is still there will do.
MakeDirectoryAnyway ==
    /\ pc = "sweep"
    /\ pc' = "load"
    /\ UNCHANGED <<environment, verification, scenario, results, calibrated,
                   protected, leftover, history, cause>>

\* Nothing is left, and mkdir makes the directory anew.
MakeDirectory ==
    /\ pc = "sweep"
    /\ leftover = {}
    /\ pc' = "load"
    /\ UNCHANGED <<environment, verification, scenario, results, calibrated,
                   protected, leftover, history, cause>>

\* Faulty variant of Load: what was read for the last verification is reused.
LoadCached ==
    /\ pc = "load"
    /\ expected' = manifest
    /\ pc' = "hash"
    /\ UNCHANGED <<environment, stage, scenario, measured, cursor, results,
                   calibrated, protected, leftover, history, cause>>

\* verify_build_manifest loads the manifest file, every time again.
Load ==
    /\ pc = "load"
    /\ expected' = manifest
    /\ measured' = Original
    /\ cursor' = 1
    /\ pc' = "hash"
    /\ UNCHANGED <<environment, stage, scenario, results, calibrated,
                   protected, leftover, history, cause>>

\* build_manifest reads the next artifact.
Hash ==
    /\ pc = "hash"
    /\ cursor <= NumArtifacts
    /\ measured' = [measured EXCEPT ![cursor] = Examined(cursor)]
    /\ cursor' = cursor + 1
    /\ UNCHANGED <<environment, pc, stage, scenario, expected, results,
                   calibrated, protected, leftover, history, cause>>

NewCheck(when) == [stage |-> when, scenario |-> scenario, digest |-> measured]

\* The last thing before the next operation's first verification, or before
\* the calibration when there is no next operation.
Advance ==
    /\ scenario' = scenario + 1
    /\ stage' = "before"
    /\ pc' = IF scenario < NumScenarios THEN "load" ELSE "calibrate"

Matches ==
    /\ pc = "hash"
    /\ cursor > NumArtifacts
    /\ measured = expected

\* The binding the campaign starts from is the one on disk.
StartVerified ==
    /\ stage = "start"
    /\ Matches
    /\ stage' = "before"
    /\ pc' = IF NumScenarios > 0 THEN "load" ELSE "calibrate"
    /\ UNCHANGED <<environment, scenario, expected, measured, cursor, results,
                   calibrated, protected, leftover, history, cause>>

\* checked: the verification before the operation succeeds and it is started.
BeforeVerified ==
    /\ stage = "before"
    /\ Matches
    /\ checks' = Append(checks, NewCheck("before"))
    /\ ran' = ran \cup {scenario}
    /\ tainted' = tainted \cup
          {<<scenario, a>> : a \in {b \in Artifacts : artifact[b] # Original[b]}}
    /\ pc' = "operate"
    /\ UNCHANGED <<environment, verification, scenario, verdict, verdicts,
                   failures, summary, calibrated, protected, leftover, bound,
                   disturbed, cause>>

\* The operation returns its verdict and is verified once more.
OperationReturns(v) ==
    /\ pc = "operate"
    /\ verdict' = v
    /\ stage' = "after"
    /\ pc' = "load"
    /\ UNCHANGED <<environment, scenario, expected, measured, cursor,
                   verdicts, checks, failures, summary, calibrated, protected,
                   leftover, history, cause>>

\* An exception of an operation is not caught by the campaign.
OperationRaises ==
    /\ pc = "operate"
    /\ Abort("operate")
    /\ UNCHANGED <<environment, verification, scenario, results, calibrated,
                   protected, leftover, history>>

\* Faulty variant of AfterVerified: the verification leaves no record.
AfterVerifiedSilently ==
    /\ stage = "after"
    /\ Matches
    /\ verdicts' = [verdicts EXCEPT ![scenario] = verdict]
    /\ Advance
    /\ UNCHANGED <<environment, expected, measured, cursor, verdict, checks,
                   failures, summary, calibrated, protected, leftover,
                   history, cause>>

\* checked: the second verification succeeds and the verdict stands.
AfterVerified ==
    /\ stage = "after"
    /\ Matches
    /\ checks' = Append(checks, NewCheck("after"))
    /\ verdicts' = [verdicts EXCEPT ![scenario] = verdict]
    /\ Advance
    /\ UNCHANGED <<environment, expected, measured, cursor, verdict, failures,
                   summary, calibrated, protected, leftover, history, cause>>

\* The binding does not match, or the manifest file, a file of a tree or an
\* artifact cannot be read; only what git itself fails on is no error.
Mismatch ==
    /\ pc = "hash"
    /\ cursor > NumArtifacts => measured # expected

\* The campaign ends with an infrastructure error before any operation.
StartFails ==
    /\ stage = "start"
    /\ Mismatch
    /\ summary' = "INFRA_ERROR"
    /\ pc' = "done"
    /\ UNCHANGED <<environment, verification, scenario, verdict, verdicts,
                   checks, failures, calibrated, protected, leftover, history,
                   cause>>

\* Faulty variant of CheckFails: the verdict stands if the operation ran.
CheckFailsKeepsVerdict ==
    /\ stage \in {"before", "after"}
    /\ Mismatch
    /\ failures' = failures \cup {<<stage, scenario>>}
    /\ verdicts' = [verdicts EXCEPT ![scenario] =
                       IF stage = "after" THEN verdict ELSE "INFRA_ERROR"]
    /\ Advance
    /\ UNCHANGED <<environment, expected, measured, cursor, verdict, checks,
                   summary, calibrated, protected, leftover, history, cause>>

\* Faulty variant of CheckFails: nobody catches what a verification raises.
CheckFailsRaises ==
    /\ stage \in {"before", "after"}
    /\ Mismatch
    /\ Abort("hash")
    /\ UNCHANGED <<environment, verification, scenario, results, calibrated,
                   protected, leftover, history>>

\* checked: the operation is not started, or its verdict is discarded.
CheckFails ==
    /\ stage \in {"before", "after"}
    /\ Mismatch
    /\ failures' = failures \cup {<<stage, scenario>>}
    /\ verdicts' = [verdicts EXCEPT ![scenario] = "INFRA_ERROR"]
    /\ Advance
    /\ UNCHANGED <<environment, expected, measured, cursor, verdict, checks,
                   summary, calibrated, protected, leftover, history, cause>>

Passed ==
    /\ failures = {}
    /\ calibrated
    /\ \A s \in Scenarios : verdicts[s] = "PASS"

\* The oracles are calibrated and the summary is written.
Conclude ==
    /\ pc = "calibrate"
    /\ summary' = IF Passed THEN "PASS" ELSE "FAIL"
    /\ pc' = "done"
    /\ UNCHANGED <<environment, verification, scenario, verdict, verdicts,
                   checks, failures, calibrated, protected, leftover, history,
                   cause>>

\* calibrate raises when an injected violation escapes the oracle, and no
\* summary is written; a misjudged known-good record ends in Conclude.
CalibrationRaises ==
    /\ pc = "calibrate"
    /\ ~calibrated
    /\ Abort("calibrate")
    /\ UNCHANGED <<environment, verification, scenario, results, calibrated,
                   protected, leftover, history>>

-----------------------------------------------------------------------------
(* The environment.                                                        *)

Running == pc \notin {"done", "aborted"}

\* The campaign is interrupted or killed, or cannot write one of its files.
Killed ==
    /\ Running
    /\ Abort("outside")
    /\ UNCHANGED <<environment, verification, scenario, results, calibrated,
                   protected, leftover, history>>

MayDisturb == Cardinality(disturbed) < MaxDisturbances

\* A build, an edit or an upgrade gives an artifact a new content or, less
\* likely, an old one.
Change(a, v) ==
    /\ Running
    /\ v > artifact[a] \/ (v < artifact[a] /\ MayDisturb)
    /\ artifact' = [artifact EXCEPT ![a] = v]
    /\ disturbed' = IF v > artifact[a] THEN disturbed
                    ELSE disturbed \cup {"restored"}
    /\ tainted' = IF pc = "operate" THEN tainted \cup {<<scenario, a>>}
                  ELSE tainted
    /\ UNCHANGED <<opaque, manifest, pc, verification, scenario, results,
                   calibrated, protected, leftover, bound, ran, cause>>

\* git fails on a tree from now on, or works on it again.
Obscure(t) ==
    /\ Running
    /\ opaque' = IF t \in opaque THEN opaque \ {t} ELSE opaque \cup {t}
    /\ UNCHANGED <<artifact, manifest, pc, verification, scenario, results,
                   calibrated, protected, leftover, history, cause>>

\* dc-build-manifest binds what is there now.
Rewrite ==
    /\ Running
    /\ MayDisturb
    /\ manifest # Binding
    /\ manifest' = Binding
    /\ disturbed' = disturbed \cup {"rebuilt"}
    /\ UNCHANGED <<artifact, opaque, pc, verification, scenario, results,
                   calibrated, protected, leftover, bound, ran, tainted,
                   cause>>

Step ==
    \/ Prepare \/ PrepareRefuses \/ Sweep \/ SweepFails \/ MakeDirectory
    \/ Load \/ Hash
    \/ StartVerified \/ BeforeVerified \/ AfterVerified
    \/ StartFails \/ CheckFails
    \/ (\E v \in Verdicts : OperationReturns(v)) \/ OperationRaises
    \/ Conclude \/ CalibrationRaises

Next ==
    \/ Step
    \/ Killed
    \/ \E a \in Artifacts, v \in Versions : Change(a, v)
    \/ \E t \in Trees : Obscure(t)
    \/ Rewrite

Spec == Init /\ [][Next]_vars

\* An operation with a browser need not end: its answers have no deadline.
AwaitsBrowser == pc = "operate" /\ scenario \in BrowserScenarios

\* The campaign's own steps are finite, and so are the other operations.
FairSpec == Spec /\ WF_vars(~AwaitsBrowser /\ Step)

-----------------------------------------------------------------------------
(* What a campaign promises.                                               *)

Checks == [stage : {"before", "after"}, scenario : Scenarios, digest : Bindings]

\* Every variable has its type.
TypeOK ==
    /\ artifact \in Contents
    /\ opaque \subseteq Trees
    /\ manifest \in Bindings
    /\ pc \in {"prepare", "sweep", "load", "hash", "operate", "calibrate",
               "done", "aborted"}
    /\ stage \in {"start", "before", "after"}
    /\ scenario \in 1..(NumScenarios + 1)
    /\ expected \in Bindings
    /\ measured \in Bindings
    /\ cursor \in 1..(NumArtifacts + 1)
    /\ verdict \in Verdicts
    /\ verdicts \in [Scenarios -> Verdicts \cup {"none"}]
    /\ checks \in Seq(Checks)
    /\ failures \subseteq {"before", "after"} \X Scenarios
    /\ calibrated \in BOOLEAN
    /\ summary \in Verdicts \cup {"none"}
    /\ protected \in BOOLEAN
    /\ leftover \subseteq {"evidence", "summary"}
    /\ bound \in Bindings
    /\ ran \subseteq Scenarios
    /\ tainted \subseteq Scenarios \X Artifacts
    /\ disturbed \subseteq {"restored", "rebuilt"}
    /\ cause \in {"none", "prepare", "operate", "calibrate", "outside"}

\* A campaign that passes has run every operation, and no artifact whose
\* content is bound had another one at any moment of any operation, if none
\* was restored and the manifest file was not rebuilt.
UnchangedOnPass ==
    summary = "PASS" /\ disturbed = {} =>
        /\ ran = Scenarios
        /\ \A change \in tainted : bound[change[2]] = Unknown

\* The promise of README.md, which knows of no such exception: a change of a
\* source or an artifact cannot produce a pass.  Here for any of them that is
\* not restored while nothing is rebuilt.
SourcesAreBound == summary = "PASS" /\ disturbed = {} => tainted = {}

\* The same promise, also when the manifest file was rebuilt.
ChangeNeverPasses ==
    summary = "PASS" /\ disturbed \subseteq {"rebuilt"} => tainted = {}

\* provenance-checks.json: an operation whose own verdict was recorded was
\* started, and the verifications recorded next to each other before and after
\* it are its own; they are of the bound artifacts unless those were rebound.
VerdictBacked ==
    \A s \in Scenarios :
        verdicts[s] \in {"PASS", "FAIL"} =>
            /\ s \in ran
            /\ \E k \in 1..(Len(checks) - 1) :
                  LET opening == checks[k]
                      closing == checks[k + 1]
                  IN  /\ opening.scenario = s /\ opening.stage = "before"
                      /\ closing.scenario = s /\ closing.stage = "after"
                      /\ \/ {opening.digest, closing.digest} = {bound}
                         \/ "rebuilt" \in disturbed

\* checked: a failed verification turns the verdict of its operation into an
\* infrastructure error, one that failed before keeps it from being started.
FailuresRecorded ==
    \A f \in failures :
        /\ verdicts[f[2]] = "INFRA_ERROR"
        /\ f[1] = "before" <=> f[2] \notin ran

\* Nothing of an earlier campaign stands beside what this one has done: once
\* a verification or an operation is on record, or a summary written, the
\* directory is its own (prepare_evidence_dir).
NothingMixed ==
    checks # <<>> \/ failures # {} \/ ran # {} \/ summary # "none" =>
        leftover = {}

\* Every campaign ends with its summary, whatever the verifications say: only
\* an exception of its preparation, an operation or the calibration, a signal
\* and a browser that never answers keep it from that.
Ends ==
    \/ <>(summary # "none" \/
             cause \in {"prepare", "operate", "calibrate", "outside"})
    \/ <>[]AwaitsBrowser

=============================================================================
