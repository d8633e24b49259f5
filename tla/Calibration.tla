----------------------------- MODULE Calibration -----------------------------
(***************************************************************************)
(* The calibration of the transcript oracle (acceptance/oracle.py          *)
(* calibrate): before its judgement is trusted, the ordered oracle must    *)
(* accept a transcript compared with itself and reject each of four        *)
(* deliberately violated copies.  The product campaign calibrates with     *)
(* three records, the foundation gate with three others.                   *)
(***************************************************************************)
EXTENDS Oracle

CONSTANT MaxRecords  \* bound: the longest transcript to calibrate with

ASSUME MaxRecordsAssumption == MaxRecords \in Nat

VARIABLES
    records,   \* the transcript
    turn,      \* how many violations have been tried
    results,   \* the verdicts by name, "none" before there is one
    pc         \* "calibrating", "done", "raised"

vars == <<records, turn, results, pc>>

Violations == {Injections[i] : i \in DOMAIN Injections}
Names == Violations \cup {"known-good"}
Transcripts == UNION {[1..n -> Value] : n \in 0..MaxRecords}

Init ==
    /\ \E values \in Transcripts, channel \in Labels :
          records = Records(channel, values)
    /\ turn = 0
    /\ results = [n \in Names |-> "none"]
    /\ pc = "calibrating"

KnownGood ==
    /\ pc = "calibrating"
    /\ results["known-good"] = "none"
    /\ results' = [results EXCEPT
                      !["known-good"] = CompareOrdered(records, records)]
    /\ UNCHANGED <<records, turn, pc>>

Trying ==
    /\ pc = "calibrating"
    /\ results["known-good"] # "none"
    /\ turn < Len(Injections)

\* inject needs two records to swap and to tell apart.
TooFewRecords ==
    /\ Trying
    /\ Len(records) < 2
    /\ pc' = "raised"
    /\ UNCHANGED <<records, turn, results>>

\* A violation the oracle does not see ends the calibration, another one is
\* recorded.
Try ==
    /\ Trying
    /\ Len(records) >= 2
    /\ LET violation == Injections[turn + 1]
           verdict == CompareOrdered(records, Inject(records, violation))
       IN  IF verdict = "PASS"
           THEN pc' = "raised" /\ UNCHANGED <<turn, results>>
           ELSE /\ results' = [results EXCEPT ![violation] = verdict]
                /\ turn' = turn + 1
                /\ UNCHANGED pc
    /\ UNCHANGED records

Finish ==
    /\ pc = "calibrating"
    /\ turn = Len(Injections)
    /\ pc' = "done"
    /\ UNCHANGED <<records, turn, results>>

Next == KnownGood \/ TooFewRecords \/ Try \/ Finish

Spec == Init /\ [][Next]_vars

-----------------------------------------------------------------------------
(* What the calibration establishes.                                       *)

\* Every variable has its type.
TypeOK ==
    /\ records \in Seq(MessageRecord)
    /\ turn \in 0..Len(Injections)
    /\ results \in [Names -> {"none", "PASS", "FAIL"}]
    /\ pc \in {"calibrating", "done", "raised"}

\* No violation of a transcript of two or more records escapes the ordered
\* oracle, whatever the messages are, equal or empty ones included: the
\* calibration of the campaign cannot raise (calibrate, inject).
NothingEscapes == pc = "raised" => Len(records) < 2

\* A finished calibration has a verdict for every name, and the right one:
\* what product_cli.run and cli.run demand of it before they pass.
Calibrated ==
    pc = "done" => \A n \in Names :
        results[n] = IF n = "known-good" THEN "PASS" ELSE "FAIL"

Rearranges(f, n) == {f[i] : i \in 1..n} = 1..n

\* The unordered oracle, which judges three scenarios and is never
\* calibrated, accepts exactly the transcripts whose messages are a
\* rearrangement of the sent ones (compare_unordered).
UnorderedAcceptsRearrangements ==
    \A values \in Transcripts, channel \in Labels :
        LET n == Len(values)
            received == Records(channel, values)
        IN  CompareUnordered(records, received) = "PASS"
            <=> /\ Len(records) = n
                /\ \E f \in [1..n -> 1..n] :
                      /\ Rearranges(f, n)
                      /\ \A i \in 1..n :
                            /\ records[f[i]].value = received[i].value
                            /\ records[f[i]].channel = channel

=============================================================================
