------------------------------- MODULE Oracle -------------------------------
(***************************************************************************)
(* The message records of the harness and the two transcript oracles that  *)
(* compare what was sent with what came back (acceptance/model.py), with   *)
(* the violations the oracles are calibrated against (oracle.py).          *)
(*                                                                         *)
(* A record carries its payload and a digest of it; run, association and   *)
(* direction are the same in every record of a transcript and are left     *)
(* out.  The digest of a payload stands for itself, so that a digest and a *)
(* payload disagree exactly when one of them was tampered with.            *)
(***************************************************************************)
EXTENDS Naturals, Sequences, FiniteSets

CONSTANTS
    Types,     \* text and binary
    Payloads,  \* the payloads of messages
    Labels,    \* the labels of channels
    Zeros      \* sixty-four zeros where a digest should be

\* No payload is known that hashes to zero.
ASSUME DigestAssumption == Zeros \notin Payloads

Value == [type : Types, payload : Payloads]

MessageRecord == [channel : Labels, sequence : Nat \ {0}, value : Value,
                  digest : Payloads \cup {Zeros}]

\* The records of a list of messages, numbered in the order of the list.
Records(channel, values) ==
    [n \in 1..Len(values) |->
        [channel |-> channel, sequence |-> n, value |-> values[n],
         digest |-> values[n].payload]]

Smaller(m, n) == IF m < n THEN m ELSE n

-----------------------------------------------------------------------------
(* The oracles.                                                            *)

\* Transcripts of different length differ, and so does every pair of records
\* at the same position up to the end of the shorter one.
OrderedFailures(sent, received) ==
    (IF Len(sent) # Len(received) THEN {<<"length", 0>>} ELSE {})
    \cup {<<"record", i>> : i \in {j \in 1..Smaller(Len(sent), Len(received)) :
                                      sent[j] # received[j]}}

\* Faulty variant of Key: the number is part of it.
KeyNumbered(record) == record

\* What the unordered oracle looks at: everything but the number.
Key(record) == [channel |-> record.channel, value |-> record.value,
                digest |-> record.digest]

Occurrences(records, key) ==
    Cardinality({i \in 1..Len(records) : Key(records[i]) = key})

Keys(records) == {Key(records[i]) : i \in 1..Len(records)}

UnorderedFailures(sent, received) ==
    {<<"key", k>> : k \in {l \in Keys(sent) \cup Keys(received) :
                              Occurrences(sent, l) # Occurrences(received, l)}}

Judge(failures) == IF failures = {} THEN "PASS" ELSE "FAIL"

CompareOrdered(sent, received) == Judge(OrderedFailures(sent, received))

CompareUnordered(sent, received) == Judge(UnorderedFailures(sent, received))

-----------------------------------------------------------------------------
(* Deliberate violations of a transcript.                                  *)

Injections == <<"corrupt", "omit", "duplicate", "reorder">>

Swap(records, i, j) ==
    [records EXCEPT ![i] = records[j], ![j] = records[i]]

\* Defined for two records and more.
Inject(records, violation) ==
    LET last == Len(records) IN
    CASE violation = "corrupt"   -> [records EXCEPT ![1].digest = Zeros]
      [] violation = "omit"      -> SubSeq(records, 1, last - 1)
      [] violation = "duplicate" -> Append(records, records[last])
      [] violation = "reorder"   -> Swap(records, 1, 2)

=============================================================================
