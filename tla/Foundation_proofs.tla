-------------------------- MODULE Foundation_proofs --------------------------
(***************************************************************************)
(* The ordered oracle accepts a transcript exactly when it is the sent one *)
(* (so every difference is seen), the unordered one exactly when it is a   *)
(* rearrangement of the sent one, and the calibration against the four     *)
(* injected violations succeeds for every transcript of two records or     *)
(* more, of any length and any content.                                    *)
(*                                                                         *)
(* The foundation gate passes only with exact scenarios and calibrated     *)
(* oracles, and fails only for a reason, for every number of messages and  *)
(* of faults.                                                              *)
(***************************************************************************)
EXTENDS Foundation, SequenceTheorems, FiniteSetTheorems, FunctionTheorems,
        TLAPS

\* A transcript as the harness numbers it.
Numbered(rs) ==
    /\ rs \in Seq(MessageRecord)
    /\ \A n \in 1..Len(rs) :
          rs[n].sequence = n /\ rs[n].digest = rs[n].value.payload

LEMMA RecordsNumbered ==
    ASSUME NEW values \in Seq(Value), NEW channel \in Labels
    PROVE  /\ Numbered(Records(channel, values))
           /\ Len(Records(channel, values)) = Len(values)
  <1> DEFINE rs == Records(channel, values)
  <1>1. \A n \in 1..Len(values) : values[n] \in Value
    OBVIOUS
  <1>2. \A n \in 1..Len(values) :
          [channel |-> channel, sequence |-> n, value |-> values[n],
           digest |-> values[n].payload] \in MessageRecord
    BY <1>1 DEF Value, MessageRecord
  <1>3. rs = [n \in 1..Len(values) |->
                [channel |-> channel, sequence |-> n, value |-> values[n],
                 digest |-> values[n].payload]]
    BY DEF Records
  <1>4. Len(values) \in Nat
    OBVIOUS
  <1> HIDE DEF rs
  <1>5. rs \in Seq(MessageRecord) /\ Len(rs) = Len(values)
    BY <1>2, <1>3, <1>4, IsASeq
  <1>6. \A n \in 1..Len(rs) :
          rs[n].sequence = n /\ rs[n].digest = rs[n].value.payload
    BY <1>3, <1>5
  <1> QED
    BY <1>5, <1>6 DEF Numbered, rs

\* The ordered oracle tells every two transcripts apart, and only them,
\* whatever the records are made of (compare_ordered).
THEOREM OrderedOracleExact ==
    ASSUME NEW S, NEW s \in Seq(S), NEW t \in Seq(S)
    PROVE  CompareOrdered(s, t) = "PASS" <=> s = t
  <1> DEFINE upTo == Smaller(Len(s), Len(t))
  <1>1. ASSUME s = t PROVE OrderedFailures(s, t) = {}
    BY <1>1 DEF OrderedFailures, Smaller
  <1>2. ASSUME OrderedFailures(s, t) = {} PROVE s = t
    <2>1. Len(s) = Len(t)
      BY <1>2 DEF OrderedFailures
    <2>2. upTo = Len(s)
      BY <2>1 DEF Smaller
    <2>3. \A j \in 1..upTo : s[j] = t[j]
      BY <1>2 DEF OrderedFailures
    <2> QED
      BY <2>1, <2>2, <2>3, SeqEqual
  <1> QED
    BY <1>1, <1>2 DEF CompareOrdered, Judge

-----------------------------------------------------------------------------
(* The unordered oracle.                                                   *)

\* Where the records with a key are.
Places(rs, k) == {i \in 1..Len(rs) : Key(rs[i]) = k}

LEMMA PlacesFinite ==
    ASSUME NEW rs \in Seq(MessageRecord), NEW k
    PROVE  IsFiniteSet(Places(rs, k)) /\ Occurrences(rs, k) = Cardinality(Places(rs, k))
  <1>1. Places(rs, k) \subseteq 1..Len(rs) /\ IsFiniteSet(1..Len(rs))
    BY LenProperties, FS_Interval DEF Places
  <1> QED
    BY <1>1, FS_Subset DEF Occurrences, Places

LEMMA UpTo ==
    ASSUME NEW n \in Nat PROVE IsFiniteSet(1..n) /\ Cardinality(1..n) = n
  <1>1. IsFiniteSet(1..n) /\ Cardinality(1..n) = IF 1 > n THEN 0 ELSE n - 1 + 1
    BY FS_Interval
  <1> QED
    BY <1>1

\* Two transcripts pass the unordered oracle exactly when every key is in
\* both as often; the keys in neither included.
LEMMA PassMeansAsOften ==
    ASSUME NEW s \in Seq(MessageRecord), NEW t \in Seq(MessageRecord)
    PROVE  CompareUnordered(s, t) = "PASS"
           <=> \A k : Occurrences(s, k) = Occurrences(t, k)
  <1>1. ASSUME NEW rs \in Seq(MessageRecord), NEW k, k \notin Keys(rs)
        PROVE  Occurrences(rs, k) = 0
    <2>1. Places(rs, k) = {}
      BY <1>1 DEF Places, Keys
    <2> QED
      BY <2>1, PlacesFinite, FS_EmptySet
  <1>2. UnorderedFailures(s, t) = {} <=>
            \A k \in Keys(s) \cup Keys(t) : Occurrences(s, k) = Occurrences(t, k)
    BY DEF UnorderedFailures
  <1>3. (\A k \in Keys(s) \cup Keys(t) : Occurrences(s, k) = Occurrences(t, k))
        => \A k : Occurrences(s, k) = Occurrences(t, k)
    BY <1>1
  <1>4. CompareUnordered(s, t) = "PASS" <=> UnorderedFailures(s, t) = {}
    BY DEF CompareUnordered, Judge
  <1> QED
    BY <1>2, <1>3, <1>4

\* Where two transcripts have every key as often, the places of the one match
\* the places of the other, key by key.
LEMMA AsOftenRearranges ==
    ASSUME NEW s \in Seq(MessageRecord), NEW t \in Seq(MessageRecord),
           \A k : Occurrences(s, k) = Occurrences(t, k)
    PROVE  /\ Len(s) = Len(t)
           /\ \E f \in [1..Len(t) -> 1..Len(t)] :
                 /\ Rearranges(f, Len(t))
                 /\ \A i \in 1..Len(t) : Key(s[f[i]]) = Key(t[i])
  <1>1. Len(s) \in Nat /\ Len(t) \in Nat
    BY LenProperties
  <1> DEFINE pick(k) == CHOOSE b : b \in Bijection(Places(t, k), Places(s, k))
             f == [i \in 1..Len(t) |-> pick(Key(t[i]))[i]]
  <1>2. ASSUME NEW k PROVE pick(k) \in Bijection(Places(t, k), Places(s, k))
    <2>1. /\ IsFiniteSet(Places(t, k)) /\ IsFiniteSet(Places(s, k))
          /\ Cardinality(Places(t, k)) = Cardinality(Places(s, k))
      BY PlacesFinite
    <2>2. ExistsBijection(Places(t, k), Places(s, k))
      BY <2>1, FS_SameCardinalityBij
    <2>3. \E b : b \in Bijection(Places(t, k), Places(s, k))
      BY <2>2 DEF ExistsBijection
    <2> QED
      BY <2>3
  <1> HIDE DEF pick
  <1>3. ASSUME NEW k
        PROVE  /\ \A i \in Places(t, k) : pick(k)[i] \in Places(s, k)
               /\ \A i, j \in Places(t, k) : pick(k)[i] = pick(k)[j] => i = j
               /\ \A m \in Places(s, k) : \E i \in Places(t, k) : pick(k)[i] = m
    <2>1. pick(k) \in Bijection(Places(t, k), Places(s, k))
      BY <1>2
    <2> QED
      BY <2>1, Fun_BijectionProperties
  <1>4. ASSUME NEW i \in 1..Len(t)
        PROVE  f[i] \in 1..Len(s) /\ Key(s[f[i]]) = Key(t[i])
    <2>1. i \in Places(t, Key(t[i]))
      BY DEF Places
    <2>2. f[i] \in Places(s, Key(t[i]))
      BY <1>3, <2>1
    <2> QED
      BY <2>2 DEF Places
  <1>5. \A m \in 1..Len(s) : \E i \in 1..Len(t) : f[i] = m
    <2> TAKE m \in 1..Len(s)
    <2>1. m \in Places(s, Key(s[m]))
      BY DEF Places
    <2>2. PICK i \in Places(t, Key(s[m])) : pick(Key(s[m]))[i] = m
      BY <1>3, <2>1
    <2>3. i \in 1..Len(t) /\ Key(t[i]) = Key(s[m])
      BY <2>2 DEF Places
    <2> QED
      BY <2>2, <2>3
  <1>6. f \in Bijection(1..Len(t), 1..Len(s))
    <2>1. f \in [1..Len(t) -> 1..Len(s)]
      BY <1>4
    <2>2. ASSUME NEW i \in 1..Len(t), NEW j \in 1..Len(t), f[i] = f[j] PROVE i = j
      <3>1. Key(t[i]) = Key(t[j])
        BY <1>4, <2>2
      <3>2. i \in Places(t, Key(t[i])) /\ j \in Places(t, Key(t[i]))
        BY <3>1 DEF Places
      <3>3. pick(Key(t[i]))[i] = pick(Key(t[i]))[j]
        BY <2>2, <3>1
      <3> QED
        BY <1>3, <3>2, <3>3
    <2> HIDE DEF f
    <2> QED
      BY <1>5, <2>1, <2>2, Fun_IsBij
  <1> HIDE DEF f
  <1>7. Len(s) = Len(t)
    <2>1. /\ ExistsBijection(1..Len(t), 1..Len(s)) /\ IsFiniteSet(1..Len(t))
          /\ Cardinality(1..Len(s)) = Len(s) /\ Cardinality(1..Len(t)) = Len(t)
      BY <1>1, <1>6, UpTo DEF ExistsBijection
    <2> QED
      BY <2>1, FS_Bijection
  <1>8. f \in [1..Len(t) -> 1..Len(t)] /\ Rearranges(f, Len(t))
    <2>1. f \in [1..Len(t) -> 1..Len(t)]
      BY <1>6, <1>7, Fun_BijectionProperties
    <2> QED
      BY <1>5, <1>7, <2>1 DEF Rearranges
  <1> QED
    BY <1>4, <1>7, <1>8

\* A rearrangement has every key as often: onto the positions means one to
\* one, and so the places of a key match.
LEMMA RearrangedIsAsOften ==
    ASSUME NEW s \in Seq(MessageRecord), NEW t \in Seq(MessageRecord),
           Len(s) = Len(t), NEW f \in [1..Len(t) -> 1..Len(t)],
           Rearranges(f, Len(t)),
           \A i \in 1..Len(t) : Key(s[f[i]]) = Key(t[i]),
           NEW k
    PROVE  Occurrences(s, k) = Occurrences(t, k)
  <1> DEFINE I == 1..Len(t)
             A == Places(t, k)
             B == Places(s, k)
             g == [i \in A |-> f[i]]
  <1>1. IsFiniteSet(I)
    BY LenProperties, UpTo
  <1>2. \A m \in I : \E i \in I : f[i] = m
    BY DEF Rearranges
  <1>3. f \in Surjection(I, I)
    BY <1>2, Fun_IsSurj
  <1>4. f \in Injection(I, I)
    BY <1>1, <1>3, FS_SurjSameCardinalityImpliesInj
  <1>5. \A i, j \in I : f[i] = f[j] => i = j
    BY <1>4 DEF Injection, IsInjective
  <1>6. \A i \in A : i \in I /\ f[i] \in B
    BY DEF Places
  <1>7. \A m \in B : \E i \in A : f[i] = m
    BY <1>2 DEF Places
  <1> HIDE DEF A, B, I
  <1>8. g \in Bijection(A, B)
    <2>1. g \in [A -> B] /\ \A i, j \in A : g[i] = g[j] => i = j
      BY <1>5, <1>6
    <2>2. \A m \in B : \E i \in A : g[i] = m
      BY <1>7
    <2> QED
      BY <2>1, <2>2, Fun_IsBij
  <1>9. ExistsBijection(A, B)
    BY <1>8 DEF ExistsBijection
  <1>10. /\ IsFiniteSet(A) /\ Occurrences(t, k) = Cardinality(A)
         /\ Occurrences(s, k) = Cardinality(B)
    BY PlacesFinite DEF A, B
  <1> QED
    BY <1>9, <1>10, FS_Bijection

\* The unordered oracle accepts the rearrangements of what was sent, and only
\* them (compare_unordered).
THEOREM UnorderedOracleExact ==
    ASSUME NEW s \in Seq(MessageRecord), NEW t \in Seq(MessageRecord)
    PROVE  CompareUnordered(s, t) = "PASS"
           <=> /\ Len(s) = Len(t)
               /\ \E f \in [1..Len(t) -> 1..Len(t)] :
                     /\ Rearranges(f, Len(t))
                     /\ \A i \in 1..Len(t) : Key(s[f[i]]) = Key(t[i])
  BY PassMeansAsOften, AsOftenRearranges, RearrangedIsAsOften

-----------------------------------------------------------------------------
(* Every injected violation is another transcript.                         *)

LEMMA InjectionDiffers ==
    ASSUME NEW rs, Numbered(rs), Len(rs) >= 2, NEW violation \in Violations
    PROVE  /\ Inject(rs, violation) \in Seq(MessageRecord)
           /\ Inject(rs, violation) # rs
  <1> DEFINE last == Len(rs)
  <1>1. /\ rs \in Seq(MessageRecord) /\ last \in Nat
        /\ 1 \in 1..last /\ 2 \in 1..last /\ last \in 1..last
    BY DEF Numbered
  <1>2. rs[1] \in MessageRecord /\ rs[2] \in MessageRecord
        /\ rs[last] \in MessageRecord
    BY <1>1, ElementOfSeq
  <1>3. CASE violation = "corrupt"
    <2>1. [rs[1] EXCEPT !.digest = Zeros] \in MessageRecord
      BY <1>2 DEF MessageRecord
    <2>2. Inject(rs, violation) = [rs EXCEPT ![1] =
                                      [rs[1] EXCEPT !.digest = Zeros]]
      BY <1>3 DEF Inject
    <2>3. Inject(rs, violation) \in Seq(MessageRecord)
      BY <1>1, <2>1, <2>2, ExceptSeq
    <2>4. rs[1].digest # Zeros
      <3>1. rs[1].digest = rs[1].value.payload
        BY <1>1 DEF Numbered
      <3>2. rs[1].value.payload \in Payloads
        BY <1>2 DEF MessageRecord, Value
      <3> QED
        BY <3>1, <3>2, DigestAssumption
    <2>5. Inject(rs, violation)[1].digest = Zeros
      BY <1>1, <1>2, <2>2 DEF MessageRecord
    <2> QED
      BY <2>3, <2>4, <2>5
  <1>4. CASE violation = "omit"
    <2>1. Inject(rs, violation) = SubSeq(rs, 1, last - 1)
      BY <1>4 DEF Inject
    <2>2. /\ SubSeq(rs, 1, last - 1) \in Seq(MessageRecord)
          /\ Len(SubSeq(rs, 1, last - 1)) = last - 1
      BY <1>1, SubSeqProperties
    <2>3. last - 1 # last
      BY <1>1
    <2> QED
      BY <2>1, <2>2, <2>3
  <1>5. CASE violation = "duplicate"
    <2>1. Inject(rs, violation) = Append(rs, rs[last])
      BY <1>5 DEF Inject
    <2>2. /\ Append(rs, rs[last]) \in Seq(MessageRecord)
          /\ Len(Append(rs, rs[last])) = last + 1
      BY <1>1, <1>2, AppendProperties
    <2> QED
      BY <1>1, <2>1, <2>2
  <1>6. CASE violation = "reorder"
    <2>1. Inject(rs, violation) = [rs EXCEPT ![1] = rs[2], ![2] = rs[1]]
      BY <1>6 DEF Inject, Swap
    <2>2. [rs EXCEPT ![1] = rs[2]] \in Seq(MessageRecord)
          /\ Len([rs EXCEPT ![1] = rs[2]]) = last
      BY <1>1, <1>2, ExceptSeq
    <2>3. Inject(rs, violation) \in Seq(MessageRecord)
      BY <1>1, <1>2, <2>1, <2>2, ExceptSeq
    <2>4. Inject(rs, violation)[1] = rs[2]
      BY <1>1, <2>1
    <2>5. rs[1].sequence = 1 /\ rs[2].sequence = 2
      BY <1>1 DEF Numbered
    <2> QED
      BY <2>3, <2>4, <2>5
  <1> QED
    BY <1>3, <1>4, <1>5, <1>6 DEF Violations, Injections

-----------------------------------------------------------------------------
(* The calibration.                                                        *)

Tried == {Injections[i] : i \in 1..turn}

\* Why no violation escapes: the transcript stays numbered, the violations
\* tried were rejected, and the good one was accepted before the first.
IInv ==
    /\ Numbered(records)
    /\ turn \in 0..4
    /\ results \in [Names -> {"none", "PASS", "FAIL"}]
    /\ results["known-good"] \in {"none", "PASS"}
    /\ turn > 0 => results["known-good"] = "PASS"
    /\ \A i \in 1..turn : results[Injections[i]] = "FAIL"
    /\ pc \in {"calibrating", "done", "raised"}
    /\ pc = "raised" => Len(records) < 2
    /\ pc = "done" => turn = 4

LEMMA Initially == Init => IInv
  <1> SUFFICES ASSUME Init PROVE IInv
    OBVIOUS
  <1>1. PICK values \in Transcripts, channel \in Labels :
           records = Records(channel, values)
    BY DEF Init
  <1>2. values \in Seq(Value)
    BY MaxRecordsAssumption DEF Transcripts
  <1>3. Numbered(records)
    BY <1>1, <1>2, RecordsNumbered
  <1>4. "known-good" \in Names
    BY DEF Names
  <1> QED
    BY <1>3, <1>4 DEF Init, IInv

LEMMA Invariance == IInv /\ [Next]_vars => IInv'
  <1> SUFFICES ASSUME IInv, [Next]_vars PROVE IInv'
    OBVIOUS
  <1> USE DEF IInv
  <1>1. /\ "known-good" \in Names
        /\ Len(Injections) = 4
        /\ \A i \in 1..4 : /\ Injections[i] \in Violations
                           /\ Injections[i] \in Names
                           /\ Injections[i] # "known-good"
        /\ \A i, j \in 1..4 : i # j => Injections[i] # Injections[j]
    BY DEF Injections, Violations, Names
  <1>2. CASE KnownGood
    <2>1. records \in Seq(MessageRecord)
      BY DEF Numbered
    <2>2. CompareOrdered(records, records) = "PASS"
      BY <2>1, OrderedOracleExact
    <2>3. results' = [results EXCEPT !["known-good"] = "PASS"]
      BY <1>2, <2>2 DEF KnownGood
    <2>4. Numbered(records)'
      BY <1>2 DEF KnownGood, Numbered
    <2> QED
      BY <1>1, <1>2, <2>3, <2>4 DEF KnownGood
  <1>3. CASE TooFewRecords
    BY <1>3 DEF TooFewRecords, Trying, Numbered
  <1>4. CASE Try
    <2> DEFINE violation == Injections[turn + 1]
               verdict == CompareOrdered(records, Inject(records, violation))
    <2>1. turn + 1 \in 1..4 /\ violation \in Violations
      BY <1>1, <1>4 DEF Try, Trying
    <2>2. /\ Inject(records, violation) \in Seq(MessageRecord)
          /\ Inject(records, violation) # records
      BY <1>4, <2>1, InjectionDiffers DEF Try
    <2>3. records \in Seq(MessageRecord)
      BY DEF Numbered
    <2>4. verdict # "PASS"
      BY <2>2, <2>3, OrderedOracleExact
    <2>5. verdict = "FAIL"
      BY <2>4 DEF CompareOrdered, Judge
    <2>6. /\ results' = [results EXCEPT ![violation] = "FAIL"]
          /\ turn' = turn + 1
          /\ UNCHANGED <<pc, records>>
      BY <1>4, <2>4, <2>5 DEF Try
    <2> HIDE DEF violation, verdict
    <2>7. Numbered(records)'
      BY <2>6 DEF Numbered
    <2>8. results'["known-good"] = "PASS"
      BY <1>1, <1>4, <2>1, <2>6 DEF Try, Trying, violation
    <2>9. \A i \in 1..turn' : results'[Injections[i]] = "FAIL"
      BY <1>1, <2>1, <2>6 DEF violation
    <2>10. results' \in [Names -> {"none", "PASS", "FAIL"}]
      BY <2>6
    <2>11. turn' \in 0..4 /\ pc' = "calibrating"
      BY <1>4, <2>1, <2>6 DEF Try, Trying
    <2> QED
      BY <2>7, <2>8, <2>9, <2>10, <2>11
  <1>5. CASE Finish
    BY <1>1, <1>5 DEF Finish, Numbered
  <1>6. CASE UNCHANGED vars
    BY <1>6 DEF vars, Numbered
  <1> QED
    BY <1>2, <1>3, <1>4, <1>5, <1>6 DEF Next

\* No injected violation of two or more records escapes the ordered oracle,
\* whatever was sent (calibrate, inject, compare_ordered).
THEOREM NoEscape == Spec => []NothingEscapes
  <1>1. IInv => NothingEscapes
    BY DEF IInv, NothingEscapes
  <1> QED
    BY <1>1, Initially, Invariance, PTL DEF Spec

\* A calibration that is done is right.
LEMMA DoneIsRight == IInv => Calibrated
  <1> SUFFICES ASSUME IInv, pc = "done", NEW n \in Names
               PROVE  results[n] = IF n = "known-good" THEN "PASS" ELSE "FAIL"
    BY DEF Calibrated
  <1>1. turn = 4 /\ results["known-good"] = "PASS"
    BY DEF IInv
  <1>2. n = "known-good" \/ \E i \in 1..4 : n = Injections[i]
    BY DEF Names, Violations, Injections
  <1>3. \A i \in 1..4 : Injections[i] # "known-good"
    BY DEF Injections
  <1> QED
    BY <1>1, <1>2, <1>3 DEF IInv

\* A calibration that finishes has the verdicts that the campaign demands
\* (calibrate, and the use product_cli.run and cli.run make of it).
THEOREM CalibrationExact == Spec => []Calibrated
  <1>1. IInv => Calibrated
    BY DoneIsRight
  <1> QED
    BY <1>1, Initially, Invariance, PTL DEF Spec

\* The records a harness makes have the digests of their payloads, so that a
\* message and a channel are all there is to a key (MessageRecord.from_payload).
LEMMA NumberedSuffices == Numbered(records) => UnorderedAcceptsRearrangements
  <1> SUFFICES ASSUME Numbered(records), NEW values \in Transcripts, NEW channel \in Labels
               PROVE  CompareUnordered(records, Records(channel, values)) = "PASS"
                      <=> /\ Len(records) = Len(values)
                          /\ \E f \in [1..Len(values) -> 1..Len(values)] :
                                /\ Rearranges(f, Len(values))
                                /\ \A i \in 1..Len(values) :
                                      /\ records[f[i]].value =
                                             Records(channel, values)[i].value
                                      /\ records[f[i]].channel = channel
    BY DEF UnorderedAcceptsRearrangements
  <1> DEFINE rs == Records(channel, values)
             n == Len(values)
  <1>1. values \in Seq(Value)
    BY MaxRecordsAssumption DEF Transcripts
  <1>2. Numbered(rs) /\ Len(rs) = n
    BY <1>1, RecordsNumbered
  <1>3. \A i \in 1..n : rs[i].channel = channel
    BY DEF Records
  <1> HIDE DEF rs
  <1>4. /\ records \in Seq(MessageRecord)
        /\ \A i \in 1..Len(records) : records[i].digest = records[i].value.payload
        /\ rs \in Seq(MessageRecord)
        /\ \A i \in 1..n : rs[i].digest = rs[i].value.payload
    BY <1>2 DEF Numbered
  <1>5. ASSUME Len(records) = n, NEW i \in 1..n, NEW j \in 1..n
        PROVE  Key(records[j]) = Key(rs[i])
               <=> /\ records[j].value = rs[i].value
                   /\ records[j].channel = channel
    BY <1>3, <1>4, <1>5 DEF Key
  <1> HIDE DEF n
  <1>6. CompareUnordered(records, rs) = "PASS"
        <=> /\ Len(records) = n
            /\ \E f \in [1..n -> 1..n] :
                  /\ Rearranges(f, n)
                  /\ \A i \in 1..n : Key(records[f[i]]) = Key(rs[i])
    BY <1>2, <1>4, UnorderedOracleExact
  <1>7. ASSUME Len(records) = n, NEW f \in [1..n -> 1..n]
        PROVE  (\A i \in 1..n : Key(records[f[i]]) = Key(rs[i]))
               <=> \A i \in 1..n : /\ records[f[i]].value = rs[i].value
                                   /\ records[f[i]].channel = channel
    <2>1. \A i \in 1..n : f[i] \in 1..n
      OBVIOUS
    <2> QED
      BY <1>5, <1>7, <2>1
  <1>8. (Len(records) = n
         /\ \E f \in [1..n -> 1..n] :
               /\ Rearranges(f, n)
               /\ \A i \in 1..n : Key(records[f[i]]) = Key(rs[i]))
        <=> (Len(records) = n
             /\ \E f \in [1..n -> 1..n] :
                   /\ Rearranges(f, n)
                   /\ \A i \in 1..n : /\ records[f[i]].value = rs[i].value
                                       /\ records[f[i]].channel = channel)
    BY <1>7
  <1> QED
    BY <1>6, <1>8 DEF n, rs

\* The unordered oracle accepts a transcript exactly when its messages are a
\* rearrangement of the sent ones, on the same channel (compare_unordered).
THEOREM UnorderedExact == Spec => []UnorderedAcceptsRearrangements
  <1>1. IInv => UnorderedAcceptsRearrangements
    BY NumberedSuffices DEF IInv
  <1> QED
    BY <1>1, Initially, Invariance, PTL DEF Spec

-----------------------------------------------------------------------------
(* What the foundation sorts.                                              *)

Entry == [direction : Directions, number : Nat \ {0}, body : 0..Count]

Elements(log) == {log[i] : i \in DOMAIN log}

\* No two entries have number and direction in common.
Distinct(log) ==
    \A i, j \in DOMAIN log :
        /\ log[i].number = log[j].number
        /\ log[i].direction = log[j].direction
        => i = j

LEMMA ElementsCounted ==
    ASSUME NEW log \in Seq(Entry), Distinct(log)
    PROVE  /\ Elements(log) \subseteq Entry
           /\ IsFiniteSet(Elements(log))
           /\ Cardinality(Elements(log)) = Len(log)
           /\ \A a, b \in Elements(log) :
                 a.number = b.number /\ a.direction = b.direction => a = b
  <1>1. /\ Len(log) \in Nat /\ DOMAIN log = 1..Len(log)
        /\ \A i \in 1..Len(log) : log[i] \in Entry
    BY LenProperties, ElementOfSeq
  <1>2. log \in Bijection(1..Len(log), Elements(log))
    <2>1. log \in [1..Len(log) -> Elements(log)]
      BY <1>1 DEF Elements
    <2>2. \A i, j \in 1..Len(log) : log[i] = log[j] => i = j
      BY <1>1 DEF Distinct
    <2>3. \A e \in Elements(log) : \E i \in 1..Len(log) : log[i] = e
      BY <1>1 DEF Elements
    <2> QED
      BY <2>1, <2>2, <2>3, Fun_IsBij
  <1>3. /\ ExistsBijection(1..Len(log), Elements(log))
        /\ IsFiniteSet(1..Len(log)) /\ Cardinality(1..Len(log)) = Len(log)
    BY <1>1, <1>2, UpTo DEF ExistsBijection
  <1>4. \A a, b \in Elements(log) :
            a.number = b.number /\ a.direction = b.direction => a = b
    BY DEF Elements, Distinct
  <1> QED
    BY <1>1, <1>3, <1>4, FS_Bijection DEF Elements

\* Every entry has a rank of its own, and the ranks count them.
LEMMA Ranked ==
    ASSUME NEW rs \in SUBSET Entry, IsFiniteSet(rs),
           \A a, b \in rs : a.number = b.number /\ a.direction = b.direction => a = b
    PROVE  /\ \A r \in rs : Rank(r, rs) \in 1..Cardinality(rs)
           /\ \A a, b \in rs : Rank(a, rs) = Rank(b, rs) => a = b
           /\ \A i \in 1..Cardinality(rs) : \E r \in rs : Rank(r, rs) = i
  <1> DEFINE upTo(r) == {q \in rs : NotAfter(q, r)}
             rank == [r \in rs |-> Rank(r, rs)]
  <1>1. Cardinality(rs) \in Nat
    BY FS_CardinalityType
  <1>2. \A r \in rs : r.number \in Nat /\ r.direction \in {1, 2}
    BY DEF Entry, Directions
  <1>3. ASSUME NEW r \in rs
        PROVE  /\ r \in upTo(r) /\ IsFiniteSet(upTo(r))
               /\ Rank(r, rs) = Cardinality(upTo(r))
               /\ Rank(r, rs) \in 1..Cardinality(rs)
    <2>1. r \in upTo(r)
      BY <1>2 DEF NotAfter
    <2>2. /\ IsFiniteSet(upTo(r)) /\ Cardinality(upTo(r)) <= Cardinality(rs)
          /\ Cardinality(upTo(r)) \in Nat
      BY FS_Subset, FS_CardinalityType
    <2>3. Cardinality(upTo(r)) # 0
      BY <2>1, <2>2, FS_EmptySet
    <2> QED
      BY <1>1, <2>1, <2>2, <2>3 DEF Rank
  <1>4. ASSUME NEW a \in rs, NEW b \in rs, NotAfter(a, b), Rank(a, rs) = Rank(b, rs)
        PROVE  a = b
    <2>1. upTo(a) \subseteq upTo(b)
      BY <1>2, <1>4 DEF NotAfter
    <2>2. upTo(b) = upTo(a)
      BY <1>3, <1>4, <2>1, FS_Subset
    <2>3. NotAfter(b, a)
      BY <1>3, <2>2
    <2> QED
      BY <1>2, <1>4, <2>3 DEF NotAfter
  <1>5. \A a, b \in rs : NotAfter(a, b) \/ NotAfter(b, a)
    BY <1>2 DEF NotAfter
  <1>6. \A a, b \in rs : Rank(a, rs) = Rank(b, rs) => a = b
    BY <1>4, <1>5
  <1>7. rank \in Injection(rs, 1..Cardinality(rs))
    <2>1. rank \in [rs -> 1..Cardinality(rs)]
      BY <1>3
    <2>2. \A a, b \in rs : rank[a] = rank[b] => a = b
      BY <1>6
    <2> HIDE DEF rank
    <2> QED
      BY <2>1, <2>2, Fun_IsInj
  <1>8. rank \in Surjection(rs, 1..Cardinality(rs))
    <2>1. IsFiniteSet(1..Cardinality(rs))
          /\ Cardinality(1..Cardinality(rs)) = Cardinality(rs)
      BY <1>1, UpTo
    <2> HIDE DEF rank
    <2> QED
      BY <1>7, <2>1, FS_Injection
  <1>9. \A i \in 1..Cardinality(rs) : \E r \in rs : rank[r] = i
    BY <1>8 DEF Surjection
  <1> QED
    BY <1>3, <1>6, <1>9

\* Sorting keeps the entries, and nothing but the entries counts.
LEMMA SortedKeeps ==
    ASSUME NEW log \in Seq(Entry), Distinct(log)
    PROVE  /\ Sorted(log) \in Seq(Entry)
           /\ Elements(Sorted(log)) = Elements(log)
  <1> DEFINE rs == Elements(log)
             ranked(i) == CHOOSE r \in rs : Rank(r, rs) = i
             n == Len(log)
  <1>1. n \in Nat /\ DOMAIN log = 1..n
    BY LenProperties
  <1>2. /\ rs \subseteq Entry /\ IsFiniteSet(rs) /\ Cardinality(rs) = n
        /\ \A a, b \in rs : a.number = b.number /\ a.direction = b.direction => a = b
    BY ElementsCounted
  <1> HIDE DEF rs
  <1>3. /\ \A r \in rs : Rank(r, rs) \in 1..n
        /\ \A a, b \in rs : Rank(a, rs) = Rank(b, rs) => a = b
        /\ \A i \in 1..n : \E r \in rs : Rank(r, rs) = i
    BY <1>2, Ranked
  <1>4. \A i \in 1..n : ranked(i) \in rs /\ Rank(ranked(i), rs) = i
    BY <1>3
  <1>5. \A r \in rs : ranked(Rank(r, rs)) = r
    BY <1>3, <1>4
  <1>6. Sorted(log) = [i \in 1..n |-> ranked(i)]
    BY <1>1 DEF Sorted, rs, Elements
  <1> HIDE DEF ranked
  <1>7. Sorted(log) \in Seq(Entry) /\ Len(Sorted(log)) = n
    BY <1>1, <1>2, <1>4, <1>6, IsASeq
  <1>8. Elements(Sorted(log)) = {ranked(i) : i \in 1..n}
    BY <1>6 DEF Elements
  <1>9. {ranked(i) : i \in 1..n} = rs
    BY <1>3, <1>4, <1>5
  <1> QED
    BY <1>7, <1>8, <1>9 DEF rs

LEMMA SortedSame ==
    ASSUME NEW a, NEW b, DOMAIN a = DOMAIN b, Elements(a) = Elements(b)
    PROVE  Sorted(a) = Sorted(b)
  <1> DEFINE rs == Elements(a)
  <1>1. Sorted(a) = [i \in DOMAIN a |-> CHOOSE r \in rs : Rank(r, rs) = i]
    BY DEF Sorted, Elements
  <1>2. rs = Elements(b)
    OBVIOUS
  <1> HIDE DEF rs
  <1>3. Sorted(b) = [i \in DOMAIN a |-> CHOOSE r \in rs : Rank(r, rs) = i]
    BY <1>2 DEF Sorted, Elements
  <1> QED
    BY <1>1, <1>3

-----------------------------------------------------------------------------
(* What was sent, and what was taken from the ends of the directions.      *)

Bodies == Seq(0..Count)

Taken(d, q) == [n \in 1..Len(q) |-> Record(d, n, q[n])]

LEMMA TakenType ==
    ASSUME NEW d \in Directions, NEW q \in Bodies
    PROVE  /\ Taken(d, q) \in Seq(Entry)
           /\ Len(Taken(d, q)) = Len(q)
           /\ \A n \in 1..Len(q) : /\ Taken(d, q)[n] = Record(d, n, q[n])
                                  /\ q[n] \in 0..Count
  <1>1. Len(q) \in Nat /\ \A n \in 1..Len(q) : q[n] \in 0..Count
    BY LenProperties, ElementOfSeq DEF Bodies
  <1>2. \A n \in 1..Len(q) : Record(d, n, q[n]) \in Entry
    BY <1>1 DEF Record, Entry
  <1> QED
    BY <1>1, <1>2, IsASeq DEF Taken

\* The elements of two sequences, one after the other.
LEMMA Concatenated ==
    ASSUME NEW S, NEW s \in Seq(S), NEW t \in Seq(S), NEW n \in Nat,
           n = Len(s) + Len(t)
    PROVE  /\ s \o t \in Seq(S)
           /\ Len(s \o t) = n
           /\ \A i \in 1..Len(s) : (s \o t)[i] = s[i]
           /\ \A i \in (Len(s) + 1)..n : (s \o t)[i] = t[i - Len(s)]
  <1>1. Len(s) \in Nat /\ Len(t) \in Nat
    BY LenProperties
  <1>2. /\ s \o t \in Seq(S) /\ Len(s \o t) = Len(s) + Len(t)
        /\ \A i \in 1..(Len(s) + Len(t)) :
              (s \o t)[i] = IF i <= Len(s) THEN s[i] ELSE t[i - Len(s)]
    BY ConcatProperties
  <1>3. \A i \in 1..Len(s) : i \in 1..(Len(s) + Len(t)) /\ i <= Len(s)
    BY <1>1
  <1>4. \A i \in (Len(s) + 1)..n : i \in 1..(Len(s) + Len(t)) /\ ~(i <= Len(s))
    BY <1>1
  <1> QED
    BY <1>2, <1>3, <1>4

\* What was taken from both directions has no two entries of the same number
\* and direction.
LEMMA TakenBoth ==
    ASSUME NEW p \in Bodies, NEW q \in Bodies
    PROVE  LET log == Taken(1, p) \o Taken(2, q) IN
           /\ log \in Seq(Entry) /\ Distinct(log)
           /\ Len(log) = Len(p) + Len(q)
           /\ Elements(log) = {Record(1, n, p[n]) : n \in 1..Len(p)}
                              \cup {Record(2, n, q[n]) : n \in 1..Len(q)}
  <1> DEFINE s == Taken(1, p)
             t == Taken(2, q)
             log == s \o t
             m == Len(p)
             n == Len(p) + Len(q)
  <1>1. /\ s \in Seq(Entry) /\ Len(s) = Len(p)
        /\ \A i \in 1..Len(p) : s[i] = Record(1, i, p[i])
        /\ t \in Seq(Entry) /\ Len(t) = Len(q)
        /\ \A i \in 1..Len(q) : t[i] = Record(2, i, q[i])
    BY TakenType DEF Directions
  <1>2. /\ Len(p) \in Nat /\ Len(q) \in Nat /\ m \in Nat /\ n \in Nat
        /\ m = Len(p) /\ n = m + Len(q)
    BY LenProperties DEF Bodies
  <1> HIDE DEF s, t, m, n
  <1>3. /\ log \in Seq(Entry) /\ Len(log) = n
        /\ \A i \in 1..m : log[i] = s[i]
        /\ \A i \in (m + 1)..n : log[i] = t[i - m]
    <2>1. Len(s) = m /\ n = Len(s) + Len(t)
      BY <1>1, <1>2
    <2>2. /\ log \in Seq(Entry) /\ Len(log) = n
          /\ \A i \in 1..Len(s) : log[i] = s[i]
          /\ \A i \in (Len(s) + 1)..n : log[i] = t[i - Len(s)]
      BY <1>1, <1>2, <2>1, Concatenated
    <2> QED
      BY <2>1, <2>2
  <1> HIDE DEF log
  <1>4. DOMAIN log = 1..n
    BY <1>3, LenProperties
  <1>5. /\ \A i \in 1..m : log[i] = Record(1, i, p[i])
        /\ \A i \in (m + 1)..n : log[i] = Record(2, i - m, q[i - m])
    <2>1. \A i \in (m + 1)..n : i - m \in 1..Len(q)
      BY <1>2
    <2> QED
      BY <1>1, <1>2, <1>3, <2>1
  <1>6. /\ \A i \in 1..m : log[i].direction = 1 /\ log[i].number = i
        /\ \A i \in (m + 1)..n : log[i].direction = 2 /\ log[i].number = i - m
    <2>1. \A d, k, x : Record(d, k, x).direction = d /\ Record(d, k, x).number = k
      BY DEF Record
    <2> QED
      BY <1>5, <2>1
  <1>7. Distinct(log)
    BY <1>2, <1>4, <1>6 DEF Distinct
  <1>8. Elements(log) = {Record(1, i, p[i]) : i \in 1..Len(p)}
                         \cup {Record(2, i, q[i]) : i \in 1..Len(q)}
    <2>1. ASSUME NEW e \in Elements(log)
          PROVE  e \in {Record(1, i, p[i]) : i \in 1..Len(p)}
                       \cup {Record(2, i, q[i]) : i \in 1..Len(q)}
      <3>1. PICK i \in 1..n : e = log[i]
        BY <1>4 DEF Elements
      <3>2. CASE i \in 1..m
        <4>1. i \in 1..Len(p)
          BY <1>2, <3>2
        <4> QED
          BY <1>5, <3>1, <3>2, <4>1
      <3>3. CASE i \in (m + 1)..n
        <4>1. i - m \in 1..Len(q)
          BY <1>2, <3>3
        <4> QED
          BY <1>5, <3>1, <3>3, <4>1
      <3> QED
        BY <1>2, <3>2, <3>3
    <2>2. ASSUME NEW i \in 1..Len(p) PROVE Record(1, i, p[i]) \in Elements(log)
      <3>1. i \in 1..m /\ i \in DOMAIN log
        BY <1>2, <1>4
      <3> QED
        BY <1>5, <3>1 DEF Elements
    <2>3. ASSUME NEW i \in 1..Len(q) PROVE Record(2, i, q[i]) \in Elements(log)
      <3>1. /\ m + i \in (m + 1)..n /\ (m + i) - m = i
            /\ m + i \in DOMAIN log
        BY <1>2, <1>4
      <3> QED
        BY <1>5, <3>1 DEF Elements
    <2> QED
      BY <2>1, <2>2, <2>3
  <1> QED
    BY <1>2, <1>3, <1>7, <1>8 DEF log, s, t

InOrder == [n \in 1..Count |-> n]

LEMMA UnharmedIsTaken ==
    /\ InOrder \in Bodies /\ Len(InOrder) = Count
    /\ \A n \in 1..Count : InOrder[n] = n
    /\ Unharmed(1) = Taken(1, InOrder) /\ Unharmed(2) = Taken(2, InOrder)
  <1>1. Count \in Nat /\ \A n \in 1..Count : n \in 0..Count
    BY FoundationAssumption
  <1>2. InOrder \in Bodies /\ Len(InOrder) = Count
    BY <1>1, IsASeq DEF Bodies, InOrder
  <1>3. \A n \in 1..Count : InOrder[n] = n
    BY DEF InOrder
  <1> QED
    BY <1>2, <1>3 DEF Unharmed, Taken

\* What is sent, of either direction in turn.
LEMMA SentEntries ==
    /\ Manifest \in Seq(Entry) /\ Distinct(Manifest)
    /\ Len(Manifest) = 2 * Count
    /\ Elements(Manifest) = {Record(1, n, n) : n \in 1..Count}
                         \cup {Record(2, n, n) : n \in 1..Count}
  <1> DEFINE d(i) == IF i % 2 = 0 THEN 1 ELSE 2
             k(i) == (i + 1) \div 2
             n == 2 * Count
  <1>1. Count \in Nat /\ n \in Nat
    BY FoundationAssumption
  <1>2. \A i \in 1..n : /\ d(i) \in Directions /\ k(i) \in 1..Count
                        /\ i = IF d(i) = 1 THEN 2 * k(i) ELSE 2 * k(i) - 1
    BY <1>1 DEF Directions
  <1>3. \A j \in 1..Count :
            /\ 2 * j \in 1..n /\ d(2 * j) = 1 /\ k(2 * j) = j
            /\ 2 * j - 1 \in 1..n /\ d(2 * j - 1) = 2 /\ k(2 * j - 1) = j
    BY <1>1
  <1>4. Manifest = [i \in 1..n |-> Record(d(i), k(i), k(i))]
    BY DEF Manifest
  <1> HIDE DEF d, k, n
  <1>5. \A i \in 1..n : Record(d(i), k(i), k(i)) \in Entry
    BY <1>1, <1>2 DEF Record, Entry
  <1>6. Manifest \in Seq(Entry) /\ Len(Manifest) = n /\ DOMAIN Manifest = 1..n
    BY <1>1, <1>4, <1>5, IsASeq
  <1>7. Distinct(Manifest)
    <2>1. \A i \in 1..n : Manifest[i].direction = d(i) /\ Manifest[i].number = k(i)
      BY <1>4 DEF Record
    <2>2. ASSUME NEW i \in 1..n, NEW j \in 1..n, d(i) = d(j), k(i) = k(j)
          PROVE  i = j
      BY <1>2, <2>2
    <2> QED
      BY <1>6, <2>1, <2>2 DEF Distinct
  <1>8. Elements(Manifest) = {Record(1, j, j) : j \in 1..Count}
                         \cup {Record(2, j, j) : j \in 1..Count}
    <2>1. Elements(Manifest) = {Record(d(i), k(i), k(i)) : i \in 1..n}
      BY <1>4, <1>6 DEF Elements
    <2>2. \A i \in 1..n : k(i) \in 1..Count /\ (d(i) = 1 \/ d(i) = 2)
      BY <1>2 DEF Directions
    <2>3. \A j \in 1..Count : \E i \in 1..n : d(i) = 1 /\ k(i) = j
      BY <1>3
    <2>4. \A j \in 1..Count : \E i \in 1..n : d(i) = 2 /\ k(i) = j
      BY <1>3
    <2>5. \A e \in Elements(Manifest) :
              e \in {Record(1, j, j) : j \in 1..Count}
                   \cup {Record(2, j, j) : j \in 1..Count}
      BY <2>1, <2>2
    <2>6. \A j \in 1..Count : /\ Record(1, j, j) \in Elements(Manifest)
                              /\ Record(2, j, j) \in Elements(Manifest)
      BY <2>1, <2>3, <2>4
    <2> QED
      BY <2>5, <2>6
  <1> QED
    BY <1>6, <1>7, <1>8 DEF n

\* The oracle accepts what was taken exactly when each direction delivered
\* what was sent, in order (run_foundation_scenario).
THEOREM SortedOracleExact ==
    ASSUME NEW p \in Bodies, NEW q \in Bodies
    PROVE  LET log == Taken(1, p) \o Taken(2, q) IN
           CompareOrdered(Sorted(Manifest), Sorted(log)) = "PASS"
           <=> log = Unharmed(1) \o Unharmed(2)
  <1> DEFINE log == Taken(1, p) \o Taken(2, q)
             whole == Unharmed(1) \o Unharmed(2)
  <1>1. /\ log \in Seq(Entry) /\ Distinct(log)
        /\ Elements(log) = {Record(1, n, p[n]) : n \in 1..Len(p)}
                           \cup {Record(2, n, q[n]) : n \in 1..Len(q)}
    BY TakenBoth
  <1>2. Count \in Nat /\ Len(p) \in Nat /\ Len(q) \in Nat
    BY FoundationAssumption, LenProperties DEF Bodies
  <1>3. Sorted(log) \in Seq(Entry) /\ Elements(Sorted(log)) = Elements(log)
    BY <1>1, SortedKeeps
  <1>4. Sorted(Manifest) \in Seq(Entry) /\ Elements(Sorted(Manifest)) = Elements(Manifest)
    BY SentEntries, SortedKeeps
  <1>5. CompareOrdered(Sorted(Manifest), Sorted(log)) = "PASS"
        <=> Sorted(Manifest) = Sorted(log)
    BY <1>3, <1>4, OrderedOracleExact
  <1>6. ASSUME Sorted(Manifest) = Sorted(log) PROVE log = whole
    <2> HIDE DEF log
    <2>1. {Record(1, n, p[n]) : n \in 1..Len(p)}
              \cup {Record(2, n, q[n]) : n \in 1..Len(q)}
          = {Record(1, n, n) : n \in 1..Count}
              \cup {Record(2, n, n) : n \in 1..Count}
      BY <1>1, <1>3, <1>4, <1>6, SentEntries
    <2>2. \A d, e, m, n, x, y : Record(d, m, x) = Record(e, n, y)
                                => d = e /\ m = n /\ x = y
      BY DEF Record
    <2>3. ASSUME NEW n \in 1..Count PROVE n \in 1..Len(p) /\ p[n] = n
      <3>1. Record(1, n, n) \in {Record(1, i, p[i]) : i \in 1..Len(p)}
                                   \cup {Record(2, i, q[i]) : i \in 1..Len(q)}
        BY <2>1
      <3>2. \E i \in 1..Len(p) : Record(1, n, n) = Record(1, i, p[i])
        BY <2>2, <3>1
      <3> QED
        BY <2>2, <3>2
    <2>4. ASSUME NEW n \in 1..Count PROVE n \in 1..Len(q) /\ q[n] = n
      <3>1. Record(2, n, n) \in {Record(1, i, p[i]) : i \in 1..Len(p)}
                                   \cup {Record(2, i, q[i]) : i \in 1..Len(q)}
        BY <2>1
      <3>2. \E i \in 1..Len(q) : Record(2, n, n) = Record(2, i, q[i])
        BY <2>2, <3>1
      <3> QED
        BY <2>2, <3>2
    <2>5. ASSUME NEW n \in 1..Len(p) PROVE n \in 1..Count
      <3>1. Record(1, n, p[n]) \in {Record(1, i, i) : i \in 1..Count}
                                      \cup {Record(2, i, i) : i \in 1..Count}
        BY <2>1
      <3> QED
        BY <2>2, <3>1
    <2>6. ASSUME NEW n \in 1..Len(q) PROVE n \in 1..Count
      <3>1. Record(2, n, q[n]) \in {Record(1, i, i) : i \in 1..Count}
                                      \cup {Record(2, i, i) : i \in 1..Count}
        BY <2>1
      <3> QED
        BY <2>2, <3>1
    <2>7. Len(p) = Count /\ Len(q) = Count
      BY <1>2, <2>3, <2>4, <2>5, <2>6
    <2>8. Taken(1, p) = Unharmed(1) /\ Taken(2, q) = Unharmed(2)
      BY <2>3, <2>4, <2>7 DEF Taken, Unharmed
    <2> QED
      BY <2>8 DEF log
  <1>7. ASSUME log = whole PROVE Sorted(Manifest) = Sorted(log)
    <2>1. /\ whole \in Seq(Entry) /\ Len(whole) = Count + Count
          /\ Elements(whole) = {Record(1, n, InOrder[n]) : n \in 1..Count}
                               \cup {Record(2, n, InOrder[n]) : n \in 1..Count}
      BY UnharmedIsTaken, TakenBoth
    <2>2. Elements(whole) = Elements(Manifest)
      <3>1. /\ {Record(1, n, InOrder[n]) : n \in 1..Count}
                  = {Record(1, n, n) : n \in 1..Count}
            /\ {Record(2, n, InOrder[n]) : n \in 1..Count}
                  = {Record(2, n, n) : n \in 1..Count}
        BY UnharmedIsTaken
      <3> QED
        BY <2>1, <3>1, SentEntries
    <2>3. DOMAIN whole = DOMAIN Manifest
      <3>1. /\ DOMAIN whole = 1..(Count + Count)
            /\ DOMAIN Manifest = 1..(2 * Count)
        BY <2>1, SentEntries, LenProperties
      <3> QED
        BY <1>2, <3>1
    <2> HIDE DEF whole
    <2>4. Sorted(whole) = Sorted(Manifest)
      BY <2>2, <2>3, SortedSame
    <2> QED
      BY <1>7, <2>4
  <1> QED
    BY <1>5, <1>6, <1>7

-----------------------------------------------------------------------------
(* The gate.                                                               *)

Talk == {"start", "negotiate", "send", "settle", "drain", "stats"}
Before == Talk \cup {"close", "abandon"}
After == {"calibrate", "calibrating", "evidence", "supervise", "watch"}
ModeNames == {"success", "crash", "hang"}

GateTypes ==
    /\ at \in Before \cup After \cup {"exit"}
    /\ scenario \in Scenarios
    /\ verdicts \in [Scenarios -> {"none", "PASS", "FAIL", "INFRA_ERROR"}]
    /\ supervised \in [ModeNames -> {"none", "PASS", "INFRA_ERROR"}]
    /\ facts \subseteq Facts
    /\ blamed \in BOOLEAN
    /\ wire \in [Directions -> Bodies]
    /\ queue \in [Directions -> Bodies]
    /\ sent \in [Directions -> 0..Count]
    /\ written \in [Scenarios -> SUBSET Required]

\* Whose turn it is to send, and when all is sent.
InTurn ==
    /\ at \in {"start", "negotiate"} => wire = Nothing /\ queue = Nothing
    /\ at = "negotiate" => sent = None
    /\ at = "send" => sent[1] < Count /\ sent[2] \in {sent[1], sent[1] + 1}
    /\ at \in {"settle", "drain", "stats"} => sent[1] = Count /\ sent[2] = Count

\* What was drained is numbered, direction after direction.
Transcribed ==
    /\ at \in {"start", "negotiate", "send", "settle"} => received = <<>>
    /\ at = "drain" => \E p \in Bodies : received = Taken(1, p)
    /\ at = "stats" =>
          \E p \in Bodies, q \in Bodies : received = Taken(1, p) \o Taken(2, q)

\* The end of a direction and the wire hold the first messages, in order.
InFull(q, w, n) ==
    /\ Len(q) + Len(w) = n
    /\ \A i \in 1..Len(q) : q[i] = i
    /\ \A i \in 1..Len(w) : w[i] = Len(q) + i

Undisturbed ==
    ~blamed =>
        /\ at \in {"send", "settle"} =>
              /\ InFull(queue[1], wire[1], sent[1])
              /\ InFull(queue[2], wire[2], sent[2])
        /\ at = "drain" =>
              received = Unharmed(1) /\ InFull(queue[2], wire[2], sent[2])
        /\ at = "stats" => received = Unharmed(1) \o Unharmed(2)

\* The scenarios that passed were exact, and they all pass if nothing goes
\* wrong.
Judged ==
    /\ exact \subseteq Scenarios
    /\ \A s \in Scenarios : verdicts[s] = "PASS" => s \in exact
    /\ at \in After => scenario = Bundle
    /\ ~blamed =>
          /\ at # "abandon"
          /\ \A s \in Scenarios : s < scenario => verdicts[s] = "PASS"
          /\ at \in {"close"} \cup After => verdicts[scenario] = "PASS"
          /\ at \in {"close"} \cup After /\ scenario = Bundle =>
                facts = Facts /\ written[Bundle] = Required

\* The calibration is that of module Calibration, and what is used of it is
\* right.
CalibratedRight ==
    /\ Numbered(records)
    /\ at \in Before \cup {"calibrate"} =>
          turn = 0 /\ results = [n \in Names |-> "none"]
    /\ at = "calibrating" => IInv
    /\ at \in {"evidence", "supervise", "watch"} =>
          /\ pc = "done"
          /\ \A n \in Names : results[n] = IF n = "known-good" THEN "PASS" ELSE "FAIL"

EvidenceRight ==
    at \in {"supervise", "watch"} =>
        /\ \A i \in injected : i[2] = "injected" => i[3] = "FAIL"
        /\ ~blamed => \A i \in injected :
              i[3] = IF i[2] = "known-good" THEN "PASS" ELSE "FAIL"

SupervisedRight ==
    /\ supervised["crash"] # "PASS" /\ supervised["hang"] # "PASS"
    /\ ~blamed => supervised["success"] # "INFRA_ERROR"
    /\ at \in Before \cup (After \ {"watch"}) => child = "none"
    /\ at \in After => open = {}
    /\ at = "watch" =>
          /\ Unsupervised # {}
          /\ child \in {"running", "succeeded", "failed"}
          /\ child = "succeeded" => Mode = "success"
          /\ child = "failed" => Mode = "crash"

Concluded ==
    /\ exit \in {"none", "0", "1", "raised"}
    /\ exit # "none" => at = "exit"
    /\ PassMeansCalibrated
    /\ NoFalseAlarm

GInv ==
    /\ GateTypes /\ InTurn /\ Transcribed /\ Undisturbed /\ Judged
    /\ CalibratedRight /\ EvidenceRight /\ SupervisedRight /\ Concluded

LEMMA EmptyBody == <<>> \in Bodies /\ Len(<<>>) = 0
  BY EmptySeq DEF Bodies

LEMMA NothingHeld ==
    Nothing \in [Directions -> Bodies] /\ Nothing[1] = <<>> /\ Nothing[2] = <<>>
  BY EmptyBody DEF Nothing, Directions

LEMMA NoneSent ==
    None \in [Directions -> 0..Count] /\ None[1] = 0 /\ None[2] = 0
  BY FoundationAssumption DEF None, Directions

LEMMA ModesNamed ==
    /\ DOMAIN Modes = 1..3
    /\ Modes[1] = "success" /\ Modes[2] = "crash" /\ Modes[3] = "hang"
    /\ {Modes[i] : i \in DOMAIN Modes} = ModeNames
  BY DEF Modes, ModeNames

LEMMA GateInitially == GateInit => GInv
  <1> SUFFICES ASSUME GateInit PROVE GInv
    OBVIOUS
  <1> USE DEF GateInit
  <1>1. GateTypes
    <2>1. Unjudged \in [ModeNames -> {"none", "PASS", "INFRA_ERROR"}]
      BY ModesNamed DEF Unjudged
    <2> QED
      <3>1. 1 \in Scenarios
        BY DEF Scenarios
      <3> QED
        BY <2>1, <3>1, NothingHeld, NoneSent DEF GateTypes, Before, Talk
  <1>2. InTurn /\ Transcribed /\ Undisturbed
    BY DEF InTurn, Transcribed, Undisturbed
  <1>3. Judged
    BY DEF Judged, Scenarios, After
  <1>4. CalibratedRight
    BY EmptySeq DEF CalibratedRight, Numbered
  <1>5. EvidenceRight /\ Concluded
    BY DEF EvidenceRight, Concluded, PassMeansCalibrated, NoFalseAlarm
  <1>6. SupervisedRight
    BY ModesNamed DEF SupervisedRight, Unjudged, ModeNames, After
  <1> QED
    BY <1>1, <1>2, <1>3, <1>4, <1>5, <1>6 DEF GInv

\* The first mode that was not supervised yet.
LEMMA ModeWaits ==
    ASSUME Unsupervised # {}
    PROVE  Mode \in ModeNames /\ supervised[Mode] = "none"
  <1>1. DOMAIN Modes = 1..3 /\ \A i \in 1..3 : Modes[i] \in ModeNames
    BY ModesNamed DEF ModeNames
  <1>2. Unsupervised \subseteq {1, 2, 3}
    BY <1>1 DEF Unsupervised
  <1>3. \E i \in Unsupervised : \A j \in Unsupervised : i <= j
    <2>1. CASE 1 \in Unsupervised
      BY <1>2, <2>1
    <2>2. CASE 1 \notin Unsupervised /\ 2 \in Unsupervised
      BY <1>2, <2>2
    <2>3. CASE 1 \notin Unsupervised /\ 2 \notin Unsupervised
      <3>1. Unsupervised = {3}
        BY <1>2, <2>3
      <3> QED
        BY <3>1
    <2> QED
      BY <2>1, <2>2, <2>3
  <1>4. PICK i \in Unsupervised : Mode = Modes[i]
    BY <1>3 DEF Mode
  <1> QED
    BY <1>1, <1>2, <1>4 DEF Unsupervised

LEMMA AllSupervised ==
    ASSUME Unsupervised = {}
    PROVE  \A m \in ModeNames : supervised[m] # "none"
  <1>1. \A i \in 1..3 : supervised[Modes[i]] # "none"
    BY ModesNamed DEF Unsupervised
  <1> QED
    BY <1>1, ModesNamed DEF ModeNames

\* A message that arrives leaves the end and the wire in full.
LEMMA Delivered ==
    ASSUME NEW q \in Bodies, NEW w \in Bodies, w # <<>>
    PROVE  /\ Append(q, Head(w)) \in Bodies /\ Tail(w) \in Bodies
           /\ \A n \in Nat :
                 InFull(q, w, n) => InFull(Append(q, Head(w)), Tail(w), n)
  <1> DEFINE r == Append(q, Head(w))
             v == Tail(w)
  <1>1. /\ Head(w) \in 0..Count /\ v \in Bodies /\ Len(v) = Len(w) - 1
        /\ Len(w) \in Nat \ {0} /\ Head(w) = w[1]
        /\ \A i \in 1..Len(v) : v[i] = w[i + 1]
    <2>1. w \in Seq(0..Count) /\ Len(w) \in Nat /\ (Len(w) = 0 <=> w = <<>>)
      BY LenProperties, EmptySeq DEF Bodies
    <2>2. /\ Head(w) \in 0..Count /\ v \in Seq(0..Count) /\ Len(v) = Len(w) - 1
          /\ \A i \in 1..Len(v) : v[i] = w[i + 1]
      BY <2>1, HeadTailProperties
    <2> QED
      BY <2>1, <2>2 DEF Bodies
  <1>2. /\ r \in Bodies /\ Len(r) = Len(q) + 1 /\ Len(q) \in Nat
        /\ \A i \in 1..Len(q) : r[i] = q[i]
        /\ r[Len(q) + 1] = Head(w)
    BY <1>1, AppendProperties, LenProperties DEF Bodies
  <1>3. ASSUME NEW n \in Nat, InFull(q, w, n) PROVE InFull(r, v, n)
    <2> USE DEF InFull
    <2>1. 1 \in 1..Len(w) /\ Head(w) = Len(q) + 1
      BY <1>1, <1>2, <1>3
    <2>2. Len(r) + Len(v) = n
      BY <1>1, <1>2, <1>3
    <2>3. ASSUME NEW i \in 1..Len(r) PROVE r[i] = i
      <3>1. i \in 1..Len(q) \/ i = Len(q) + 1
        BY <1>2
      <3> QED
        BY <1>2, <1>3, <2>1, <3>1
    <2>4. ASSUME NEW i \in 1..Len(v) PROVE v[i] = Len(r) + i
      <3>1. i + 1 \in 1..Len(w)
        BY <1>1
      <3> QED
        BY <1>1, <1>2, <1>3, <3>1
    <2> QED
      BY <2>2, <2>3, <2>4
  <1> QED
    BY <1>1, <1>2, <1>3

\* The next message of a direction goes behind what is under way.
LEMMA Appended ==
    ASSUME NEW q \in Bodies, NEW w \in Bodies, NEW n \in 0..Count, n < Count
    PROVE  /\ Append(w, n + 1) \in Bodies
           /\ InFull(q, w, n) => InFull(q, Append(w, n + 1), n + 1)
  <1> DEFINE v == Append(w, n + 1)
  <1>1. n \in Nat /\ Count \in Nat /\ n + 1 \in 0..Count
    BY FoundationAssumption
  <1>2. /\ v \in Bodies /\ Len(v) = Len(w) + 1
        /\ Len(w) \in Nat /\ Len(q) \in Nat
        /\ \A i \in 1..Len(w) : v[i] = w[i]
        /\ v[Len(w) + 1] = n + 1
    BY <1>1, AppendProperties, LenProperties DEF Bodies
  <1> HIDE DEF v
  <1>3. ASSUME InFull(q, w, n) PROVE InFull(q, v, n + 1)
    <2> USE DEF InFull
    <2>1. Len(q) + Len(v) = n + 1
      BY <1>1, <1>2, <1>3
    <2>2. ASSUME NEW i \in 1..Len(v) PROVE v[i] = Len(q) + i
      <3>1. i \in 1..Len(w) \/ i = Len(w) + 1
        BY <1>2
      <3> QED
        BY <1>1, <1>2, <1>3, <3>1
    <2> QED
      BY <1>3, <2>1, <2>2
  <1> QED
    BY <1>2, <1>3 DEF v

\* Full with an empty wire, an end holds what was sent.
LEMMA AllArrived ==
    ASSUME NEW q \in Bodies, InFull(q, <<>>, Count)
    PROVE  Taken(1, q) = Unharmed(1) /\ Taken(2, q) = Unharmed(2)
  <1>1. Len(q) \in Nat /\ Len(q) = Count
    BY EmptyBody, LenProperties DEF InFull, Bodies
  <1>2. \A i \in 1..Count : q[i] = i
    BY <1>1 DEF InFull
  <1> QED
    BY <1>1, <1>2 DEF Taken, Unharmed

LEMMA StartEndpointsKeeps ==
    ASSUME GInv, StartEndpoints
    PROVE  GInv'
  <1> USE DEF GInv
  <1>1. GateTypes'
    BY NoneSent DEF StartEndpoints, calibration, gate, GateTypes, Before, Talk,
       After, Scenarios
  <1>2. Transcribed'
    BY DEF StartEndpoints, calibration, talk, gate, Transcribed
  <1>3. Undisturbed'
    BY DEF StartEndpoints, calibration, talk, gate, Undisturbed
  <1>4. Judged'
    BY DEF StartEndpoints, calibration, talk, gate, Judged, Scenarios, After,
       Bundle
  <1>5. CalibratedRight'
    BY DEF StartEndpoints, calibration, talk, gate, CalibratedRight, Before,
       Talk, Numbered, IInv
  <1>6. EvidenceRight'
    BY DEF StartEndpoints, calibration, talk, gate, EvidenceRight
  <1>7. SupervisedRight'
    BY DEF StartEndpoints, calibration, talk, gate, SupervisedRight, Before,
       Talk, After, Unsupervised, Mode
  <1>8. Concluded'
    BY DEF StartEndpoints, calibration, talk, gate, Concluded,
       PassMeansCalibrated, NoFalseAlarm
  <1>9. InTurn'
    BY DEF StartEndpoints, calibration, talk, gate, InTurn
  <1> QED
    BY <1>1, <1>2, <1>3, <1>4, <1>5, <1>6, <1>7, <1>8, <1>9

LEMMA NegotiateKeeps ==
    ASSUME GInv, Negotiate
    PROVE  GInv'
  <1> USE DEF GInv
  <1>1. GateTypes'
    BY DEF Negotiate, calibration, talk, gate, GateTypes, Before, Talk, After,
       Scenarios
  <1>2. Transcribed'
    BY DEF Negotiate, calibration, talk, gate, Transcribed
  <1>3. Undisturbed'
    <2>1. InFull(<<>>, <<>>, 0)
      BY EmptyBody DEF InFull
    <2>2. /\ queue[1] = <<>> /\ queue[2] = <<>> /\ wire[1] = <<>> /\ wire[2] = <<>>
          /\ sent[1] = 0 /\ sent[2] = 0
      BY NothingHeld, NoneSent DEF Negotiate, InTurn
    <2>3. at' = "send" /\ UNCHANGED <<queue, wire, sent>>
      BY DEF Negotiate, talk
    <2> QED
      BY <2>1, <2>2, <2>3 DEF Undisturbed
  <1>4. Judged'
    BY DEF Negotiate, calibration, talk, gate, Judged, Scenarios, After,
       Bundle
  <1>5. CalibratedRight'
    BY DEF Negotiate, calibration, talk, gate, CalibratedRight, Before, Talk,
       Numbered, IInv
  <1>6. EvidenceRight'
    BY DEF Negotiate, calibration, talk, gate, EvidenceRight
  <1>7. SupervisedRight'
    BY DEF Negotiate, calibration, talk, gate, SupervisedRight, Before, Talk,
       After, Unsupervised, Mode
  <1>8. Concluded'
    BY DEF Negotiate, calibration, talk, gate, Concluded, PassMeansCalibrated,
       NoFalseAlarm
  <1>9. InTurn'
    BY NoneSent, FoundationAssumption
    DEF Negotiate, calibration, talk, gate, InTurn
  <1> QED
    BY <1>1, <1>2, <1>3, <1>4, <1>5, <1>6, <1>7, <1>8, <1>9

LEMMA ScenarioFailsKeeps ==
    ASSUME GInv, ScenarioFails
    PROVE  GInv'
  <1> USE DEF GInv
  <1>1. GateTypes'
    BY DEF ScenarioFails, calibration, talk, gate, GateTypes, Before, Talk,
       After, Scenarios
  <1>2. Transcribed'
    BY DEF ScenarioFails, calibration, talk, gate, Transcribed
  <1>3. Undisturbed'
    BY DEF ScenarioFails, calibration, talk, gate, Undisturbed
  <1>4. Judged'
    <2>1. \A s \in Scenarios : verdicts'[s] = "PASS" => verdicts[s] = "PASS"
      BY DEF ScenarioFails, GateTypes
    <2>2. blamed' /\ at' \in {"close", "abandon"} /\ UNCHANGED <<scenario, exact>>
      BY DEF ScenarioFails, gate
    <2> QED
      BY <2>1, <2>2 DEF Judged, After
  <1>5. CalibratedRight'
    BY DEF ScenarioFails, calibration, talk, gate, CalibratedRight, Before,
       Talk, Numbered, IInv
  <1>6. EvidenceRight'
    BY DEF ScenarioFails, calibration, talk, gate, EvidenceRight
  <1>7. SupervisedRight'
    BY DEF ScenarioFails, calibration, talk, gate, SupervisedRight, Before,
       Talk, After, Unsupervised, Mode
  <1>8. Concluded'
    BY DEF ScenarioFails, calibration, talk, gate, Concluded,
       PassMeansCalibrated, NoFalseAlarm
  <1>9. InTurn'
    BY DEF ScenarioFails, calibration, talk, gate, InTurn
  <1> QED
    BY <1>1, <1>2, <1>3, <1>4, <1>5, <1>6, <1>7, <1>8, <1>9

LEMMA SendMessageKeeps ==
    ASSUME GInv, SendMessage
    PROVE  GInv'
  <1> USE DEF GInv
  <1>a. /\ at = "send" /\ Sender \in Directions
        /\ sent[1] \in 0..Count /\ sent[2] \in 0..Count
        /\ sent[1] < Count /\ sent[2] \in {sent[1], sent[1] + 1}
        /\ Count \in Nat /\ 1 \in Directions /\ 2 \in Directions
    BY FoundationAssumption
    DEF SendMessage, Sender, Directions, InTurn, GateTypes
  <1>b. sent[Sender] \in 0..Count /\ sent[Sender] < Count
    BY <1>a DEF Sender
  <1>c. /\ sent' = [sent EXCEPT ![Sender] = sent[Sender] + 1]
        /\ wire' = [wire EXCEPT ![Sender] = Append(wire[Sender], sent[Sender] + 1)]
        /\ at' = IF sent'[1] = Count THEN "settle" ELSE "send"
        /\ UNCHANGED <<scenario, queue, received, blamed, verdicts, supervised,
                       facts, written>>
    BY DEF SendMessage, gate
  <1>d. sent' \in [Directions -> 0..Count]
    <2>1. sent[Sender] + 1 \in 0..Count
      BY <1>a, <1>b
    <2> QED
      BY <1>a, <1>c, <2>1 DEF GateTypes
  <1>e. /\ sent[1] = sent[2] => sent'[1] = sent[1] /\ sent'[2] = sent[2] + 1
        /\ sent[1] # sent[2] => sent'[1] = sent[1] + 1 /\ sent'[2] = sent[2]
    BY <1>a, <1>c DEF Sender, GateTypes
  <1>1. GateTypes'
    <2>1. wire' \in [Directions -> Bodies]
      <3>1. Append(wire[Sender], sent[Sender] + 1) \in Bodies
        BY <1>a, <1>b, Appended DEF GateTypes
      <3> QED
        BY <1>c, <3>1 DEF GateTypes
    <2>2. at' \in {"settle", "send"}
      BY <1>c
    <2> QED
      BY <1>c, <1>d, <2>1, <2>2 DEF GateTypes, Before, Talk
  <1>2. Transcribed'
    BY <1>a, <1>c DEF Transcribed
  <1>3. Undisturbed'
    <2> SUFFICES ASSUME ~blamed' PROVE Undisturbed'
      BY DEF Undisturbed
    <2>1. \A d \in Directions : InFull(queue[d], wire[d], sent[d])
      <3>1. InFull(queue[1], wire[1], sent[1]) /\ InFull(queue[2], wire[2], sent[2])
        BY <1>a, <1>c DEF Undisturbed
      <3> QED
        BY <3>1 DEF Directions
    <2>2. \A d \in Directions : InFull(queue'[d], wire'[d], sent'[d])
      <3>1. InFull(queue'[Sender], wire'[Sender], sent'[Sender])
        <4>1. InFull(queue[Sender], Append(wire[Sender], sent[Sender] + 1),
                     sent[Sender] + 1)
          BY <1>a, <1>b, <2>1, Appended DEF GateTypes
        <4>2. /\ queue'[Sender] = queue[Sender]
              /\ wire'[Sender] = Append(wire[Sender], sent[Sender] + 1)
              /\ sent'[Sender] = sent[Sender] + 1
          BY <1>a, <1>c DEF GateTypes
        <4> QED
          BY <4>1, <4>2
      <3>2. ASSUME NEW d \in Directions, d # Sender
            PROVE  InFull(queue'[d], wire'[d], sent'[d])
        <4>1. queue'[d] = queue[d] /\ wire'[d] = wire[d] /\ sent'[d] = sent[d]
          BY <1>a, <1>c, <3>2 DEF GateTypes
        <4> QED
          BY <2>1, <4>1
      <3> QED
        BY <3>1, <3>2
    <2>3. at' \in {"send", "settle"}
      BY <1>c
    <2> QED
      BY <1>a, <2>2, <2>3 DEF Undisturbed
  <1>4. Judged'
    BY DEF SendMessage, calibration, talk, gate, Judged, Scenarios, After,
       Bundle
  <1>5. CalibratedRight'
    BY DEF SendMessage, calibration, talk, gate, CalibratedRight, Before,
       Talk, Numbered, IInv
  <1>6. EvidenceRight'
    BY DEF SendMessage, calibration, talk, gate, EvidenceRight
  <1>7. SupervisedRight'
    BY DEF SendMessage, calibration, talk, gate, SupervisedRight, Before,
       Talk, After, Unsupervised, Mode
  <1>8. Concluded'
    BY DEF SendMessage, calibration, talk, gate, Concluded,
       PassMeansCalibrated, NoFalseAlarm
  <1>9. InTurn'
    <2>1. CASE sent[1] = sent[2]
      <3>1. at' = "send" /\ sent'[1] = sent[1] /\ sent'[2] = sent[1] + 1
        BY <1>a, <1>c, <1>e, <2>1
      <3> QED
        BY <1>a, <3>1 DEF InTurn
    <2>2. CASE sent[1] # sent[2]
      <3>1. sent'[1] = sent[1] + 1 /\ sent'[2] = sent[1] + 1
        BY <1>a, <1>e, <2>2
      <3>2. CASE sent[1] + 1 = Count
        BY <1>c, <3>1, <3>2 DEF InTurn
      <3>3. CASE sent[1] + 1 # Count
        <4>1. sent[1] + 1 < Count /\ at' = "send"
          BY <1>a, <1>c, <3>1, <3>3
        <4> QED
          BY <3>1, <4>1 DEF InTurn
      <3> QED
        BY <3>2, <3>3
    <2> QED
      BY <2>1, <2>2
  <1> QED
    BY <1>1, <1>2, <1>3, <1>4, <1>5, <1>6, <1>7, <1>8, <1>9

LEMMA DrainEndKeeps ==
    ASSUME GInv, DrainEnd
    PROVE  GInv'
  <1> DEFINE e == IF at = "settle" THEN 1 ELSE 2
  <1>a. /\ at \in {"settle", "drain"} /\ e \in Directions
        /\ queue[e] \in Bodies /\ Taken(e, queue[e]) \in Seq(Entry)
    BY TakenType DEF DrainEnd, Directions, GInv, GateTypes
  <1>b. /\ received' = received \o Taken(e, queue[e])
        /\ queue' = [queue EXCEPT ![e] = <<>>]
        /\ wire[e] # <<>> => blamed'
        /\ wire[e] = <<>> => blamed' = blamed
        /\ at' = IF at = "settle" THEN "drain" ELSE "stats"
        /\ UNCHANGED <<wire, sent, scenario, verdicts, supervised, facts, written>>
    BY DEF DrainEnd, Taken, gate
  <1> HIDE DEF e
  <1> USE DEF GInv
  <1>1. GateTypes'
    <2>1. queue' \in [Directions -> Bodies]
      BY <1>a, <1>b, EmptyBody DEF GateTypes
    <2>2. blamed' \in BOOLEAN
      BY DEF DrainEnd, GateTypes
    <2> QED
      BY <1>b, <2>1, <2>2 DEF GateTypes, Before, Talk
  <1>2. Transcribed'
    <2>1. CASE at = "settle"
      <3>1. received' = Taken(1, queue[1]) /\ queue[1] \in Bodies
        BY <1>a, <1>b, <2>1, ConcatEmptySeq DEF Transcribed, e
      <3> QED
        BY <1>b, <2>1, <3>1 DEF Transcribed
    <2>2. CASE at = "drain"
      <3>1. PICK p \in Bodies : received = Taken(1, p)
        BY <2>2 DEF Transcribed
      <3>2. received' = Taken(1, p) \o Taken(2, queue[2]) /\ queue[2] \in Bodies
        BY <1>a, <1>b, <2>2, <3>1 DEF e
      <3> QED
        BY <1>b, <2>2, <3>2 DEF Transcribed
    <2> QED
      BY <1>a, <2>1, <2>2
  <1>3. Undisturbed'
    <2> SUFFICES ASSUME ~blamed' PROVE Undisturbed'
      BY DEF Undisturbed
    <2>1. ~blamed /\ wire[e] = <<>>
      BY <1>b DEF GateTypes
    <2>2. CASE at = "settle"
      <3>1. e = 1 /\ InFull(queue[1], <<>>, Count)
            /\ InFull(queue[2], wire[2], sent[2])
        BY <2>1, <2>2 DEF Undisturbed, InTurn, e
      <3>2. received' = Unharmed(1)
        <4>1. received' = Taken(1, queue[1])
          BY <1>a, <1>b, <2>2, <3>1, ConcatEmptySeq DEF Transcribed
        <4> QED
          BY <1>a, <3>1, <4>1, AllArrived
      <3>3. queue'[2] = queue[2] /\ wire'[2] = wire[2] /\ sent'[2] = sent[2]
        BY <1>b, <3>1 DEF GateTypes, Directions
      <3> QED
        BY <1>b, <2>2, <3>1, <3>2, <3>3 DEF Undisturbed
    <2>3. CASE at = "drain"
      <3>1. e = 2 /\ InFull(queue[2], <<>>, Count) /\ received = Unharmed(1)
        BY <2>1, <2>3 DEF Undisturbed, InTurn, e
      <3>2. Taken(2, queue[2]) = Unharmed(2)
        BY <1>a, <3>1, AllArrived
      <3> QED
        BY <1>b, <2>3, <3>1, <3>2 DEF Undisturbed
    <2> QED
      BY <1>a, <2>2, <2>3
  <1>4. Judged'
    BY DEF DrainEnd, calibration, talk, gate, Judged, Scenarios, After, Bundle
  <1>5. CalibratedRight'
    BY DEF DrainEnd, calibration, talk, gate, CalibratedRight, Before, Talk,
       Numbered, IInv
  <1>6. EvidenceRight'
    BY DEF DrainEnd, calibration, talk, gate, EvidenceRight
  <1>7. SupervisedRight'
    BY DEF DrainEnd, calibration, talk, gate, SupervisedRight, Before, Talk,
       After, Unsupervised, Mode
  <1>8. Concluded'
    BY DEF DrainEnd, calibration, talk, gate, Concluded, PassMeansCalibrated,
       NoFalseAlarm
  <1>9. InTurn'
    BY DEF DrainEnd, calibration, talk, gate, InTurn
  <1> QED
    BY <1>1, <1>2, <1>3, <1>4, <1>5, <1>6, <1>7, <1>8, <1>9

LEMMA JudgeScenarioKeeps ==
    ASSUME GInv, JudgeScenario
    PROVE  GInv'
  <1> USE DEF GInv
  <1>1. GateTypes'
    BY DEF JudgeScenario, calibration, talk, gate, GateTypes, Before, Talk,
       After, Scenarios
  <1>2. Transcribed'
    BY DEF JudgeScenario, calibration, talk, gate, Transcribed
  <1>3. Undisturbed'
    BY DEF JudgeScenario, calibration, talk, gate, Undisturbed
  <1>4. Judged'
    <2> DEFINE accepted == CompareOrdered(Sorted(Manifest), Sorted(received)) = "PASS"
               whole == received = Unharmed(1) \o Unharmed(2)
    <2>1. PICK p \in Bodies, q \in Bodies : received = Taken(1, p) \o Taken(2, q)
      BY DEF JudgeScenario, Transcribed
    <2>2. accepted <=> whole
      BY <2>1, SortedOracleExact
    <2> HIDE DEF accepted, whole
    <2> DEFINE expected == IF scenario = Bundle THEN Facts ELSE {"connected", "sctp"}
    <2>3. PICK shown \in SUBSET Facts, sdp \in BOOLEAN :
             LET good == /\ accepted /\ sdp /\ CheckTransport(shown) = "PASS"
                         /\ scenario = Bundle => CheckMediaBundle(shown) = "PASS"
                         /\ CheckRequiredEvidence(written'[scenario]) = "PASS"
                 asItShould == sdp /\ expected \subseteq shown /\ whole
             IN  /\ verdicts' = [verdicts EXCEPT ![scenario] =
                                    IF good THEN "PASS" ELSE "FAIL"]
                 /\ facts' = IF scenario = Bundle THEN shown ELSE facts
                 /\ exact' = IF asItShould THEN exact \cup {scenario} ELSE exact
                 /\ blamed' = (blamed \/ ~sdp \/ ~(expected \subseteq shown))
      BY DEF JudgeScenario, accepted, whole
    <2>4. (CheckTransport(shown) = "PASS"
           /\ (scenario = Bundle => CheckMediaBundle(shown) = "PASS"))
          <=> expected \subseteq shown
      BY DEF Demand, CheckTransport, CheckMediaBundle, Facts
    <2> HIDE DEF expected
    <2>0. /\ written' = [written EXCEPT ![scenario] = Required]
          /\ written'[scenario] = Required
          /\ CheckRequiredEvidence(written'[scenario]) = "PASS"
      <3>1. /\ written' = [written EXCEPT ![scenario] = Required]
            /\ written \in [Scenarios -> SUBSET Required] /\ scenario \in Scenarios
        BY DEF JudgeScenario, GateTypes
      <3> QED
        BY <3>1 DEF Demand, CheckRequiredEvidence
    <2>5. /\ verdicts' = [verdicts EXCEPT ![scenario] =
                 IF sdp /\ expected \subseteq shown /\ whole THEN "PASS" ELSE "FAIL"]
          /\ exact' = IF sdp /\ expected \subseteq shown /\ whole
                      THEN exact \cup {scenario} ELSE exact
      BY <2>0, <2>2, <2>3, <2>4
    <2>6. at' = "close" /\ scenario' = scenario /\ scenario \in Scenarios
          /\ verdicts \in [Scenarios -> {"none", "PASS", "FAIL", "INFRA_ERROR"}]
      BY DEF JudgeScenario, GateTypes
    <2>7. exact' \subseteq Scenarios
          /\ \A s \in Scenarios : verdicts'[s] = "PASS" => s \in exact'
      BY <2>5, <2>6 DEF Judged
    <2>8. ASSUME ~blamed'
          PROVE  /\ \A s \in Scenarios : s < scenario => verdicts'[s] = "PASS"
                 /\ verdicts'[scenario] = "PASS"
                 /\ scenario = Bundle =>
                       facts' = Facts /\ written'[Bundle] = Required
      <3>1. ~blamed /\ sdp /\ expected \subseteq shown
        BY <2>3, <2>8
      <3>2. whole
        BY <3>1 DEF JudgeScenario, Undisturbed, whole
      <3>3. verdicts' = [verdicts EXCEPT ![scenario] = "PASS"]
        BY <2>5, <3>1, <3>2
      <3>4. scenario = Bundle => facts' = Facts
        BY <2>3, <3>1 DEF expected
      <3>5. scenario = Bundle => written'[Bundle] = Required
        BY <2>0
      <3> QED
        BY <2>6, <3>1, <3>3, <3>4, <3>5 DEF Judged, Scenarios
    <2> QED
      BY <2>6, <2>7, <2>8 DEF Judged, After
  <1>5. CalibratedRight'
    BY DEF JudgeScenario, calibration, talk, gate, CalibratedRight, Before,
       Talk, Numbered, IInv
  <1>6. EvidenceRight'
    BY DEF JudgeScenario, calibration, talk, gate, EvidenceRight
  <1>7. SupervisedRight'
    BY DEF JudgeScenario, calibration, talk, gate, SupervisedRight, Before,
       Talk, After, Unsupervised, Mode
  <1>8. Concluded'
    BY DEF JudgeScenario, calibration, talk, gate, Concluded,
       PassMeansCalibrated, NoFalseAlarm
  <1>9. InTurn'
    BY DEF JudgeScenario, calibration, talk, gate, InTurn
  <1> QED
    BY <1>1, <1>2, <1>3, <1>4, <1>5, <1>6, <1>7, <1>8, <1>9

LEMMA CloseEndpointsKeeps ==
    ASSUME GInv, CloseEndpoints
    PROVE  GInv'
  <1> USE DEF GInv
  <1>1. GateTypes'
    BY NothingHeld DEF CloseEndpoints, gate, GateTypes, Before, Talk, After,
                     Scenarios
  <1>2. Transcribed'
    BY DEF CloseEndpoints, calibration, talk, gate, Transcribed
  <1>3. Undisturbed'
    BY DEF CloseEndpoints, calibration, talk, gate, Undisturbed
  <1>4. Judged'
    <2>1. UNCHANGED <<verdicts, written, facts, exact, blamed>>
      BY DEF CloseEndpoints
    <2>2. CASE at' = "exit" /\ scenario' = scenario
      BY <2>1, <2>2 DEF Judged, After
    <2>3. CASE at = "abandon" /\ at' = "exit"
      BY <2>1, <2>3 DEF CloseEndpoints, Judged, After
    <2>4. CASE at = "close" /\ scenario = 1 /\ scenario' = 2 /\ at' = "start"
      BY <2>1, <2>4 DEF Judged, After, Scenarios
    <2>5. CASE at = "close" /\ scenario = 2 /\ scenario' = 2 /\ at' = "calibrate"
      BY <2>1, <2>5 DEF Judged, After, Scenarios, Bundle
    <2> QED
      BY <2>2, <2>3, <2>4, <2>5 DEF CloseEndpoints, GateTypes, Scenarios
  <1>5. CalibratedRight'
    BY DEF CloseEndpoints, calibration, talk, gate, CalibratedRight, Before,
       Talk, Numbered, IInv
  <1>6. EvidenceRight'
    BY DEF CloseEndpoints, calibration, talk, gate, EvidenceRight
  <1>7. SupervisedRight'
    BY DEF CloseEndpoints, calibration, talk, gate, SupervisedRight, Before,
       Talk, After, Unsupervised, Mode
  <1>8. Concluded'
    BY DEF CloseEndpoints, calibration, talk, gate, Concluded,
       PassMeansCalibrated, NoFalseAlarm
  <1>9. InTurn'
    BY DEF CloseEndpoints, calibration, talk, gate, InTurn
  <1> QED
    BY <1>1, <1>2, <1>3, <1>4, <1>5, <1>6, <1>7, <1>8, <1>9

LEMMA BeginCalibrationKeeps ==
    ASSUME GInv, BeginCalibration
    PROVE  GInv'
  <1> USE DEF GInv
  <1>1. GateTypes'
    BY DEF BeginCalibration, calibration, talk, gate, GateTypes, Before, Talk,
       After, Scenarios
  <1>2. Transcribed'
    BY DEF BeginCalibration, calibration, talk, gate, Transcribed
  <1>3. Undisturbed'
    BY DEF BeginCalibration, calibration, talk, gate, Undisturbed
  <1>4. Judged'
    BY DEF BeginCalibration, calibration, talk, gate, Judged, Scenarios,
       After, Bundle
  <1>5. CalibratedRight'
    <2>1. PICK values \in Transcripts, channel \in Labels :
             records' = Records(channel, values)
      BY DEF BeginCalibration
    <2>2. values \in Seq(Value)
      BY MaxRecordsAssumption DEF Transcripts
    <2>3. Numbered(records')
      BY <2>1, <2>2, RecordsNumbered
    <2>4. turn' = 0 /\ results' = [n \in Names |-> "none"] /\ pc' = "calibrating"
          /\ at' = "calibrating"
      BY DEF BeginCalibration, CalibratedRight
    <2>5. "known-good" \in Names
      BY DEF Names
    <2>6. IInv'
      BY <2>3, <2>4, <2>5 DEF IInv
    <2> QED
      BY <2>3, <2>4, <2>6 DEF CalibratedRight, Before, Talk
  <1>6. EvidenceRight'
    BY DEF BeginCalibration, calibration, talk, gate, EvidenceRight
  <1>7. SupervisedRight'
    BY DEF BeginCalibration, calibration, talk, gate, SupervisedRight, Before,
       Talk, After, Unsupervised, Mode
  <1>8. Concluded'
    BY DEF BeginCalibration, calibration, talk, gate, Concluded,
       PassMeansCalibrated, NoFalseAlarm
  <1>9. InTurn'
    BY DEF BeginCalibration, calibration, talk, gate, InTurn
  <1> QED
    BY <1>1, <1>2, <1>3, <1>4, <1>5, <1>6, <1>7, <1>8, <1>9

LEMMA CalibrateKeeps ==
    ASSUME GInv, Calibrate
    PROVE  GInv'
  <1> USE DEF GInv
  <1>1. GateTypes'
    BY DEF Calibrate, calibration, talk, gate, GateTypes, Before, Talk, After,
       Scenarios
  <1>2. Transcribed'
    BY DEF Calibrate, calibration, talk, gate, Transcribed
  <1>3. Undisturbed'
    BY DEF Calibrate, calibration, talk, gate, Undisturbed
  <1>4. Judged'
    BY DEF Calibrate, calibration, talk, gate, Judged, Scenarios, After,
       Bundle
  <1>5. CalibratedRight'
    <2>1. at = "calibrating" /\ at' = "calibrating" /\ Next /\ IInv
      BY DEF Calibrate, CalibratedRight
    <2>2. IInv'
      BY <2>1, Invariance
    <2>3. Numbered(records)'
      BY <2>2 DEF IInv
    <2> QED
      BY <2>1, <2>2, <2>3 DEF CalibratedRight, Before, Talk
  <1>6. EvidenceRight'
    BY DEF Calibrate, calibration, talk, gate, EvidenceRight
  <1>7. SupervisedRight'
    BY DEF Calibrate, calibration, talk, gate, SupervisedRight, Before, Talk,
       After, Unsupervised, Mode
  <1>8. Concluded'
    BY DEF Calibrate, calibration, talk, gate, Concluded, PassMeansCalibrated,
       NoFalseAlarm
  <1>9. InTurn'
    BY DEF Calibrate, calibration, talk, gate, InTurn
  <1> QED
    BY <1>1, <1>2, <1>3, <1>4, <1>5, <1>6, <1>7, <1>8, <1>9

LEMMA EndCalibrationKeeps ==
    ASSUME GInv, EndCalibration
    PROVE  GInv'
  <1> USE DEF GInv
  <1>1. GateTypes'
    BY DEF EndCalibration, calibration, talk, gate, GateTypes, Before, Talk,
       After, Scenarios
  <1>2. Transcribed'
    BY DEF EndCalibration, calibration, talk, gate, Transcribed
  <1>3. Undisturbed'
    BY DEF EndCalibration, calibration, talk, gate, Undisturbed
  <1>4. Judged'
    BY DEF EndCalibration, calibration, talk, gate, Judged, Scenarios, After,
       Bundle
  <1>5. CalibratedRight'
    <2>1. IInv /\ UNCHANGED <<pc, results>>
      BY DEF EndCalibration, CalibratedRight
    <2>2. pc = "done" => \A n \in Names :
              results[n] = IF n = "known-good" THEN "PASS" ELSE "FAIL"
      BY <2>1, DoneIsRight DEF Calibrated
    <2>3. Numbered(records)'
      BY EmptySeq DEF EndCalibration, Numbered
    <2>4. at' = "exit" \/ (at' = "evidence" /\ pc = "done")
      BY DEF EndCalibration
    <2> QED
      BY <2>1, <2>2, <2>3, <2>4 DEF CalibratedRight, Before, Talk
  <1>6. EvidenceRight'
    BY DEF EndCalibration, calibration, talk, gate, EvidenceRight
  <1>7. SupervisedRight'
    BY DEF EndCalibration, calibration, talk, gate, SupervisedRight, Before,
       Talk, After, Unsupervised, Mode
  <1>8. Concluded'
    BY DEF EndCalibration, calibration, talk, gate, Concluded,
       PassMeansCalibrated, NoFalseAlarm
  <1>9. InTurn'
    BY DEF EndCalibration, calibration, talk, gate, InTurn
  <1> QED
    BY <1>1, <1>2, <1>3, <1>4, <1>5, <1>6, <1>7, <1>8, <1>9

LEMMA CalibrateEvidenceKeeps ==
    ASSUME GInv, CalibrateEvidence
    PROVE  GInv'
  <1> USE DEF GInv
  <1>1. GateTypes'
    BY DEF CalibrateEvidence, calibration, talk, gate, GateTypes, Before,
       Talk, After, Scenarios
  <1>2. Transcribed'
    BY DEF CalibrateEvidence, calibration, talk, gate, Transcribed
  <1>3. Undisturbed'
    BY DEF CalibrateEvidence, calibration, talk, gate, Undisturbed
  <1>4. Judged'
    BY DEF CalibrateEvidence, calibration, talk, gate, Judged, Scenarios,
       After, Bundle
  <1>5. CalibratedRight'
    BY DEF CalibrateEvidence, calibration, talk, gate, CalibratedRight,
       Before, Talk, Numbered, IInv
  <1>6. EvidenceRight'
    <2>1. /\ CheckTransport(Spoil(facts, "sctp")) = "FAIL"
          /\ CheckMediaBundle(Spoil(facts, "bundled")) = "FAIL"
          /\ CheckMediaBundle(Spoil(facts, "packets")) = "FAIL"
          /\ CheckRequiredEvidence({}) = "FAIL"
      BY DEF Demand, CheckTransport, CheckMediaBundle, Spoil, CheckRequiredEvidence,
         Required
    <2>2. ASSUME ~blamed
          PROVE  /\ CheckTransport(facts) = "PASS" /\ CheckMediaBundle(facts) = "PASS"
                 /\ CheckRequiredEvidence(written[Bundle]) = "PASS"
      <3>1. facts = Facts /\ written[Bundle] = Required
        BY <2>2 DEF CalibrateEvidence, Judged, After
      <3> QED
        BY <3>1 DEF Demand, CheckTransport, CheckMediaBundle, Facts,
           CheckRequiredEvidence
    <2>3. blamed' = blamed
      BY DEF CalibrateEvidence
    <2>4. CASE at' = "exit"
      BY <2>4 DEF EvidenceRight
    <2>5. CASE injected' = {
                 <<"transport", "known-good", CheckTransport(facts)>>,
                 <<"transport", "injected", "FAIL">>,
                 <<"bundle", "known-good", CheckMediaBundle(facts)>>,
                 <<"bundle", "injected", "FAIL">>,
                 <<"media", "injected", "FAIL">>,
                 <<"evidence", "known-good", CheckRequiredEvidence(written[Bundle])>>,
                 <<"evidence", "injected", "FAIL">>}
      <3>1. \A i \in injected' : i[2] = "injected" => i[3] = "FAIL"
        BY <2>5
      <3>2. \A i \in injected' :
               \/ i[2] = "injected" /\ i[3] = "FAIL"
               \/ i[2] = "known-good" /\ i[3] \in {CheckTransport(facts),
                     CheckMediaBundle(facts), CheckRequiredEvidence(written[Bundle])}
        BY <2>5
      <3> QED
        BY <2>2, <2>3, <3>1, <3>2 DEF EvidenceRight
    <2> QED
      BY <2>1, <2>4, <2>5 DEF CalibrateEvidence
  <1>7. SupervisedRight'
    BY DEF CalibrateEvidence, calibration, talk, gate, SupervisedRight,
       Before, Talk, After, Unsupervised, Mode
  <1>8. Concluded'
    BY DEF CalibrateEvidence, calibration, talk, gate, Concluded,
       PassMeansCalibrated, NoFalseAlarm
  <1>9. InTurn'
    BY DEF CalibrateEvidence, calibration, talk, gate, InTurn
  <1> QED
    BY <1>1, <1>2, <1>3, <1>4, <1>5, <1>6, <1>7, <1>8, <1>9

LEMMA SpawnKeeps ==
    ASSUME GInv, Spawn
    PROVE  GInv'
  <1> USE DEF GInv
  <1>1. GateTypes'
    BY DEF Spawn, calibration, talk, gate, GateTypes, Before, Talk, After,
       Scenarios
  <1>2. Transcribed'
    BY DEF Spawn, calibration, talk, gate, Transcribed
  <1>3. Undisturbed'
    BY DEF Spawn, calibration, talk, gate, Undisturbed
  <1>4. Judged'
    BY DEF Spawn, calibration, talk, gate, Judged, Scenarios, After, Bundle
  <1>5. CalibratedRight'
    BY DEF Spawn, calibration, talk, gate, CalibratedRight, Before, Talk,
       Numbered, IInv
  <1>6. EvidenceRight'
    BY DEF Spawn, calibration, talk, gate, EvidenceRight
  <1>7. SupervisedRight'
    BY DEF Spawn, calibration, talk, gate, SupervisedRight, Before, Talk,
       After, Unsupervised, Mode
  <1>8. Concluded'
    BY DEF Spawn, calibration, talk, gate, Concluded, PassMeansCalibrated,
       NoFalseAlarm
  <1>9. InTurn'
    BY DEF Spawn, calibration, talk, gate, InTurn
  <1> QED
    BY <1>1, <1>2, <1>3, <1>4, <1>5, <1>6, <1>7, <1>8, <1>9

LEMMA ReapKeeps ==
    ASSUME GInv, Reap
    PROVE  GInv'
  <1>a. /\ at = "watch" /\ at' = "supervise" /\ child' = "none"
        /\ Mode \in ModeNames
        /\ UNCHANGED <<calibration, scenario, open, talk, verdicts, written, facts,
                       injected, exit, exact>>
        /\ at' \notin {"start", "negotiate", "send", "settle", "drain", "stats"}
    BY ModeWaits DEF Reap, Classified, GInv, SupervisedRight
  <1>b. /\ blamed' = blamed
        /\ supervised' = [supervised EXCEPT ![Mode] =
                             IF child = "succeeded" THEN "PASS" ELSE "INFRA_ERROR"]
    BY DEF Reap, Classified
  <1> USE DEF GInv
  <1>1. GateTypes'
    BY <1>a, <1>b DEF talk, GateTypes, Before, Talk, After
  <1>2. Transcribed'
    BY <1>a DEF Transcribed
  <1>3. Undisturbed'
    BY <1>a DEF Undisturbed
  <1>4. Judged'
    BY <1>a, <1>b DEF Judged, After
  <1>5. CalibratedRight'
    BY <1>a DEF calibration, CalibratedRight, Before, Talk, Numbered
  <1>6. EvidenceRight'
    BY <1>a, <1>b DEF EvidenceRight
  <1>7. SupervisedRight'
    <2>1. child = "succeeded" => Mode = "success"
      BY <1>a DEF SupervisedRight
    <2>2. child # "succeeded" => child = "failed" /\ Mode = "crash"
      BY <1>a DEF Reap, SupervisedRight
    <2>3. supervised' = [supervised EXCEPT !["success"] = "PASS"]
          \/ supervised' = [supervised EXCEPT !["crash"] = "INFRA_ERROR"]
      BY <1>b, <2>1, <2>2
    <2>4. /\ supervised'["crash"] # "PASS" /\ supervised'["hang"] # "PASS"
          /\ ~blamed => supervised'["success"] # "INFRA_ERROR"
      BY <2>3 DEF GateTypes, SupervisedRight, ModeNames
    <2> QED
      BY <1>a, <1>b, <2>4 DEF SupervisedRight, After
  <1>8. Concluded'
    BY <1>a DEF Concluded, PassMeansCalibrated, NoFalseAlarm
  <1>9. InTurn'
    BY <1>a DEF InTurn
  <1> QED
    BY <1>1, <1>2, <1>3, <1>4, <1>5, <1>6, <1>7, <1>8, <1>9

LEMMA OverdueKeeps ==
    ASSUME GInv, Overdue
    PROVE  GInv'
  <1>a. /\ at = "watch" /\ at' = "supervise" /\ child' = "none"
        /\ Mode \in ModeNames
        /\ UNCHANGED <<calibration, scenario, open, talk, verdicts, written, facts,
                       injected, exit, exact>>
        /\ at' \notin {"start", "negotiate", "send", "settle", "drain", "stats"}
    BY ModeWaits DEF Overdue, Classified, GInv, SupervisedRight
  <1>b. /\ supervised' = [supervised EXCEPT ![Mode] = "INFRA_ERROR"]
        /\ IF Mode = "hang" THEN blamed' = blamed ELSE blamed'
    BY DEF Overdue, Classified
  <1>c. blamed' \in BOOLEAN /\ (blamed => blamed')
    BY <1>b DEF Overdue, GInv, GateTypes
  <1> USE DEF GInv
  <1>1. GateTypes'
    BY <1>a, <1>b, <1>c DEF talk, GateTypes, Before, Talk, After
  <1>2. Transcribed'
    BY <1>a DEF Transcribed
  <1>3. Undisturbed'
    BY <1>a DEF Undisturbed
  <1>4. Judged'
    BY <1>a, <1>b, <1>c DEF Judged, After
  <1>5. CalibratedRight'
    BY <1>a DEF calibration, CalibratedRight, Before, Talk, Numbered
  <1>6. EvidenceRight'
    BY <1>a, <1>b, <1>c DEF EvidenceRight
  <1>7. SupervisedRight'
    BY <1>a, <1>b, <1>c DEF GateTypes, SupervisedRight, ModeNames, After
  <1>8. Concluded'
    BY <1>a DEF Concluded, PassMeansCalibrated, NoFalseAlarm
  <1>9. InTurn'
    BY <1>a DEF InTurn
  <1> QED
    BY <1>1, <1>2, <1>3, <1>4, <1>5, <1>6, <1>7, <1>8, <1>9

LEMMA SummariseKeeps ==
    ASSUME GInv, Summarise
    PROVE  GInv'
  <1> USE DEF GInv
  <1>1. GateTypes'
    BY DEF Summarise, calibration, talk, gate, GateTypes, Before, Talk, After,
       Scenarios
  <1>2. Transcribed'
    BY DEF Summarise, calibration, talk, gate, Transcribed
  <1>3. Undisturbed'
    BY DEF Summarise, calibration, talk, gate, Undisturbed
  <1>4. Judged'
    BY DEF Summarise, calibration, talk, gate, Judged, Scenarios, After,
       Bundle
  <1>5. CalibratedRight'
    BY DEF Summarise, calibration, talk, gate, CalibratedRight, Before, Talk,
       Numbered, IInv
  <1>6. EvidenceRight'
    BY DEF Summarise, calibration, talk, gate, EvidenceRight
  <1>7. SupervisedRight'
    BY DEF Summarise, calibration, talk, gate, SupervisedRight, Before, Talk,
       After, Unsupervised, Mode
  <1>8. Concluded'
    <2>1. /\ at = "supervise" /\ at' = "exit" /\ Unsupervised = {}
          /\ exit' \in {IF Demanded THEN "0" ELSE "1", "raised"}
          /\ UNCHANGED <<exact, pc, results, supervised, injected, open, child, blamed>>
      BY DEF Summarise, calibration
    <2>2. scenario = 2 /\ open = {} /\ child = "none" /\ pc = "done"
      BY <2>1 DEF Judged, SupervisedRight, CalibratedRight, After, Bundle
    <2>3. ASSUME Demanded
          PROVE  /\ exact = Scenarios /\ supervised["success"] = "PASS"
                 /\ \A n \in Violations : results[n] = "FAIL"
      <3>1. \A s \in Scenarios : s \in exact
        BY <2>3 DEF Demanded, Judged
      <3>2. "success" \in DOMAIN supervised
        BY DEF GateTypes, ModeNames
      <3>3. \A n \in Violations : n \in Names /\ n # "known-good"
        BY DEF Violations, Injections, Names
      <3> QED
        BY <2>3, <3>1, <3>2, <3>3 DEF Demanded, Judged
    <2>4. ASSUME ~blamed PROVE Demanded
      <3>1. \A s \in Scenarios : verdicts[s] = "PASS"
        BY <2>1, <2>2, <2>4 DEF Judged, After, Scenarios
      <3>2. \A n \in Names : results[n] = IF n = "known-good" THEN "PASS" ELSE "FAIL"
        BY <2>1 DEF CalibratedRight
      <3>3. \A m \in DOMAIN supervised :
                supervised[m] = IF m = "success" THEN "PASS" ELSE "INFRA_ERROR"
        BY <2>1, <2>4, AllSupervised DEF GateTypes, SupervisedRight, ModeNames
      <3>4. \A i \in injected : i[3] = IF i[2] = "known-good" THEN "PASS" ELSE "FAIL"
        BY <2>1, <2>4 DEF EvidenceRight
      <3> QED
        BY <3>1, <3>2, <3>3, <3>4 DEF Demanded
    <2>5. exit' = "0" => Demanded
      BY <2>1
    <2>6. exit' = "1" => blamed
      BY <2>1, <2>4
    <2>7. \A i \in injected : i[2] = "injected" => i[3] = "FAIL"
      BY <2>1 DEF EvidenceRight
    <2>8. PassMeansCalibrated'
      BY <2>1, <2>2, <2>3, <2>5, <2>7 DEF PassMeansCalibrated
    <2>9. exit' \in {"none", "0", "1", "raised"}
      BY <2>1
    <2> QED
      BY <2>1, <2>6, <2>8, <2>9 DEF Concluded, NoFalseAlarm
  <1>9. InTurn'
    BY DEF Summarise, calibration, talk, gate, InTurn
  <1> QED
    BY <1>1, <1>2, <1>3, <1>4, <1>5, <1>6, <1>7, <1>8, <1>9

LEMMA ChildExitsKeeps ==
    ASSUME GInv, ChildExits
    PROVE  GInv'
  <1> USE DEF GInv
  <1>1. GateTypes'
    BY DEF ChildExits, calibration, talk, gate, GateTypes, Before, Talk,
       After, Scenarios
  <1>2. Transcribed'
    BY DEF ChildExits, calibration, talk, gate, Transcribed
  <1>3. Undisturbed'
    BY DEF ChildExits, calibration, talk, gate, Undisturbed
  <1>4. Judged'
    BY DEF ChildExits, calibration, talk, gate, Judged, Scenarios, After,
       Bundle
  <1>5. CalibratedRight'
    BY DEF ChildExits, calibration, talk, gate, CalibratedRight, Before, Talk,
       Numbered, IInv
  <1>6. EvidenceRight'
    BY DEF ChildExits, calibration, talk, gate, EvidenceRight
  <1>7. SupervisedRight'
    <2>1. Unsupervised' = Unsupervised /\ Mode' = Mode
      BY DEF ChildExits, Unsupervised, Mode
    <2>2. Mode \in ModeNames
      BY ModeWaits DEF ChildExits, SupervisedRight
    <2> QED
      BY <2>1, <2>2 DEF ChildExits, SupervisedRight, After, Before, Talk, ModeNames
  <1>8. Concluded'
    BY DEF ChildExits, calibration, talk, gate, Concluded,
       PassMeansCalibrated, NoFalseAlarm
  <1>9. InTurn'
    BY DEF ChildExits, calibration, talk, gate, InTurn
  <1> QED
    BY <1>1, <1>2, <1>3, <1>4, <1>5, <1>6, <1>7, <1>8, <1>9

LEMMA DeliverKeeps ==
    ASSUME GInv, NEW d \in Directions, Deliver(d)
    PROVE  GInv'
  <1>a. /\ queue[d] \in Bodies /\ wire[d] \in Bodies /\ wire[d] # <<>>
        /\ queue' = [queue EXCEPT ![d] = Append(queue[d], Head(wire[d]))]
        /\ wire' = [wire EXCEPT ![d] = Tail(wire[d])]
        /\ at \in {"send", "settle", "drain"}
        /\ UNCHANGED <<at, sent, received, blamed>>
    BY DEF Deliver, Talking, GInv, GateTypes
  <1> USE DEF GInv
  <1>1. GateTypes'
    <2>1. /\ queue' \in [Directions -> Bodies]
          /\ wire' \in [Directions -> Bodies]
      BY <1>a, Delivered DEF GateTypes
    <2> QED
      BY <1>a, <2>1 DEF Deliver, gate, GateTypes
  <1>2. Transcribed'
    BY <1>a DEF Transcribed
  <1>3. Undisturbed'
    <2>1. \A c \in Directions : InFull(queue[c], wire[c], sent[c])
                                => InFull(queue'[c], wire'[c], sent[c])
      <3>1. InFull(queue[d], wire[d], sent[d]) => InFull(queue'[d], wire'[d], sent[d])
        <4>1. sent[d] \in Nat
          BY FoundationAssumption DEF GateTypes
        <4> QED
          BY <1>a, <4>1, Delivered DEF GateTypes
      <3>2. \A c \in Directions : c # d => queue'[c] = queue[c] /\ wire'[c] = wire[c]
        BY <1>a DEF GateTypes
      <3> QED
        BY <3>1, <3>2
    <2>2. 1 \in Directions /\ 2 \in Directions
      BY DEF Directions
    <2> QED
      BY <1>a, <2>1, <2>2 DEF Undisturbed
  <1>4. Judged'
    BY DEF Deliver, calibration, talk, gate, Judged, Scenarios, After, Bundle
  <1>5. CalibratedRight'
    BY DEF Deliver, calibration, talk, gate, CalibratedRight, Before, Talk,
       Numbered, IInv
  <1>6. EvidenceRight'
    BY DEF Deliver, calibration, talk, gate, EvidenceRight
  <1>7. SupervisedRight'
    BY DEF Deliver, calibration, talk, gate, SupervisedRight, Before, Talk,
       After, Unsupervised, Mode
  <1>8. Concluded'
    BY DEF Deliver, calibration, talk, gate, Concluded, PassMeansCalibrated,
       NoFalseAlarm
  <1>9. InTurn'
    BY <1>a DEF InTurn
  <1> QED
    BY <1>1, <1>2, <1>3, <1>4, <1>5, <1>6, <1>7, <1>8, <1>9

LEMMA FailKeeps ==
    ASSUME GInv, NEW d \in Directions, Fail(d)
    PROVE  GInv'
  <1> USE DEF GInv
  <1>1. GateTypes'
    <2>1. wire[d] \in Bodies /\ wire[d] # <<>>
      BY DEF Fail, GateTypes
    <2>2. /\ Tail(wire[d]) \in Bodies
          /\ [wire[d] EXCEPT ![1] = 0] \in Bodies
          /\ <<Head(wire[d])>> \o wire[d] \in Bodies
      <3> DEFINE w == wire[d]
                 h == <<Head(w)>>
      <3>1. w \in Seq(0..Count) /\ w # <<>>
        BY <2>1 DEF Bodies
      <3> HIDE DEF w
      <3>2. Head(w) \in 0..Count /\ Tail(w) \in Seq(0..Count)
            /\ 1 \in 1..Len(w) /\ 0 \in 0..Count
        BY <3>1, FoundationAssumption, HeadTailProperties, LenProperties, EmptySeq
      <3>3. [w EXCEPT ![1] = 0] \in Seq(0..Count)
        BY <3>1, <3>2, ExceptSeq
      <3>4. h \in Seq(0..Count)
        BY <3>2
      <3> HIDE DEF h
      <3>5. h \o w \in Seq(0..Count)
        BY <3>1, <3>4, ConcatProperties
      <3> QED
        BY <3>2, <3>3, <3>5 DEF Bodies, h, w
    <2>3. \E w \in Bodies : wire' = [wire EXCEPT ![d] = w]
      BY <2>2 DEF Fail
    <2>4. wire' \in [Directions -> Bodies]
      BY <2>3 DEF GateTypes
    <2> QED
      BY <2>4 DEF Fail, gate, GateTypes
  <1>2. Transcribed'
    BY DEF Fail, calibration, talk, gate, Transcribed
  <1>3. Undisturbed'
    BY DEF Fail, calibration, talk, gate, Undisturbed
  <1>4. Judged'
    BY DEF Fail, calibration, talk, gate, Judged, Scenarios, After, Bundle
  <1>5. CalibratedRight'
    BY DEF Fail, calibration, talk, gate, CalibratedRight, Before, Talk,
       Numbered, IInv
  <1>6. EvidenceRight'
    BY DEF Fail, calibration, talk, gate, EvidenceRight
  <1>7. SupervisedRight'
    BY DEF Fail, calibration, talk, gate, SupervisedRight, Before, Talk,
       After, Unsupervised, Mode
  <1>8. Concluded'
    BY DEF Fail, calibration, talk, gate, Concluded, PassMeansCalibrated,
       NoFalseAlarm
  <1>9. InTurn'
    BY DEF Fail, Talking, gate, InTurn
  <1> QED
    BY <1>1, <1>2, <1>3, <1>4, <1>5, <1>6, <1>7, <1>8, <1>9

LEMMA IdleKeeps ==
    ASSUME GInv, UNCHANGED allVars
    PROVE  GInv'
  <1> USE DEF GInv
  <1>1. GateTypes'
    BY DEF allVars, calibration, talk, gate, GateTypes, Before, Talk, After,
       Scenarios
  <1>2. Transcribed'
    BY DEF allVars, calibration, talk, gate, Transcribed
  <1>3. Undisturbed'
    BY DEF allVars, calibration, talk, gate, Undisturbed
  <1>4. Judged'
    BY DEF allVars, calibration, talk, gate, Judged, Scenarios, After, Bundle
  <1>5. CalibratedRight'
    BY DEF allVars, calibration, talk, gate, CalibratedRight, Before, Talk,
       Numbered, IInv
  <1>6. EvidenceRight'
    BY DEF allVars, calibration, talk, gate, EvidenceRight
  <1>7. SupervisedRight'
    BY DEF allVars, calibration, talk, gate, SupervisedRight, Before, Talk,
       After, Unsupervised, Mode
  <1>8. Concluded'
    BY DEF allVars, calibration, talk, gate, Concluded, PassMeansCalibrated,
       NoFalseAlarm
  <1>9. InTurn'
    BY DEF allVars, calibration, talk, gate, InTurn
  <1> QED
    BY <1>1, <1>2, <1>3, <1>4, <1>5, <1>6, <1>7, <1>8, <1>9

\* Every step of the gate keeps the invariant.
LEMMA GateInvariance == GInv /\ [GateNext]_allVars => GInv'
  <1> SUFFICES ASSUME GInv, [GateNext]_allVars PROVE GInv'
    OBVIOUS
  <1>1. CASE StartEndpoints
    BY <1>1, StartEndpointsKeeps
  <1>2. CASE Negotiate
    BY <1>2, NegotiateKeeps
  <1>3. CASE ScenarioFails
    BY <1>3, ScenarioFailsKeeps
  <1>4. CASE SendMessage
    BY <1>4, SendMessageKeeps
  <1>5. CASE DrainEnd
    BY <1>5, DrainEndKeeps
  <1>6. CASE JudgeScenario
    BY <1>6, JudgeScenarioKeeps
  <1>7. CASE CloseEndpoints
    BY <1>7, CloseEndpointsKeeps
  <1>8. CASE BeginCalibration
    BY <1>8, BeginCalibrationKeeps
  <1>9. CASE Calibrate
    BY <1>9, CalibrateKeeps
  <1>10. CASE EndCalibration
    BY <1>10, EndCalibrationKeeps
  <1>11. CASE CalibrateEvidence
    BY <1>11, CalibrateEvidenceKeeps
  <1>12. CASE Spawn
    BY <1>12, SpawnKeeps
  <1>13. CASE Reap
    BY <1>13, ReapKeeps
  <1>14. CASE Overdue
    BY <1>14, OverdueKeeps
  <1>15. CASE Summarise
    BY <1>15, SummariseKeeps
  <1>16. CASE ChildExits
    BY <1>16, ChildExitsKeeps
  <1>17. CASE \E d \in Directions : Deliver(d)
    BY <1>17, DeliverKeeps
  <1>18. CASE \E d \in Directions : Fail(d)
    BY <1>18, FailKeeps
  <1>19. CASE UNCHANGED allVars
    BY <1>19, IdleKeeps
  <1> QED
    BY <1>1, <1>2, <1>3, <1>4, <1>5, <1>6, <1>7, <1>8, <1>9, <1>10, <1>11,
       <1>12, <1>13, <1>14, <1>15, <1>16, <1>17, <1>18, <1>19 DEF GateNext,
       Gate

\* The gate passes only if both scenarios were exact, the oracles tell good
\* from bad, and nothing is left running (cli.run).
THEOREM PassIsCalibrated == GateSpec => []PassMeansCalibrated
  <1>1. GInv => PassMeansCalibrated
    BY DEF GInv, Concluded
  <1> QED
    BY <1>1, GateInitially, GateInvariance, PTL DEF GateSpec

\* The gate fails only for a reason (cli.run, run_foundation_scenario,
\* classify_process).
THEOREM NobodyBlamed == GateSpec => []NoFalseAlarm
  <1>1. GInv => NoFalseAlarm
    BY DEF GInv, Concluded
  <1> QED
    BY <1>1, GateInitially, GateInvariance, PTL DEF GateSpec

\* The unordered oracle is as exact on what the gate calibrates with.
THEOREM UnorderedExactInGate == GateSpec => []UnorderedAcceptsRearrangements
  <1>1. GInv => UnorderedAcceptsRearrangements
    BY NumberedSuffices DEF GInv, CalibratedRight
  <1> QED
    BY <1>1, GateInitially, GateInvariance, PTL DEF GateSpec

=============================================================================
