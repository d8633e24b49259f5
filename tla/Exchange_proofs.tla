--------------------------- MODULE Exchange_proofs ---------------------------
(***************************************************************************)
(* The message exchange, for any number of channels, messages and          *)
(* misbehaviours of the echo, ordered or unordered, however echoes arrive  *)
(* between the polls: no event is lost or repeated, a pass means that what *)
(* was sent came back first and unharmed, and a faultless echo passes.     *)
(* Then the two probes of module Probes, which end a scenario and read the *)
(* same queue: what a pass of theirs means, and when they may not fail.    *)
(*                                                                         *)
(* The values received are defined by recursion over a log, a transcript   *)
(* by recursion over the channels: what they compute is proved by an       *)
(* induction whose step is a set of numbers, as no operator may stand for  *)
(* a property here.                                                        *)
(***************************************************************************)
EXTENDS Exchange, Probes, SequenceTheorems, FiniteSetTheorems,
        FunctionTheorems, WellFoundedInduction, TLAPS

-----------------------------------------------------------------------------
(* Induction, over sets of numbers.                                        *)

\* Every set of numbers that is not empty has a least one.
LEMMA LeastNumber ==
    ASSUME NEW T \in SUBSET Nat, T # {}
    PROVE  \E x \in T : \A y \in T : ~(y < x)
  <1>1. IsWellFoundedOn(OpToRel(<, Nat), Nat)
    BY NatLessThanWellFounded
  <1>2. \E x \in T : \A y \in T : ~(<<y, x>> \in OpToRel(<, Nat))
    BY <1>1, WFMin
  <1>3. \A x, y \in Nat : <<y, x>> \in OpToRel(<, Nat) <=> y < x
    BY DEF OpToRel
  <1>. QED
    BY <1>2, <1>3

\* What holds of zero and of the next number holds up to any number.
LEMMA Induction ==
    ASSUME NEW n \in Nat, NEW T, 0 \in T,
           \A m \in 0..n : m < n /\ m \in T => m + 1 \in T
    PROVE  \A m \in 0..n : m \in T
  <1> DEFINE missing == (0..n) \ T
  <1> SUFFICES ASSUME missing # {} PROVE FALSE
    OBVIOUS
  <1>1. missing \in SUBSET Nat
    OBVIOUS
  <1>2. PICK x \in missing : \A y \in missing : ~(y < x)
    <2> HIDE DEF missing
    <2>. QED
      BY <1>1, LeastNumber
  <1>3. x - 1 \in 0..n /\ x - 1 < x /\ x - 1 < n
    OBVIOUS
  <1>4. x - 1 \in T
    BY <1>2, <1>3
  <1>. QED
    BY <1>3, <1>4

-----------------------------------------------------------------------------
(* The values received on a channel.                                       *)

\* The recursion of ReceivedValues up to the m-th event of a log.
Recursion(log, label, m, values) ==
    values = [n \in 0..m |->
        IF n = 0 THEN <<>>
        ELSE IF log[n].label = label THEN Append(values[n - 1], log[n].value)
        ELSE values[n - 1]]

\* The recursion has a solution.
LEMMA RecursionSolved ==
    ASSUME NEW log, NEW label, NEW k \in Nat
    PROVE  \E values : Recursion(log, label, k, values)
  <1> DEFINE T == {m \in 0..k : \E values : Recursion(log, label, m, values)}
  <1>1. 0 \in T
    <2>1. Recursion(log, label, 0, [n \in 0..0 |-> <<>>])
      BY DEF Recursion
    <2>2. 0 \in 0..k
      OBVIOUS
    <2>. QED
      BY <2>1, <2>2
  <1>2. ASSUME NEW m \in 0..k, m < k, m \in T PROVE m + 1 \in T
    <2>1. PICK f : Recursion(log, label, m, f)
      BY <1>2
    <2> DEFINE step(n, h) == IF n = 0 THEN <<>>
                   ELSE IF log[n].label = label THEN Append(h[n - 1], log[n].value)
                   ELSE h[n - 1]
               g == [n \in 0..(m + 1) |-> IF n <= m THEN f[n] ELSE step(n, f)]
    <2>2. \A n \in 0..m : f[n] = step(n, f)
      BY <2>1 DEF Recursion
    <2>3. \A n \in 0..m : g[n] = f[n]
      OBVIOUS
    <2>4. g[m + 1] = step(m + 1, f)
      OBVIOUS
    <2>5. \A n \in 0..(m + 1) : step(n, g) = step(n, f)
      <3> SUFFICES ASSUME NEW n \in 0..(m + 1), n # 0 PROVE g[n - 1] = f[n - 1]
        OBVIOUS
      <3>. QED
        BY <2>3
    <2>6. \A n \in 0..(m + 1) : g[n] = step(n, g)
      <3> SUFFICES ASSUME NEW n \in 0..(m + 1) PROVE g[n] = step(n, f)
        BY <2>5
      <3>1. CASE n <= m
        BY <2>2, <2>3, <3>1
      <3>2. CASE n = m + 1
        BY <2>4, <3>2
      <3>. QED
        BY <3>1, <3>2
    <2>7. g = [n \in 0..(m + 1) |-> step(n, g)]
      <3>1. g = [n \in 0..(m + 1) |-> g[n]]
        OBVIOUS
      <3> HIDE DEF g, step
      <3>. QED
        BY <2>6, <3>1
    <2>8. Recursion(log, label, m + 1, g)
      BY <2>7 DEF Recursion
    <2>9. m + 1 \in 0..k
      BY <1>2
    <2>. QED
      BY <2>8, <2>9
  <1>3. k \in T
    <2> HIDE DEF T
    <2>1. \A m \in 0..k : m \in T
      BY <1>1, <1>2, Induction
    <2>. QED
      BY <2>1
  <1>. QED
    BY <1>3

\* Two logs with the same beginning have the same solution there.
LEMMA RecursionUnique ==
    ASSUME NEW log, NEW longer, NEW label, NEW k \in Nat, NEW l \in Nat, k <= l,
           \A n \in 1..k : log[n] = longer[n],
           NEW f, Recursion(log, label, k, f),
           NEW g, Recursion(longer, label, l, g)
    PROVE  f[k] = g[k]
  <1> DEFINE T == {m \in 0..k : f[m] = g[m]}
  <1>1. \A n \in 0..k : f[n] = IF n = 0 THEN <<>>
                 ELSE IF log[n].label = label THEN Append(f[n - 1], log[n].value)
                 ELSE f[n - 1]
    BY DEF Recursion
  <1>2. \A n \in 0..l : g[n] = IF n = 0 THEN <<>>
                 ELSE IF longer[n].label = label
                 THEN Append(g[n - 1], longer[n].value)
                 ELSE g[n - 1]
    BY DEF Recursion
  <1>3. 0 \in T
    BY <1>1, <1>2
  <1>4. ASSUME NEW m \in 0..k, m < k, m \in T PROVE m + 1 \in T
    <2>1. m + 1 \in 0..k /\ m + 1 \in 0..l /\ m + 1 \in 1..k
      BY <1>4
    <2>2. log[m + 1] = longer[m + 1] /\ f[m] = g[m]
      BY <1>4, <2>1
    <2>3. f[m + 1] = g[m + 1]
      BY <1>1, <1>2, <2>1, <2>2
    <2>. QED
      BY <2>1, <2>3
  <1>5. \A m \in 0..k : m \in T
    <2> HIDE DEF T
    <2>. QED
      BY <1>3, <1>4, Induction
  <1>. QED
    BY <1>5

LEMMA ReceivedValuesSolve ==
    ASSUME NEW log \in Seq(Event), NEW label
    PROVE  \E f : /\ Recursion(log, label, Len(log), f)
                  /\ ReceivedValues(log, label) = f[Len(log)]
  <1> DEFINE f == CHOOSE f : Recursion(log, label, Len(log), f)
  <1>1. Len(log) \in Nat
    BY LenProperties
  <1>2. Recursion(log, label, Len(log), f)
    BY <1>1, RecursionSolved
  <1>3. ReceivedValues(log, label) = f[Len(log)]
    BY DEF ReceivedValues, Recursion
  <1> HIDE DEF f
  <1>. QED
    BY <1>2, <1>3

\* Before the first event nothing has been received.
LEMMA NothingReceived ==
    ASSUME NEW label PROVE ReceivedValues(<<>>, label) = <<>>
  <1>1. <<>> \in Seq(Event) /\ Len(<<>>) = 0
    BY EmptySeq
  <1>2. PICK f : /\ Recursion(<<>>, label, Len(<<>>), f)
                 /\ ReceivedValues(<<>>, label) = f[Len(<<>>)]
    BY <1>1, ReceivedValuesSolve
  <1>. QED
    BY <1>1, <1>2 DEF Recursion

\* Every event of the channel adds its value, and no other event does.
LEMMA OneMoreReceived ==
    ASSUME NEW log \in Seq(Event), NEW event \in Event, NEW label
    PROVE  ReceivedValues(Append(log, event), label) =
               IF event.label = label
               THEN Append(ReceivedValues(log, label), event.value)
               ELSE ReceivedValues(log, label)
  <1> DEFINE longer == Append(log, event)
             k == Len(log)
  <1>1. /\ longer \in Seq(Event) /\ Len(longer) = k + 1 /\ k \in Nat
        /\ longer[k + 1] = event
        /\ \A n \in 1..k : log[n] = longer[n]
    BY AppendProperties, LenProperties
  <1>2. PICK f : /\ Recursion(log, label, k, f)
                 /\ ReceivedValues(log, label) = f[k]
    BY ReceivedValuesSolve
  <1>3. PICK g : /\ Recursion(longer, label, k + 1, g)
                 /\ ReceivedValues(longer, label) = g[k + 1]
    BY <1>1, ReceivedValuesSolve
  <1> HIDE DEF longer, k
  <1>4. f[k] = g[k]
    BY <1>1, <1>2, <1>3, RecursionUnique
  <1>5. g[k + 1] = IF event.label = label THEN Append(g[k], event.value) ELSE g[k]
    <2>1. k + 1 \in 0..(k + 1) /\ k + 1 # 0 /\ (k + 1) - 1 = k
      BY <1>1
    <2>. QED
      BY <1>1, <1>3, <2>1 DEF Recursion
  <1>. QED
    BY <1>2, <1>3, <1>4, <1>5 DEF longer

-----------------------------------------------------------------------------
(* How often a value is in a sequence.                                     *)

Places(s, v) == {i \in DOMAIN s : s[i] = v}
Times(s, v) == Cardinality(Places(s, v))

LEMMA TimesType ==
    ASSUME NEW S, NEW s \in Seq(S), NEW v
    PROVE  IsFiniteSet(Places(s, v)) /\ Times(s, v) \in Nat
  <1>1. Places(s, v) \subseteq 1..Len(s) /\ Len(s) \in Nat
    BY LenProperties DEF Places
  <1>2. IsFiniteSet(1..Len(s))
    BY <1>1, FS_Interval
  <1>. QED
    BY <1>1, <1>2, FS_Subset, FS_CardinalityType DEF Times

\* In two sequences, one after the other, as often as in both.
LEMMA TimesConcat ==
    ASSUME NEW S, NEW s \in Seq(S), NEW t \in Seq(S), NEW v
    PROVE  Times(s \o t, v) = Times(s, v) + Times(t, v)
  <1> DEFINE n == Len(s)
             A == Places(s, v)
             B == Places(t, v)
             C == {i \in (n + 1)..(n + Len(t)) : (s \o t)[i] = v}
             shift == [i \in B |-> n + i]
  <1>1. n \in Nat /\ Len(t) \in Nat /\ DOMAIN s = 1..n /\ DOMAIN t = 1..Len(t)
    BY LenProperties
  <1>2. /\ s \o t \in Seq(S) /\ Len(s \o t) = n + Len(t)
        /\ \A i \in 1..(n + Len(t)) :
              (s \o t)[i] = IF i <= n THEN s[i] ELSE t[i - n]
    BY ConcatProperties
  <1>3. DOMAIN (s \o t) = 1..(n + Len(t))
    BY <1>2, LenProperties
  <1>4. IsFiniteSet(A) /\ IsFiniteSet(B) /\ Times(s, v) \in Nat /\ Times(t, v) \in Nat
    BY TimesType
  <1>5. Places(s \o t, v) = A \cup C /\ A \cap C = {}
    <2>1. Places(s \o t, v) = {i \in 1..(n + Len(t)) : (s \o t)[i] = v}
      BY <1>3 DEF Places
    <2>2. A = {i \in 1..n : (s \o t)[i] = v}
      BY <1>1, <1>2 DEF Places
    <2>. QED
      BY <1>1, <2>1, <2>2
  <1>6. Cardinality(C) = Cardinality(B) /\ IsFiniteSet(C)
    <2>1. \A j \in B : n + j \in C
      BY <1>1, <1>2 DEF Places
    <2>2. \A i \in C : i - n \in B /\ i = n + (i - n)
      BY <1>1, <1>2 DEF Places
    <2>3. \A j, k \in B : n + j = n + k => j = k
      BY <1>1 DEF Places
    <2> HIDE DEF B, C, n
    <2>4. shift \in Bijection(B, C)
      <3>1. shift \in [B -> C]
        BY <2>1
      <3>2. \A j, k \in B : shift[j] = shift[k] => j = k
        BY <2>3
      <3>3. \A i \in C : \E j \in B : shift[j] = i
        BY <2>2
      <3>. QED
        BY <3>1, <3>2, <3>3, Fun_IsBij
    <2>5. ExistsBijection(B, C)
      BY <2>4 DEF ExistsBijection
    <2>. QED
      BY <1>4, <2>5, FS_Bijection
  <1> HIDE DEF A, B, C
  <1>7. Cardinality(A \cup C) = Cardinality(A) + Cardinality(C) - Cardinality(A \cap C)
    BY <1>4, <1>6, FS_Union
  <1>8. Cardinality(A \cap C) = 0
    BY <1>5, FS_EmptySet
  <1>. QED
    BY <1>4, <1>5, <1>6, <1>7, <1>8 DEF Times, A, B

LEMMA TimesOne ==
    ASSUME NEW e, NEW v
    PROVE  Times(<<e>>, v) = IF e = v THEN 1 ELSE 0
  <1>1. DOMAIN <<e>> = {1} /\ <<e>>[1] = e
    OBVIOUS
  <1>2. Places(<<e>>, v) = IF e = v THEN {1} ELSE {}
    BY <1>1 DEF Places
  <1>. QED
    BY <1>2, FS_Singleton, FS_EmptySet DEF Times

LEMMA TimesAppend ==
    ASSUME NEW S, NEW s \in Seq(S), NEW e \in S, NEW v
    PROVE  Times(Append(s, e), v) = Times(s, v) + IF e = v THEN 1 ELSE 0
  <1> DEFINE m == <<e>>
  <1>1. Append(s, e) = s \o m /\ m \in Seq(S)
    BY AppendIsConcat, IsASeq
  <1>2. Times(m, v) = IF e = v THEN 1 ELSE 0
    BY TimesOne
  <1> HIDE DEF m
  <1>3. Times(s \o m, v) = Times(s, v) + Times(m, v)
    BY <1>1, TimesConcat
  <1>. QED
    BY <1>1, <1>2, <1>3

\* The elements of two sequences, one after the other.
LEMMA Concatenated ==
    ASSUME NEW S, NEW s \in Seq(S), NEW t \in Seq(S), NEW n \in Nat,
           n = Len(s) + Len(t)
    PROVE  /\ s \o t \in Seq(S)
           /\ Len(s \o t) = n
           /\ \A i \in 1..Len(s) : (s \o t)[i] = s[i]
           /\ \A i \in (Len(s) + 1)..n : (s \o t)[i] = t[i - Len(s)]
  <1>1. Len(s) \in Nat /\ Len(t) \in Nat
    BY LenProperties
  <1>2. /\ s \o t \in Seq(S) /\ Len(s \o t) = Len(s) + Len(t)
        /\ \A i \in 1..(Len(s) + Len(t)) :
              (s \o t)[i] = IF i <= Len(s) THEN s[i] ELSE t[i - Len(s)]
    BY ConcatProperties
  <1>3. \A i \in 1..Len(s) : i \in 1..(Len(s) + Len(t)) /\ i <= Len(s)
    BY <1>1
  <1>4. \A i \in (Len(s) + 1)..n : i \in 1..(Len(s) + Len(t)) /\ ~(i <= Len(s))
    BY <1>1
  <1>. QED
    BY <1>2, <1>3, <1>4

\* What is left when an element is taken out.
LEMMA Removed ==
    ASSUME NEW S, NEW s \in Seq(S), NEW i \in 1..Len(s)
    PROVE  /\ RemoveAt(s, i) \in Seq(S)
           /\ Len(RemoveAt(s, i)) = Len(s) - 1
           /\ \A v : Times(s, v) = Times(RemoveAt(s, i), v)
                                   + IF s[i] = v THEN 1 ELSE 0
  <1> DEFINE a == SubSeq(s, 1, i - 1)
             b == SubSeq(s, i + 1, Len(s))
             m == <<s[i]>>
             c == a \o m
  <1>1. Len(s) \in Nat /\ \A j \in 1..Len(s) : s[j] \in S
    BY LenProperties, ElementOfSeq
  <1>2. a \in Seq(S) /\ Len(a) = i - 1 /\ \A j \in 1..(i - 1) : a[j] = s[j]
    BY <1>1, SubSeqProperties
  <1>3. b \in Seq(S) /\ Len(b) = Len(s) - i /\ \A j \in 1..(Len(s) - i) : b[j] = s[i + j]
    BY <1>1, SubSeqProperties
  <1>4. m \in Seq(S) /\ Len(m) = 1 /\ m[1] = s[i]
    BY <1>1
  <1>5. \A v : Times(m, v) = IF s[i] = v THEN 1 ELSE 0
    BY TimesOne
  <1>6. RemoveAt(s, i) = a \o b
    BY DEF RemoveAt
  <1> HIDE DEF a, b, m
  <1>7. /\ c \in Seq(S) /\ Len(c) = i
        /\ \A j \in 1..i : c[j] = s[j]
    <2>1. a \in Seq(S) /\ m \in Seq(S) /\ i \in Nat /\ i = Len(a) + Len(m)
      BY <1>1, <1>2, <1>4
    <2>2. /\ c \in Seq(S) /\ Len(c) = i
          /\ \A j \in 1..Len(a) : c[j] = a[j]
          /\ \A j \in (Len(a) + 1)..i : c[j] = m[j - Len(a)]
      BY <2>1, Concatenated
    <2>3. ASSUME NEW j \in 1..i PROVE c[j] = s[j]
      <3>1. CASE j = i
        <4>1. j \in (Len(a) + 1)..i /\ j - Len(a) = 1
          BY <1>1, <1>2, <3>1
        <4>. QED
          BY <1>4, <2>2, <3>1, <4>1
      <3>2. CASE j # i
        <4>1. j \in 1..(i - 1) /\ j \in 1..Len(a)
          BY <1>1, <1>2, <3>2
        <4>. QED
          BY <1>2, <2>2, <4>1
      <3>. QED
        BY <3>1, <3>2
    <2>. QED
      BY <2>2, <2>3
  <1> HIDE DEF c
  <1>8. s = c \o b
    <2>1. /\ c \in Seq(S) /\ b \in Seq(S)
          /\ Len(s) \in Nat /\ Len(s) = Len(c) + Len(b)
      BY <1>1, <1>3, <1>7
    <2>2. /\ c \o b \in Seq(S) /\ Len(c \o b) = Len(s)
          /\ \A j \in 1..Len(c) : (c \o b)[j] = c[j]
          /\ \A j \in (Len(c) + 1)..Len(s) : (c \o b)[j] = b[j - Len(c)]
      BY <2>1, Concatenated
    <2>3. ASSUME NEW j \in 1..Len(s) PROVE (c \o b)[j] = s[j]
      <3>1. CASE j <= i
        <4>1. j \in 1..i
          BY <1>1, <3>1
        <4>. QED
          BY <1>7, <2>2, <4>1
      <3>2. CASE ~(j <= i)
        <4>1. /\ j - i \in 1..(Len(s) - i) /\ i + (j - i) = j
              /\ j \in (i + 1)..Len(s)
          BY <1>1, <3>2
        <4>. QED
          BY <1>3, <1>7, <2>2, <4>1
      <3>. QED
        BY <3>1, <3>2
    <2>. QED
      BY <2>2, <2>3, SeqEqual
  <1>9. a \o b \in Seq(S) /\ Len(a \o b) = Len(s) - 1
    <2>1. a \o b \in Seq(S) /\ Len(a \o b) = Len(a) + Len(b)
      BY <1>2, <1>3, ConcatProperties
    <2>. QED
      BY <1>1, <1>2, <1>3, <2>1
  <1>10. ASSUME NEW v
         PROVE Times(s, v) = Times(a \o b, v) + IF s[i] = v THEN 1 ELSE 0
    <2>1. Times(s, v) = Times(c, v) + Times(b, v)
      BY <1>3, <1>7, <1>8, TimesConcat
    <2>2. Times(c, v) = Times(a, v) + Times(m, v)
      BY <1>2, <1>4, TimesConcat DEF c
    <2>3. Times(a \o b, v) = Times(a, v) + Times(b, v)
      BY <1>2, <1>3, TimesConcat
    <2>4. Times(a, v) \in Nat /\ Times(b, v) \in Nat
      BY <1>2, <1>3, TimesType
    <2>. QED
      BY <1>5, <2>1, <2>2, <2>3, <2>4
  <1>. QED
    BY <1>6, <1>9, <1>10

LEMMA UpTo ==
    ASSUME NEW n \in Nat PROVE IsFiniteSet(1..n) /\ Cardinality(1..n) = n
  <1>1. IsFiniteSet(1..n) /\ Cardinality(1..n) = IF 1 > n THEN 0 ELSE n - 1 + 1
    BY FS_Interval
  <1>. QED
    BY <1>1

\* Two sequences with the same values as often are rearrangements of each
\* other: there is a bijection of their positions, and the bags are the same.
LEMMA Rearranged ==
    ASSUME NEW S, NEW s \in Seq(S), NEW t \in Seq(S),
           \A v \in S : Times(s, v) = Times(t, v)
    PROVE  /\ \E f \in Bijection(1..Len(t), 1..Len(s)) :
                 \A i \in 1..Len(t) : s[f[i]] = t[i]
           /\ Len(s) = Len(t)
           /\ ToBag(s) = ToBag(t)
  <1>1. /\ Len(s) \in Nat /\ DOMAIN s = 1..Len(s) /\ \A i \in 1..Len(s) : s[i] \in S
        /\ Len(t) \in Nat /\ DOMAIN t = 1..Len(t) /\ \A i \in 1..Len(t) : t[i] \in S
    BY LenProperties, ElementOfSeq
  <1> DEFINE pick(v) == CHOOSE b : b \in Bijection(Places(t, v), Places(s, v))
             f == [i \in 1..Len(t) |-> pick(t[i])[i]]
  <1>2. ASSUME NEW v \in S PROVE pick(v) \in Bijection(Places(t, v), Places(s, v))
    <2>1. IsFiniteSet(Places(t, v)) /\ IsFiniteSet(Places(s, v))
      BY TimesType
    <2>2. Cardinality(Places(t, v)) = Cardinality(Places(s, v))
      BY DEF Times
    <2>3. ExistsBijection(Places(t, v), Places(s, v))
      BY <2>1, <2>2, FS_SameCardinalityBij
    <2>4. \E b : b \in Bijection(Places(t, v), Places(s, v))
      BY <2>3 DEF ExistsBijection
    <2>. QED
      BY <2>4
  <1> HIDE DEF pick
  <1>3. ASSUME NEW v \in S
        PROVE  /\ \A i \in Places(t, v) : pick(v)[i] \in Places(s, v)
               /\ \A i, j \in Places(t, v) : pick(v)[i] = pick(v)[j] => i = j
               /\ \A k \in Places(s, v) : \E i \in Places(t, v) : pick(v)[i] = k
    <2>1. pick(v) \in Bijection(Places(t, v), Places(s, v))
      BY <1>2
    <2>. QED
      BY <2>1, Fun_BijectionProperties
  <1>4. ASSUME NEW i \in 1..Len(t) PROVE f[i] \in 1..Len(s) /\ s[f[i]] = t[i]
    <2>1. i \in Places(t, t[i]) /\ t[i] \in S
      BY <1>1 DEF Places
    <2>2. f[i] \in Places(s, t[i])
      BY <1>3, <2>1
    <2>. QED
      BY <1>1, <2>2 DEF Places
  <1>5. /\ f \in Bijection(1..Len(t), 1..Len(s))
        /\ \A k \in 1..Len(s) : \E i \in 1..Len(t) : f[i] = k
    <2>1. f \in [1..Len(t) -> 1..Len(s)]
      BY <1>4
    <2>2. ASSUME NEW i \in 1..Len(t), NEW j \in 1..Len(t), f[i] = f[j] PROVE i = j
      <3>1. t[i] = t[j] /\ t[i] \in S
        BY <1>1, <1>4, <2>2
      <3>2. i \in Places(t, t[i]) /\ j \in Places(t, t[i])
        BY <1>1, <3>1 DEF Places
      <3>3. pick(t[i])[i] = pick(t[i])[j]
        BY <2>2, <3>1
      <3>. QED
        BY <1>3, <3>1, <3>2, <3>3
    <2>3. ASSUME NEW k \in 1..Len(s) PROVE \E i \in 1..Len(t) : f[i] = k
      <3>1. s[k] \in S /\ k \in Places(s, s[k])
        BY <1>1 DEF Places
      <3>2. PICK i \in Places(t, s[k]) : pick(s[k])[i] = k
        BY <1>3, <3>1
      <3>3. i \in 1..Len(t) /\ t[i] = s[k]
        BY <1>1, <3>2 DEF Places
      <3>. QED
        BY <3>2, <3>3
    <2> HIDE DEF f
    <2>. QED
      BY <2>1, <2>2, <2>3, Fun_IsBij
  <1> HIDE DEF f
  <1>6. Len(s) = Len(t)
    <2>1. ExistsBijection(1..Len(t), 1..Len(s)) /\ IsFiniteSet(1..Len(t))
      BY <1>1, <1>5, FS_Interval DEF ExistsBijection
    <2>2. Cardinality(1..Len(s)) = Cardinality(1..Len(t))
      BY <2>1, FS_Bijection
    <2>3. Cardinality(1..Len(s)) = Len(s) /\ Cardinality(1..Len(t)) = Len(t)
      BY <1>1, UpTo
    <2>. QED
      BY <2>2, <2>3
  <1>7. ToBag(s) = ToBag(t)
    <2>1. Range(s) = Range(t)
      <3>1. Range(s) \subseteq Range(t)
        <4>1. \A k \in 1..Len(s) : \E i \in 1..Len(t) : f[i] = k
          BY <1>5
        <4>2. \A k \in 1..Len(s) : \E i \in 1..Len(t) : s[k] = t[i]
          BY <1>4, <4>1
        <4>. QED
          BY <1>1, <4>2 DEF Range
      <3>2. Range(t) \subseteq Range(s)
        BY <1>1, <1>4 DEF Range
      <3>. QED
        BY <3>1, <3>2
    <2>2. \A v \in Range(s) : v \in S
      BY <1>1 DEF Range
    <2>3. ToBag(s) = [v \in Range(s) |-> Times(s, v)]
      BY DEF ToBag, Times, Places
    <2>4. ToBag(t) = [v \in Range(t) |-> Times(t, v)]
      BY DEF ToBag, Times, Places
    <2>. QED
      BY <2>1, <2>2, <2>3, <2>4
  <1>. QED
    BY <1>4, <1>5, <1>6, <1>7

-----------------------------------------------------------------------------
(* Where the events are.                                                   *)

\* The types the argument needs: queue and logs hold events, the wires values.
Typed ==
    /\ expected \in Seq(Value)
    /\ wire \in [Labels -> Seq(Value)]
    /\ queue \in Seq(Event)
    /\ seen \in Seq(Event)
    /\ events \in Seq(Event)
    /\ arrived \in Seq(Event)

\* Where the events are: while a wait goes on, some of them are in its hands.
Drained ==
    /\ pc \in {"send", "judge"} => events \o queue = arrived
    /\ pc = "wait" => events \o (seen \o queue) = arrived

IInv == Typed /\ Drained

-----------------------------------------------------------------------------
(* Sequences.                                                              *)

\* An event that joins the queue joins whatever the queue is the end of.
LEMMA AppendedAtTheEnd ==
    ASSUME NEW S, NEW s \in Seq(S), NEW t \in Seq(S), NEW e \in S
    PROVE  /\ Append(t, e) \in Seq(S)
           /\ s \o Append(t, e) = Append(s \o t, e)
  <1>1. <<e>> \in Seq(S) /\ Append(t, e) = t \o <<e>> /\ Append(t, e) \in Seq(S)
    BY AppendProperties, AppendIsConcat
  <1>2. s \o t \in Seq(S)
    BY ConcatProperties
  <1>3. Append(s \o t, e) = (s \o t) \o <<e>>
    BY <1>2, AppendIsConcat
  <1>4. (s \o t) \o <<e>> = s \o (t \o <<e>>)
    BY <1>1, ConcatAssociative
  <1> QED
    BY <1>1, <1>3, <1>4

LEMMA ReplaceAtType ==
    ASSUME NEW S, NEW s \in Seq(S), NEW i \in 1..Len(s), NEW e \in S
    PROVE  ReplaceAt(s, i, e) \in Seq(S)
  BY ExceptSeq DEF ReplaceAt

LEMMA SwapType ==
    ASSUME NEW S, NEW s \in Seq(S), NEW i \in 1..Len(s), NEW j \in 1..Len(s)
    PROVE  Swap(s, i, j) \in Seq(S)
  <1>1. s[i] \in S /\ s[j] \in S
    BY ElementOfSeq
  <1>2. [s EXCEPT ![i] = s[j]] \in Seq(S) /\ Len([s EXCEPT ![i] = s[j]]) = Len(s)
    BY <1>1, ExceptSeq
  <1>3. [[s EXCEPT ![i] = s[j]] EXCEPT ![j] = s[i]] \in Seq(S)
    BY <1>1, <1>2, ExceptSeq
  <1>4. Swap(s, i, j) = [[s EXCEPT ![i] = s[j]] EXCEPT ![j] = s[i]]
    BY DEF Swap
  <1> QED
    BY <1>3, <1>4

-----------------------------------------------------------------------------
(* The invariant.                                                          *)

LEMMA Initially == Init => IInv
  <1> SUFFICES ASSUME Init PROVE IInv
    OBVIOUS
  <1>1. expected \in Seq(Value)
    BY ExchangeAssumption, IsASeq DEF Init
  <1>2. /\ <<>> \in Seq(Event)
        /\ <<>> \in Seq(Value)
        /\ <<>> \o <<>> = <<>>
    BY EmptySeq, ConcatEmptySeq
  <1>3. Typed
    BY <1>1, <1>2 DEF Init, Typed
  <1>4. Drained
    BY <1>2 DEF Init, Drained
  <1> QED
    BY <1>3, <1>4 DEF IInv

\* Whatever becomes of the echoes under way, they stay sequences of values.
LEMMA WireType ==
    ASSUME Typed, NEW c \in Labels, NEW i \in DOMAIN wire[c],
           \/ wire' = [wire EXCEPT ![c] = RemoveAt(@, i)]
           \/ Lose(c, i) \/ Duplicate(c, i) \/ Corrupt(c, i) \/ Reorder(c, i)
    PROVE  wire' \in [Labels -> Seq(Value)] /\ wire[c][i] \in Value
  <1>1. wire \in [Labels -> Seq(Value)] /\ wire[c] \in Seq(Value)
    BY DEF Typed
  <1>2. i \in 1..Len(wire[c]) /\ wire[c][i] \in Value
    BY <1>1, LenProperties, ElementOfSeq
  <1>3. RemoveAt(wire[c], i) \in Seq(Value)
    BY <1>1, <1>2, Removed
  <1>4. CASE wire' = [wire EXCEPT ![c] = RemoveAt(@, i)] \/ Lose(c, i)
    BY <1>1, <1>2, <1>3, <1>4 DEF Lose
  <1>5. CASE Duplicate(c, i)
    <2>1. Append(wire[c], wire[c][i]) \in Seq(Value)
      BY <1>1, <1>2, AppendProperties
    <2> QED
      BY <1>1, <1>2, <1>5, <2>1 DEF Duplicate
  <1>6. CASE Corrupt(c, i)
    <2>1. PICK v \in Value : wire' = [wire EXCEPT ![c] = ReplaceAt(@, i, v)]
      BY <1>6 DEF Corrupt
    <2>2. ReplaceAt(wire[c], i, v) \in Seq(Value)
      BY <1>1, <1>2, ReplaceAtType
    <2> QED
      BY <1>1, <1>2, <2>1, <2>2
  <1>7. CASE Reorder(c, i)
    <2>1. i + 1 \in 1..Len(wire[c])
      BY <1>1, <1>7, LenProperties DEF Reorder
    <2>2. Swap(wire[c], i, i + 1) \in Seq(Value)
      BY <1>1, <1>2, <2>1, SwapType
    <2> QED
      BY <1>1, <1>2, <1>7, <2>2 DEF Reorder
  <1> QED
    BY <1>4, <1>5, <1>6, <1>7

LEMMA Invariance == IInv /\ [Next]_vars => IInv'
  <1> SUFFICES ASSUME Typed, Drained, [Next]_vars PROVE IInv'
    BY DEF IInv
  <1> USE DEF scenario, harness, network
  <1>1. CASE Send
    <2>1. wire' \in [Labels -> Seq(Value)]
      <3>1. wire[active] \in Seq(Value) => wire[active] \o expected \in Seq(Value)
        BY ConcatProperties DEF Typed
      <3> QED
        BY <1>1, <3>1 DEF Send, Typed
    <2>2. seen' = <<>> /\ <<>> \in Seq(Event)
      BY <1>1, EmptySeq DEF Send
    <2>3. <<>> \o queue = queue
      BY ConcatEmptySeq DEF Typed
    <2>4. Typed'
      BY <1>1, <2>1, <2>2 DEF Send, Typed
    <2>5. Drained'
      BY <1>1, <2>2, <2>3 DEF Send, Drained
    <2> QED
      BY <2>4, <2>5 DEF IInv
  <1>2. CASE Poll
    <2> DEFINE log == seen \o queue
    <2>1. /\ log \in Seq(Event)
          /\ events \o log \in Seq(Event)
          /\ <<>> \in Seq(Event)
      BY ConcatProperties, EmptySeq DEF Typed
    <2>2. log \o <<>> = log /\ (events \o log) \o <<>> = events \o log
      BY <2>1, ConcatEmptySeq
    <2>3. events \o log = arrived /\ queue' = <<>> /\ arrived' = arrived
      BY <1>2 DEF Poll, Drained
    <2>4. \/ /\ pc' \in {"send", "judge"}
             /\ events' = events \o log
             /\ seen' = seen
          \/ /\ pc' = "wait"
             /\ seen' = log
             /\ events' = events
      BY <1>2 DEF Poll
    <2>5. expected' = expected /\ wire' = wire
      BY <1>2 DEF Poll
    <2> HIDE DEF log
    <2>6. Typed'
      BY <2>1, <2>3, <2>4, <2>5 DEF Typed
    <2>7. Drained'
      BY <2>2, <2>3, <2>4 DEF Drained
    <2> QED
      BY <2>6, <2>7 DEF IInv
  <1>3. CASE Timeout \/ JudgeTranscript
    BY <1>3 DEF Timeout, JudgeTranscript, Typed, Drained, IInv
  <1>4. ASSUME NEW c \in Labels, NEW i \in Positions, Deliver(c, i)
        PROVE  IInv'
    <2> DEFINE event == [label |-> c, value |-> wire[c][i]]
    <2>1. i \in DOMAIN wire[c] /\ wire' = [wire EXCEPT ![c] = RemoveAt(@, i)]
      BY <1>4 DEF Deliver
    <2>2. wire' \in [Labels -> Seq(Value)] /\ wire[c][i] \in Value
      BY <2>1, WireType
    <2>3. event \in Event
      BY <2>2 DEF Event
    <2>4. queue' = Append(queue, event) /\ arrived' = Append(arrived, event)
      BY <1>4 DEF Deliver
    <2>5. /\ expected' = expected /\ pc' = pc
          /\ seen' = seen /\ events' = events
      BY <1>4 DEF Deliver
    <2> HIDE DEF event
    <2>6. /\ queue' \in Seq(Event)
          /\ events \o queue' = Append(events \o queue, event)
          /\ seen \o queue' = Append(seen \o queue, event)
      <3>1. queue \in Seq(Event) /\ seen \in Seq(Event) /\ events \in Seq(Event)
        BY DEF Typed
      <3>2. /\ Append(queue, event) \in Seq(Event)
            /\ events \o Append(queue, event) = Append(events \o queue, event)
        BY <2>3, <3>1, AppendedAtTheEnd
      <3>3. seen \o Append(queue, event) = Append(seen \o queue, event)
        BY <2>3, <3>1, AppendedAtTheEnd
      <3> QED
        BY <2>4, <3>2, <3>3
    <2>7. /\ seen \o queue \in Seq(Event)
          /\ events \o Append(seen \o queue, event)
                = Append(events \o (seen \o queue), event)
      BY <2>3, ConcatProperties, AppendedAtTheEnd DEF Typed
    <2>8. arrived' \in Seq(Event)
      BY <2>3, <2>4, AppendProperties DEF Typed
    <2>9. Typed'
      BY <2>2, <2>5, <2>6, <2>8 DEF Typed
    <2>10. Drained'
      BY <2>4, <2>5, <2>6, <2>7 DEF Drained
    <2> QED
      BY <2>9, <2>10 DEF IInv
  <1>5. ASSUME NEW c \in Labels, NEW i \in Positions, Misbehave(c, i)
        PROVE  IInv'
    <2>1. wire' \in [Labels -> Seq(Value)]
      BY <1>5, WireType DEF Misbehave
    <2>2. /\ expected' = expected /\ pc' = pc /\ queue' = queue
          /\ seen' = seen /\ events' = events /\ arrived' = arrived
      BY <1>5 DEF Misbehave
    <2> QED
      BY <2>1, <2>2 DEF Typed, Drained, IInv
  <1>6. CASE UNCHANGED vars
    BY <1>6 DEF vars, Typed, Drained, IInv
  <1> QED
    BY <1>1, <1>2, <1>3, <1>4, <1>5, <1>6 DEF Next, Harness

\* For any number of channels, messages and misbehaviours, whatever arrives
\* between which polls: when the transcript is judged, events.ndjson and the
\* queue hold exactly what arrived, in its order (wait_for_messages and the
\* peer's drain_events).
THEOREM NoEventLost == Spec => []EventLogComplete
  <1>1. IInv => EventLogComplete
    BY DEF IInv, Drained, EventLogComplete
  <1> QED
    BY <1>1, Initially, Invariance, PTL DEF Spec

-----------------------------------------------------------------------------
(* Sequences put together.                                                 *)

\* Two sequences that together equal two that are no longer, equal them each.
LEMMA ConcatSplit ==
    ASSUME NEW S, NEW a \in Seq(S), NEW b \in Seq(S),
           NEW c \in Seq(S), NEW d \in Seq(S),
           a \o b = c \o d, Len(a) >= Len(c), Len(b) >= Len(d)
    PROVE  a = c /\ b = d
  <1> DEFINE n == Len(a) + Len(b)
             e == a \o b
  <1>1. /\ Len(a) \in Nat /\ Len(b) \in Nat
        /\ Len(c) \in Nat /\ Len(d) \in Nat /\ n \in Nat
    BY LenProperties
  <1>2. /\ Len(e) = n
        /\ \A i \in 1..Len(a) : e[i] = a[i]
        /\ \A i \in (Len(a) + 1)..n : e[i] = b[i - Len(a)]
    BY <1>1, Concatenated
  <1>3. Len(e) = Len(c) + Len(d)
    BY ConcatProperties
  <1>4. Len(a) = Len(c) /\ Len(b) = Len(d) /\ n = Len(c) + Len(d)
    BY <1>1, <1>2, <1>3
  <1>5. /\ \A i \in 1..Len(c) : e[i] = c[i]
        /\ \A i \in (Len(c) + 1)..n : e[i] = d[i - Len(c)]
    BY <1>1, <1>4, Concatenated
  <1> HIDE DEF e
  <1>6. a = c
    BY <1>2, <1>4, <1>5, SeqEqual
  <1>7. ASSUME NEW i \in 1..Len(b) PROVE b[i] = d[i]
    <2>1. Len(a) + i \in (Len(a) + 1)..n /\ (Len(a) + i) - Len(a) = i
      BY <1>1
    <2> HIDE DEF n
    <2>. QED
      BY <1>2, <1>4, <1>5, <2>1
  <1>8. b = d
    BY <1>4, <1>7, SeqEqual
  <1>. QED
    BY <1>6, <1>8

\* The recursion of FlattenSeq up to the m-th sequence.
Flattening(seqs, m, whole) ==
    whole = [i \in 1..m |-> IF i = 1 THEN seqs[i] ELSE whole[i - 1] \o seqs[i]]

LEMMA FlatteningSolved ==
    ASSUME NEW seqs, NEW k \in Nat
    PROVE  \E whole : Flattening(seqs, k, whole)
  <1> DEFINE T == {m \in 0..k : \E whole : Flattening(seqs, m, whole)}
  <1>1. 0 \in T
    <2>1. Flattening(seqs, 0, [i \in 1..0 |-> <<>>])
      BY DEF Flattening
    <2>2. 0 \in 0..k
      OBVIOUS
    <2>. QED
      BY <2>1, <2>2
  <1>2. ASSUME NEW m \in 0..k, m < k, m \in T PROVE m + 1 \in T
    <2>1. PICK f : Flattening(seqs, m, f)
      BY <1>2
    <2> DEFINE step(i, h) == IF i = 1 THEN seqs[i] ELSE h[i - 1] \o seqs[i]
               g == [i \in 1..(m + 1) |-> IF i <= m THEN f[i] ELSE step(i, f)]
    <2>2. \A i \in 1..m : f[i] = step(i, f)
      BY <2>1 DEF Flattening
    <2>3. \A i \in 1..m : g[i] = f[i]
      OBVIOUS
    <2>4. g[m + 1] = step(m + 1, f)
      OBVIOUS
    <2>5. \A i \in 1..(m + 1) : step(i, g) = step(i, f)
      <3> SUFFICES ASSUME NEW i \in 1..(m + 1), i # 1 PROVE g[i - 1] = f[i - 1]
        OBVIOUS
      <3>. QED
        BY <2>3
    <2>6. \A i \in 1..(m + 1) : g[i] = step(i, g)
      <3> SUFFICES ASSUME NEW i \in 1..(m + 1) PROVE g[i] = step(i, f)
        BY <2>5
      <3>1. CASE i <= m
        BY <2>2, <2>3, <3>1
      <3>2. CASE i = m + 1
        BY <2>4, <3>2
      <3>. QED
        BY <3>1, <3>2
    <2>7. g = [i \in 1..(m + 1) |-> step(i, g)]
      <3>1. g = [i \in 1..(m + 1) |-> g[i]]
        OBVIOUS
      <3> HIDE DEF g, step
      <3>. QED
        BY <2>6, <3>1
    <2>8. Flattening(seqs, m + 1, g)
      BY <2>7 DEF Flattening
    <2>9. m + 1 \in 0..k
      BY <1>2
    <2>. QED
      BY <2>8, <2>9
  <1>3. k \in T
    <2> HIDE DEF T
    <2>1. \A m \in 0..k : m \in T
      BY <1>1, <1>2, Induction
    <2>. QED
      BY <2>1
  <1>. QED
    BY <1>3

-----------------------------------------------------------------------------
(* Transcripts.                                                            *)

Highest == Cardinality(Labels)

\* The records of a transcript: each with the digest of its own payload.
Honest == {r \in MessageRecord : r.digest = r.value.payload}

LEMMA RecordsHonest ==
    ASSUME NEW c \in Labels, NEW values \in Seq(Value)
    PROVE  /\ Records(c, values) \in Seq(Honest)
           /\ Len(Records(c, values)) = Len(values)
           /\ \A i \in 1..Len(values) :
                 /\ Records(c, values)[i].channel = c
                 /\ Records(c, values)[i].value = values[i]
                 /\ Records(c, values)[i].digest = values[i].payload
  <1> DEFINE record(i) == [channel |-> c, sequence |-> i, value |-> values[i],
                           digest |-> values[i].payload]
             rs == [i \in 1..Len(values) |-> record(i)]
  <1>1. Len(values) \in Nat /\ \A i \in 1..Len(values) : values[i] \in Value
    BY LenProperties, ElementOfSeq
  <1>2. \A i \in 1..Len(values) : record(i) \in Honest
    BY <1>1 DEF Value, MessageRecord, Honest
  <1>3. \A i \in 1..Len(values) :
          /\ record(i).channel = c
          /\ record(i).value = values[i]
          /\ record(i).digest = values[i].payload
    OBVIOUS
  <1> HIDE DEF record
  <1>4. rs \in Seq(Honest) /\ Len(rs) = Len(values)
    BY <1>1, <1>2, IsASeq
  <1>5. \A i \in 1..Len(values) : rs[i] = record(i)
    OBVIOUS
  <1>6. Records(c, values) = rs
    BY DEF Records, record
  <1>. QED
    BY <1>3, <1>4, <1>5, <1>6

\* A transcript grows by the records of one channel after the other.
Grows(values, whole) ==
    /\ whole[1] = Records(1, values[1])
    /\ \A c \in 2..Highest : whole[c] = whole[c - 1] \o Records(c, values[c])

LEMMA TranscriptGrows ==
    ASSUME NEW values \in [Labels -> Seq(Value)]
    PROVE  \E whole : Grows(values, whole) /\ Transcript(values) = whole[Highest]
  <1> DEFINE seqs == [c \in 1..Highest |-> Records(c, values[c])]
             whole == CHOOSE whole : Flattening(seqs, Highest, whole)
  <1>1. Highest \in Nat /\ Highest # 0
    BY ExchangeAssumption DEF Highest
  <1>2. Len(seqs) = Highest /\ DOMAIN seqs = 1..Highest
    BY <1>1
  <1>3. Flattening(seqs, Highest, whole)
    BY <1>1, FlatteningSolved
  <1>4. Transcript(values) = FlattenSeq(seqs)
    BY DEF Transcript, Highest
  <1>5. \A c \in 1..Highest : seqs[c] = Records(c, values[c])
    OBVIOUS
  <1> HIDE DEF seqs
  <1>6. FlattenSeq(seqs) = whole[Highest]
    BY <1>1, <1>2 DEF FlattenSeq, Flattening
  <1> HIDE DEF whole
  <1>7. \A i \in 1..Highest :
          whole[i] = IF i = 1 THEN seqs[i] ELSE whole[i - 1] \o seqs[i]
    BY <1>3 DEF Flattening
  <1>8. Grows(values, whole)
    <2>1. 1 \in 1..Highest
      BY <1>1
    <2>2. \A c \in 2..Highest : c \in 1..Highest /\ c # 1
      BY <1>1
    <2>. QED
      BY <1>5, <1>7, <2>1, <2>2 DEF Grows
  <1>. QED
    BY <1>4, <1>6, <1>8

LEMMA GrowsType ==
    ASSUME NEW values \in [Labels -> Seq(Value)], NEW whole, Grows(values, whole)
    PROVE  \A c \in Labels : whole[c] \in Seq(Honest)
  <1>1. Highest \in Nat /\ Highest # 0 /\ Labels = 1..Highest
    BY ExchangeAssumption DEF Highest
  <1>2. \A c \in Labels : Records(c, values[c]) \in Seq(Honest)
    BY RecordsHonest
  <1> DEFINE n == Highest - 1
             T == {m \in 0..n : whole[m + 1] \in Seq(Honest)}
  <1>3. n \in Nat /\ 0 \in 0..n /\ 1 \in Labels
    BY <1>1
  <1>4. 0 \in T
    BY <1>2, <1>3 DEF Grows
  <1>5. ASSUME NEW m \in 0..n, m < n, m \in T PROVE m + 1 \in T
    <2>1. m + 2 \in 2..Highest /\ m + 2 \in Labels /\ (m + 2) - 1 = m + 1
          /\ (m + 1) + 1 = m + 2 /\ m + 1 \in 0..n
      BY <1>1, <1>5
    <2>2. whole[m + 2] = whole[m + 1] \o Records(m + 2, values[m + 2])
      BY <2>1 DEF Grows
    <2>3. whole[m + 1] \in Seq(Honest) /\ Records(m + 2, values[m + 2]) \in Seq(Honest)
      BY <1>2, <1>5, <2>1
    <2>4. whole[m + 2] \in Seq(Honest)
      BY <2>2, <2>3, ConcatProperties
    <2>. QED
      BY <2>1, <2>4
  <1>6. \A m \in 0..n : m \in T
    <2> HIDE DEF T, n
    <2>. QED
      BY <1>3, <1>4, <1>5, Induction
  <1>7. ASSUME NEW c \in Labels PROVE whole[c] \in Seq(Honest)
    <2>1. c - 1 \in 0..n /\ (c - 1) + 1 = c
      BY <1>1
    <2>. QED
      BY <1>6, <2>1
  <1>. QED
    BY <1>7

-----------------------------------------------------------------------------
(* What the ordered oracle says of two transcripts.                        *)

LEMMA OrderedOracleExact ==
    ASSUME NEW sent \in Seq(Honest), NEW received \in Seq(Honest)
    PROVE  CompareOrdered(sent, received) = "PASS" <=> sent = received
  <1> DEFINE upTo == Smaller(Len(sent), Len(received))
  <1>1. ASSUME sent = received PROVE OrderedFailures(sent, received) = {}
    BY <1>1 DEF OrderedFailures, Smaller
  <1>2. ASSUME OrderedFailures(sent, received) = {} PROVE sent = received
    <2>1. Len(sent) = Len(received)
      BY <1>2 DEF OrderedFailures
    <2>2. upTo = Len(sent)
      BY <2>1 DEF Smaller
    <2>3. \A j \in 1..upTo : sent[j] = received[j]
      BY <1>2 DEF OrderedFailures
    <2>. QED
      BY <2>1, <2>2, <2>3, SeqEqual
  <1>. QED
    BY <1>1, <1>2 DEF CompareOrdered, Judge

\* A transcript that equals a shorter one channel by channel, in every channel
\* no shorter, has the same values on each channel.
LEMMA SameTranscriptSameValues ==
    ASSUME NEW a \in [Labels -> Seq(Value)], NEW b \in [Labels -> Seq(Value)],
           \A c \in Labels : Len(a[c]) >= Len(b[c]),
           Transcript(a) = Transcript(b)
    PROVE  a = b
  <1>1. Highest \in Nat /\ Highest # 0 /\ Labels = 1..Highest
    BY ExchangeAssumption DEF Highest
  <1>2. PICK A : Grows(a, A) /\ Transcript(a) = A[Highest]
    BY TranscriptGrows
  <1>3. PICK B : Grows(b, B) /\ Transcript(b) = B[Highest]
    BY TranscriptGrows
  <1>4. \A c \in Labels : A[c] \in Seq(Honest) /\ B[c] \in Seq(Honest)
    BY <1>2, <1>3, GrowsType
  <1>5. \A c \in Labels : a[c] \in Seq(Value) /\ b[c] \in Seq(Value)
    OBVIOUS
  <1>6. \A c \in Labels :
          /\ Records(c, a[c]) \in Seq(Honest) /\ Records(c, b[c]) \in Seq(Honest)
          /\ Len(Records(c, a[c])) >= Len(Records(c, b[c]))
    BY <1>5, RecordsHonest
  <1>7. ASSUME NEW c \in Labels, Records(c, a[c]) = Records(c, b[c])
        PROVE  a[c] = b[c]
    <2>1. /\ Len(a[c]) = Len(b[c])
          /\ \A i \in 1..Len(a[c]) : a[c][i] = b[c][i]
      BY <1>5, <1>7, RecordsHonest
    <2>. QED
      BY <1>5, <2>1, SeqEqual
  <1> DEFINE n == Highest - 1
             T == {m \in 0..n :
                     /\ Len(A[m + 1]) >= Len(B[m + 1])
                     /\ A[m + 1] = B[m + 1] => \A c \in 1..(m + 1) : a[c] = b[c]}
  <1>8. n \in Nat /\ 0 \in 0..n /\ 1 \in Labels
    BY <1>1
  <1>9. 0 \in T
    <2>1. A[1] = Records(1, a[1]) /\ B[1] = Records(1, b[1])
      BY <1>2, <1>3 DEF Grows
    <2>2. A[1] = B[1] => a[1] = b[1]
      BY <1>7, <1>8, <2>1
    <2>3. Len(A[1]) >= Len(B[1])
      BY <1>6, <1>8, <2>1
    <2>4. 0 + 1 = 1 /\ \A c \in 1..(0 + 1) : c = 1
      OBVIOUS
    <2>. QED
      BY <1>8, <2>2, <2>3, <2>4
  <1>10. ASSUME NEW m \in 0..n, m < n, m \in T PROVE m + 1 \in T
    <2> DEFINE k == m + 1
               l == m + 2
               ra == Records(l, a[l])
               rb == Records(l, b[l])
    <2>1. /\ l \in 2..Highest /\ k \in Labels /\ l \in Labels /\ l - 1 = k
          /\ k + 1 = l /\ k \in 0..n /\ k = m + 1
      BY <1>1, <1>10
    <2>2. A[l] = A[k] \o ra /\ B[l] = B[k] \o rb
      BY <1>2, <1>3, <2>1 DEF Grows
    <2>3. ra \in Seq(Honest) /\ rb \in Seq(Honest) /\ Len(ra) >= Len(rb)
      BY <1>6, <2>1
    <2>4. Len(A[k]) >= Len(B[k]) /\ (A[k] = B[k] => \A c \in 1..k : a[c] = b[c])
      BY <1>10, <2>1
    <2>5. A[k] \in Seq(Honest) /\ B[k] \in Seq(Honest)
      BY <1>4, <2>1
    <2>6. ra = rb => a[l] = b[l]
      BY <1>7, <2>1
    <2>7. \A c \in 1..l : c \in 1..k \/ c = l
      BY <2>1
    <2> HIDE DEF k, l, ra, rb
    <2>8. Len(A[l]) >= Len(B[l])
      <3>1. Len(A[l]) = Len(A[k]) + Len(ra) /\ Len(B[l]) = Len(B[k]) + Len(rb)
        BY <2>2, <2>3, <2>5, ConcatProperties
      <3>2. /\ Len(A[k]) \in Nat /\ Len(ra) \in Nat
            /\ Len(B[k]) \in Nat /\ Len(rb) \in Nat
        BY <2>3, <2>5, LenProperties
      <3>. QED
        BY <2>3, <2>4, <3>1, <3>2
    <2>9. ASSUME A[l] = B[l] PROVE \A c \in 1..l : a[c] = b[c]
      <3>1. A[k] = B[k] /\ ra = rb
        <4>1. A[k] \o ra = B[k] \o rb
          BY <2>2, <2>9
        <4>. QED
          BY <2>3, <2>4, <2>5, <4>1, ConcatSplit
      <3>. QED
        BY <2>4, <2>6, <2>7, <3>1
    <2>10. Len(A[k + 1]) >= Len(B[k + 1])
           /\ (A[k + 1] = B[k + 1] => \A c \in 1..(k + 1) : a[c] = b[c])
      BY <2>1, <2>8, <2>9
    <2>. QED
      BY <2>1, <2>10
  <1>11. \A m \in 0..n : m \in T
    <2> HIDE DEF T, n
    <2>. QED
      BY <1>8, <1>9, <1>10, Induction
  <1>12. \A c \in 1..Highest : a[c] = b[c]
    <2>1. n \in 0..n /\ n + 1 = Highest
      BY <1>1
    <2>2. n \in T
      BY <1>11, <2>1
    <2>3. A[n + 1] = B[n + 1] => \A c \in 1..(n + 1) : a[c] = b[c]
      BY <2>2
    <2> HIDE DEF n, T
    <2>. QED
      BY <1>2, <1>3, <2>1, <2>3
  <1>. QED
    BY <1>1, <1>12

-----------------------------------------------------------------------------
(* What the unordered oracle says of two transcripts.                      *)

Keyed(records) == [i \in 1..Len(records) |-> Key(records[i])]

LEMMA KeyedType ==
    ASSUME NEW s \in Seq(Honest)
    PROVE  /\ Keyed(s) \in Seq({Key(r) : r \in Honest})
           /\ Len(Keyed(s)) = Len(s)
           /\ \A i \in 1..Len(s) : Keyed(s)[i] = Key(s[i])
           /\ \A k : Occurrences(s, k) = Times(Keyed(s), k)
           /\ \A k : Occurrences(s, k) \in Nat
  <1> DEFINE K == {Key(r) : r \in Honest}
  <1>1. Len(s) \in Nat /\ \A i \in 1..Len(s) : Key(s[i]) \in K
    BY LenProperties, ElementOfSeq
  <1> HIDE DEF K
  <1>2. Keyed(s) \in Seq(K) /\ Len(Keyed(s)) = Len(s)
    BY <1>1, IsASeq DEF Keyed
  <1>3. DOMAIN Keyed(s) = 1..Len(s) /\ \A i \in 1..Len(s) : Keyed(s)[i] = Key(s[i])
    BY DEF Keyed
  <1>4. ASSUME NEW k
        PROVE  Occurrences(s, k) = Times(Keyed(s), k) /\ Occurrences(s, k) \in Nat
    <2>1. {i \in 1..Len(s) : Key(s[i]) = k} = Places(Keyed(s), k)
      BY <1>3 DEF Places
    <2>2. Times(Keyed(s), k) \in Nat
      BY <1>2, TimesType
    <2>. QED
      BY <2>1, <2>2 DEF Occurrences, Times
  <1>. QED
    BY <1>2, <1>3, <1>4 DEF K

LEMMA OccurrencesConcat ==
    ASSUME NEW s \in Seq(Honest), NEW t \in Seq(Honest), NEW k
    PROVE  Occurrences(s \o t, k) = Occurrences(s, k) + Occurrences(t, k)
  <1> DEFINE K == {Key(r) : r \in Honest}
             n == Len(s) + Len(t)
             both == Keyed(s) \o Keyed(t)
  <1>1. Len(s) \in Nat /\ Len(t) \in Nat /\ n \in Nat
    BY LenProperties
  <1>2. /\ s \o t \in Seq(Honest) /\ Len(s \o t) = n
        /\ \A i \in 1..Len(s) : (s \o t)[i] = s[i]
        /\ \A i \in (Len(s) + 1)..n : (s \o t)[i] = t[i - Len(s)]
    BY <1>1, Concatenated
  <1>3. /\ Keyed(s) \in Seq(K) /\ Len(Keyed(s)) = Len(s)
        /\ \A i \in 1..Len(s) : Keyed(s)[i] = Key(s[i])
        /\ Keyed(t) \in Seq(K) /\ Len(Keyed(t)) = Len(t)
        /\ \A i \in 1..Len(t) : Keyed(t)[i] = Key(t[i])
        /\ Keyed(s \o t) \in Seq(K) /\ Len(Keyed(s \o t)) = n
        /\ \A i \in 1..n : Keyed(s \o t)[i] = Key((s \o t)[i])
    BY <1>2, KeyedType
  <1>4. /\ Occurrences(s, k) = Times(Keyed(s), k)
        /\ Occurrences(t, k) = Times(Keyed(t), k)
        /\ Occurrences(s \o t, k) = Times(Keyed(s \o t), k)
    BY <1>2, KeyedType
  <1> HIDE DEF K
  <1>5. /\ both \in Seq(K) /\ Len(both) = n
        /\ \A i \in 1..Len(s) : both[i] = Keyed(s)[i]
        /\ \A i \in (Len(s) + 1)..n : both[i] = Keyed(t)[i - Len(s)]
    <2>1. Keyed(s) \in Seq(K) /\ Keyed(t) \in Seq(K) /\ n \in Nat
          /\ n = Len(Keyed(s)) + Len(Keyed(t))
      BY <1>1, <1>3
    <2> HIDE DEF n
    <2>2. /\ both \in Seq(K) /\ Len(both) = n
          /\ \A i \in 1..Len(Keyed(s)) : both[i] = Keyed(s)[i]
          /\ \A i \in (Len(Keyed(s)) + 1)..n : both[i] = Keyed(t)[i - Len(Keyed(s))]
      BY <2>1, Concatenated
    <2>. QED
      BY <1>3, <2>2
  <1>6. ASSUME NEW i \in 1..n PROVE Keyed(s \o t)[i] = both[i]
    <2>1. CASE i \in 1..Len(s)
      BY <1>2, <1>3, <1>5, <2>1
    <2>2. CASE ~(i \in 1..Len(s))
      <3>1. i \in (Len(s) + 1)..n /\ i - Len(s) \in 1..Len(t)
        BY <1>1, <2>2
      <3> HIDE DEF n, both
      <3>. QED
        BY <1>2, <1>3, <1>5, <3>1
    <2>. QED
      BY <2>1, <2>2
  <1>7. Keyed(s \o t) = both
    <2> HIDE DEF n, both
    <2>. QED
      BY <1>3, <1>5, <1>6, SeqEqual
  <1>. QED
    BY <1>3, <1>4, <1>7, TimesConcat

KeyOf(c, v) == [channel |-> c, value |-> v, digest |-> v.payload]

\* A value is as often in the records of its channel as in its values.
LEMMA OccurrencesInRecords ==
    ASSUME NEW c \in Labels, NEW values \in Seq(Value), NEW d \in Labels, NEW v
    PROVE  Occurrences(Records(c, values), KeyOf(d, v)) =
               IF c = d THEN Times(values, v) ELSE 0
  <1> DEFINE rs == Records(c, values)
  <1>1. /\ Len(rs) = Len(values) /\ DOMAIN values = 1..Len(values)
        /\ \A i \in 1..Len(values) :
              /\ rs[i].channel = c
              /\ rs[i].value = values[i]
              /\ rs[i].digest = values[i].payload
    BY RecordsHonest, LenProperties
  <1> HIDE DEF rs
  <1>2. \A i \in 1..Len(values) : Key(rs[i]) = KeyOf(c, values[i])
    BY <1>1 DEF Key, KeyOf
  <1>3. \A w : KeyOf(c, w) = KeyOf(d, v) <=> c = d /\ w = v
    <2> TAKE w
    <2>1. KeyOf(c, w).channel = c /\ KeyOf(c, w).value = w
      BY DEF KeyOf
    <2>2. KeyOf(d, v).channel = d /\ KeyOf(d, v).value = v
      BY DEF KeyOf
    <2>. QED
      BY <2>1, <2>2
  <1>4. {i \in 1..Len(rs) : Key(rs[i]) = KeyOf(d, v)} =
            IF c = d THEN Places(values, v) ELSE {}
    BY <1>1, <1>2, <1>3 DEF Places
  <1>. QED
    BY <1>4, FS_EmptySet DEF Occurrences, Times, rs

\* A value is as often in a transcript as on its channel.
LEMMA OccurrencesInTranscript ==
    ASSUME NEW values \in [Labels -> Seq(Value)], NEW d \in Labels, NEW v
    PROVE  Occurrences(Transcript(values), KeyOf(d, v)) = Times(values[d], v)
  <1> DEFINE k == KeyOf(d, v)
  <1>1. Highest \in Nat /\ Highest # 0 /\ Labels = 1..Highest
    BY ExchangeAssumption DEF Highest
  <1>2. PICK whole : Grows(values, whole) /\ Transcript(values) = whole[Highest]
    BY TranscriptGrows
  <1>3. \A c \in Labels : whole[c] \in Seq(Honest)
    BY <1>2, GrowsType
  <1>4. \A c \in Labels :
          /\ Records(c, values[c]) \in Seq(Honest)
          /\ Occurrences(Records(c, values[c]), k) =
                 IF c = d THEN Times(values[d], v) ELSE 0
    BY RecordsHonest, OccurrencesInRecords
  <1>5. Times(values[d], v) \in Nat
    BY TimesType
  <1> HIDE DEF k
  <1> DEFINE n == Highest - 1
             T == {m \in 0..n : Occurrences(whole[m + 1], k) =
                                    IF d <= m + 1 THEN Times(values[d], v) ELSE 0}
  <1>6. n \in Nat /\ 0 \in 0..n /\ 1 \in Labels
    BY <1>1
  <1>7. 0 \in T
    <2>1. whole[1] = Records(1, values[1])
      BY <1>2 DEF Grows
    <2>2. 1 = d <=> d <= 1
      BY <1>1
    <2>3. Occurrences(whole[1], k) = IF d <= 1 THEN Times(values[d], v) ELSE 0
      BY <1>4, <1>6, <2>1, <2>2
    <2>. QED
      BY <1>6, <2>3
  <1>8. ASSUME NEW m \in 0..n, m < n, m \in T PROVE m + 1 \in T
    <2> DEFINE j == m + 1
               l == m + 2
               rs == Records(l, values[l])
    <2>1. /\ l \in 2..Highest /\ j \in Labels /\ l \in Labels /\ l - 1 = j
          /\ j + 1 = l /\ j \in 0..n /\ j = m + 1
      BY <1>1, <1>8
    <2>2. whole[l] = whole[j] \o rs
      BY <1>2, <2>1 DEF Grows
    <2>3. Occurrences(whole[j], k) = IF d <= j THEN Times(values[d], v) ELSE 0
      BY <1>8, <2>1
    <2>4. /\ rs \in Seq(Honest)
          /\ Occurrences(rs, k) = IF l = d THEN Times(values[d], v) ELSE 0
      BY <1>4, <2>1
    <2>5. /\ d <= l <=> (d <= j \/ l = d)
          /\ ~(d <= j /\ l = d)
      BY <1>1, <2>1
    <2>6. whole[j] \in Seq(Honest)
      BY <1>3, <2>1
    <2> HIDE DEF j, l, rs
    <2>7. Occurrences(whole[l], k) = Occurrences(whole[j], k) + Occurrences(rs, k)
      BY <2>2, <2>4, <2>6, OccurrencesConcat
    <2>8. Occurrences(whole[l], k) = IF d <= l THEN Times(values[d], v) ELSE 0
      BY <1>5, <2>3, <2>4, <2>5, <2>7
    <2>. QED
      BY <2>1, <2>8
  <1>9. \A m \in 0..n : m \in T
    <2> HIDE DEF T, n
    <2>. QED
      BY <1>6, <1>7, <1>8, Induction
  <1>10. n \in 0..n /\ n + 1 = Highest /\ d <= n + 1
    BY <1>1
  <1>11. n \in T
    BY <1>9, <1>10
  <1>. QED
    BY <1>2, <1>10, <1>11 DEF k

\* The unordered oracle accepts a transcript exactly when every value is as
\* often on every channel as it was sent there (compare_unordered).
THEOREM UnorderedOracleExact ==
    ASSUME NEW a \in [Labels -> Seq(Value)], NEW b \in [Labels -> Seq(Value)]
    PROVE  CompareUnordered(Transcript(a), Transcript(b)) = "PASS" <=>
               \A c \in Labels, v \in Value : Times(a[c], v) = Times(b[c], v)
  <1> DEFINE s == Transcript(a)
             r == Transcript(b)
  <1>1. s \in Seq(Honest) /\ r \in Seq(Honest)
    <2>1. Highest \in Labels
      BY ExchangeAssumption DEF Highest
    <2>2. PICK A : Grows(a, A) /\ s = A[Highest]
      BY TranscriptGrows
    <2>3. PICK B : Grows(b, B) /\ r = B[Highest]
      BY TranscriptGrows
    <2>. QED
      BY <2>1, <2>2, <2>3, GrowsType
  <1>2. \A c \in Labels, v \in Value :
          /\ Occurrences(s, KeyOf(c, v)) = Times(a[c], v)
          /\ Occurrences(r, KeyOf(c, v)) = Times(b[c], v)
    BY OccurrencesInTranscript
  <1> HIDE DEF s, r
  <1>3. \A t \in Seq(Honest) :
          \A k \in Keys(t) : \E c \in Labels, v \in Value : k = KeyOf(c, v)
    <2> SUFFICES ASSUME NEW t \in Seq(Honest), NEW i \in 1..Len(t)
                 PROVE  \E c \in Labels, v \in Value : Key(t[i]) = KeyOf(c, v)
      BY DEF Keys
    <2>1. t[i] \in Honest
      BY ElementOfSeq
    <2>2. /\ t[i].channel \in Labels /\ t[i].value \in Value
          /\ t[i].digest = t[i].value.payload
      BY <2>1 DEF Honest, MessageRecord
    <2>. QED
      BY <2>2 DEF Key, KeyOf
  <1>4. \A t \in Seq(Honest) : \A k : k \notin Keys(t) => Occurrences(t, k) = 0
    <2> SUFFICES ASSUME NEW t \in Seq(Honest), NEW k, k \notin Keys(t)
                 PROVE  {i \in 1..Len(t) : Key(t[i]) = k} = {}
      BY FS_EmptySet DEF Occurrences
    <2>. QED
      BY DEF Keys
  <1>5. UnorderedFailures(s, r) = {} <=>
            \A k \in Keys(s) \cup Keys(r) : Occurrences(s, k) = Occurrences(r, k)
    BY DEF UnorderedFailures
  <1>6. ASSUME \A c \in Labels, v \in Value : Times(a[c], v) = Times(b[c], v),
               NEW k \in Keys(s) \cup Keys(r)
        PROVE  Occurrences(s, k) = Occurrences(r, k)
    <2>1. PICK c \in Labels, v \in Value : k = KeyOf(c, v)
      BY <1>1, <1>3
    <2>. QED
      BY <1>2, <1>6, <2>1
  <1>7. ASSUME \A k \in Keys(s) \cup Keys(r) : Occurrences(s, k) = Occurrences(r, k),
               NEW c \in Labels, NEW v \in Value
        PROVE  Times(a[c], v) = Times(b[c], v)
    <2>1. Occurrences(s, KeyOf(c, v)) = Occurrences(r, KeyOf(c, v))
      BY <1>1, <1>4, <1>7
    <2>. QED
      BY <1>2, <2>1
  <1>. QED
    BY <1>5, <1>6, <1>7 DEF CompareUnordered, Judge, s, r

-----------------------------------------------------------------------------
(* Why a verdict is right.                                                 *)

\* Before a channel's turn nothing has happened on it.
Untouched(c) == c > active \/ (c = active /\ pc = "send")

Shape ==
    /\ ordered \in BOOLEAN
    /\ expected \in [1..Count -> Value]
    /\ active \in 1..(Highest + 1)
    /\ pc \in {"send", "wait", "judge", "done"}
    /\ pc \in {"send", "wait"} => active \in Labels
    /\ pc = "judge" => active = Highest + 1
    /\ actual \in [Labels -> Seq(Value)]
    /\ verdict \in {"none", "PASS", "FAIL"}
    /\ timedOut \in BOOLEAN
    /\ faults \in 0..MaxFaults

\* Whatever is held against the sent values is the beginning of what has
\* arrived on the channel, and is long enough; a wait finds in its hands and
\* in the queue whatever has arrived on its channel.
Channels ==
    /\ \A c \in Labels : ReceivedValues(arrived, c) \in Seq(Value)
    /\ \A c \in Labels : Untouched(c) =>
          /\ wire[c] = <<>>
          /\ ReceivedValues(arrived, c) = <<>>
          /\ ReceivedValues(queue, c) = <<>>
    /\ pc = "wait" =>
          ReceivedValues(seen \o queue, active) = ReceivedValues(arrived, active)
    /\ \A c \in Labels : c < active =>
          /\ Len(actual[c]) \in Count..Len(ReceivedValues(arrived, c))
          /\ \A i \in 1..Len(actual[c]) :
                actual[c][i] = ReceivedValues(arrived, c)[i]

\* A faultless echo sends back what it got: what has arrived and what is under
\* way is what was sent.
Faultless ==
    faults = 0 => \A c \in Labels : ~Untouched(c) =>
        /\ ordered => ReceivedValues(arrived, c) \o wire[c] = expected
        /\ Len(ReceivedValues(arrived, c)) + Len(wire[c]) = Count
        /\ \A v \in Value :
              Times(ReceivedValues(arrived, c), v) + Times(wire[c], v)
                  = Times(expected, v)

\* The verdict is a timeout's, or the oracle's on the channels' values.
Judged ==
    /\ pc # "done" => verdict = "none" /\ ~timedOut
    /\ pc = "done" => \/ timedOut /\ verdict = "FAIL"
                      \/ /\ ~timedOut
                         /\ active = Highest + 1
                         /\ verdict = Compare(Sent, Received)

JInv == IInv /\ Shape /\ Channels /\ Faultless /\ Judged

LEMMA ChannelNumbers ==
    Highest \in Nat /\ Highest # 0 /\ Labels = 1..Highest
  BY ExchangeAssumption DEF Highest

LEMMA Shorter ==
    ASSUME NEW n \in Nat \ {0}
    PROVE  (IF 2 <= n THEN n - 2 + 1 ELSE 0) = n - 1
  OBVIOUS

LEMMA FrontMoved ==
    ASSUME NEW S, NEW s \in Seq(S), NEW rest \in Seq(S), NEW e \in S
    PROVE  Append(s, e) \o rest = s \o (<<e>> \o rest)
  <1> DEFINE m == <<e>>
  <1>1. m \in Seq(S) /\ Append(s, e) = s \o m
    BY AppendIsConcat
  <1> HIDE DEF m
  <1>2. (s \o m) \o rest = s \o (m \o rest)
    BY <1>1, ConcatAssociative
  <1>. QED
    BY <1>1, <1>2 DEF m

\* The first element of what follows may as well end what is before.
LEMMA Shifted ==
    ASSUME NEW S, NEW s \in Seq(S), NEW t \in Seq(S), Len(t) # 0
    PROVE  Append(s, t[1]) \o RemoveAt(t, 1) = s \o t
  <1> DEFINE m == <<t[1]>>
             r == RemoveAt(t, 1)
             rest == SubSeq(t, 2, Len(t))
  <1>1. Len(t) \in Nat /\ 1 \in 1..Len(t) /\ t[1] \in S
    <2>1. Len(t) \in Nat
      BY LenProperties
    <2>2. 1 \in 1..Len(t)
      BY <2>1
    <2>. QED
      BY <2>1, <2>2, ElementOfSeq
  <1>2. SubSeq(t, 1, 0) = <<>>
    BY <1>1
  <1>3. rest \in Seq(S) /\ Len(rest) = Len(t) - 1
        /\ \A j \in 1..(Len(t) - 1) : rest[j] = t[1 + j]
    <2>1. /\ rest \in Seq(S)
          /\ Len(rest) = IF 2 <= Len(t) THEN Len(t) - 2 + 1 ELSE 0
          /\ \A j \in 1..(Len(t) - 2 + 1) : rest[j] = t[2 + j - 1]
      BY <1>1, SubSeqProperties
    <2>2. ASSUME NEW j \in 1..(Len(t) - 1) PROVE rest[j] = t[1 + j]
      <3>1. j \in 1..(Len(t) - 2 + 1) /\ 2 + j - 1 = 1 + j
        BY <1>1
      <3> HIDE DEF rest
      <3>2. rest[j] = t[2 + j - 1]
        BY <2>1, <3>1
      <3>. QED
        BY <3>1, <3>2
    <2> HIDE DEF rest
    <2>3. Len(rest) = Len(t) - 1
      BY <1>1, <2>1, Shorter
    <2>. QED
      BY <2>1, <2>2, <2>3
  <1>4. r = rest
    <2>1. r = SubSeq(t, 1, 0) \o rest
      BY DEF RemoveAt
    <2> HIDE DEF r, rest
    <2>2. <<>> \o rest = rest
      BY <1>3, ConcatEmptySeq
    <2>. QED
      BY <1>2, <2>1, <2>2
  <1>5. m \in Seq(S) /\ Append(s, t[1]) = s \o m /\ Len(m) = 1 /\ m[1] = t[1]
    BY <1>1, AppendIsConcat
  <1> HIDE DEF m, r, rest
  <1>6. m \o rest = t
    <2>1. m \in Seq(S) /\ rest \in Seq(S) /\ Len(t) \in Nat
          /\ Len(t) = Len(m) + Len(rest)
      BY <1>1, <1>3, <1>5
    <2>2. /\ m \o rest \in Seq(S) /\ Len(m \o rest) = Len(t)
          /\ \A j \in 1..Len(m) : (m \o rest)[j] = m[j]
          /\ \A j \in (Len(m) + 1)..Len(t) : (m \o rest)[j] = rest[j - Len(m)]
      BY <2>1, Concatenated
    <2>3. ASSUME NEW j \in 1..Len(t) PROVE (m \o rest)[j] = t[j]
      <3>1. CASE j = 1
        BY <1>5, <2>2, <3>1
      <3>2. CASE j # 1
        <4>1. /\ j \in (Len(m) + 1)..Len(t) /\ j - Len(m) \in 1..(Len(t) - 1)
              /\ 1 + (j - Len(m)) = j
          BY <1>1, <1>5, <3>2
        <4>. QED
          BY <1>3, <2>2, <4>1
      <3>. QED
        BY <3>1, <3>2
    <2>. QED
      BY <2>2, <2>3, SeqEqual
  <1>7. Append(s, t[1]) \o rest = s \o (m \o rest)
    <2>1. rest \in Seq(S) /\ t[1] \in S
      BY <1>1, <1>3
    <2>2. Append(s, t[1]) \o rest = s \o (<<t[1]>> \o rest)
      BY <2>1, FrontMoved
    <2>. QED
      BY <2>2 DEF m
  <1>. QED
    BY <1>4, <1>5, <1>6, <1>7 DEF r

LEMMA InitiallyJudged == Init => JInv
  <1> SUFFICES ASSUME Init PROVE JInv
    OBVIOUS
  <1>1. Highest \in Nat /\ Highest # 0 /\ Labels = 1..Highest
    BY ChannelNumbers
  <1>2. \A c \in Labels : ReceivedValues(<<>>, c) = <<>>
    BY NothingReceived
  <1>3. <<>> \in Seq(Value)
    BY EmptySeq
  <1>4. 0 \in 0..MaxFaults
    BY ExchangeAssumption
  <1>5. Shape
    <2>1. 1 \in 1..(Highest + 1) /\ 1 \in Labels
      BY <1>1
    <2>2. actual \in [Labels -> Seq(Value)]
      BY <1>3 DEF Init
    <2>. QED
      BY <1>4, <2>1, <2>2 DEF Init, Shape
  <1>6. Channels
    <2>1. arrived = <<>> /\ queue = <<>> /\ active = 1 /\ pc = "send"
          /\ wire = [c \in Labels |-> <<>>]
      BY DEF Init
    <2>2. \A c \in Labels : ~(c < active)
      BY <1>1, <2>1
    <2>. QED
      BY <1>2, <1>3, <2>1, <2>2 DEF Channels
  <1>7. Faultless
    <2>1. active = 1 /\ pc = "send"
      BY DEF Init
    <2>2. \A c \in Labels : Untouched(c)
      BY <1>1, <2>1 DEF Untouched
    <2>. QED
      BY <2>2 DEF Faultless
  <1>8. Judged
    BY DEF Init, Judged
  <1>. QED
    BY <1>5, <1>6, <1>7, <1>8, Initially DEF JInv

\* Received values and types, from the invariant.
LEMMA JTypes ==
    ASSUME JInv
    PROVE  /\ wire \in [Labels -> Seq(Value)]
           /\ queue \in Seq(Event) /\ seen \in Seq(Event) /\ arrived \in Seq(Event)
           /\ seen \o queue \in Seq(Event)
           /\ expected \in Seq(Value) /\ Len(expected) = Count
           /\ \A c \in Labels : ReceivedValues(arrived, c) \in Seq(Value)
  <1>1. /\ wire \in [Labels -> Seq(Value)] /\ expected \in Seq(Value)
        /\ queue \in Seq(Event) /\ seen \in Seq(Event) /\ arrived \in Seq(Event)
    BY DEF JInv, IInv, Typed
  <1>2. seen \o queue \in Seq(Event)
    BY <1>1, ConcatProperties
  <1>3. Len(expected) = Count
    <2>1. expected \in [1..Count -> Value] /\ Count \in Nat
      BY ExchangeAssumption DEF JInv, Shape
    <2>. QED
      BY <1>1, <2>1, LenProperties
  <1>4. \A c \in Labels : ReceivedValues(arrived, c) \in Seq(Value)
    BY DEF JInv, Channels
  <1>. QED
    BY <1>1, <1>2, <1>3, <1>4

\* All payloads go out on a channel on which nothing has happened.
LEMMA SendJudged == JInv /\ Send => Shape' /\ Channels' /\ Faultless' /\ Judged'
  <1> SUFFICES ASSUME JInv, Send PROVE Shape' /\ Channels' /\ Faultless' /\ Judged'
    OBVIOUS
  <1> USE DEF scenario, network
  <1>0. Shape /\ Channels /\ Faultless /\ Judged
    BY DEF JInv
  <1>1. Highest \in Nat /\ Highest # 0 /\ Labels = 1..Highest
    BY ChannelNumbers
  <1>2. /\ wire \in [Labels -> Seq(Value)]
        /\ queue \in Seq(Event)
        /\ expected \in Seq(Value) /\ Len(expected) = Count
    BY JTypes
  <1>3. /\ pc = "send" /\ pc' = "wait" /\ seen' = <<>>
        /\ wire' = [wire EXCEPT ![active] = @ \o expected]
        /\ UNCHANGED <<ordered, expected, active, queue, actual, verdict, timedOut,
                       arrived, faults>>
    BY DEF Send
  <1>4. active \in Labels
    BY <1>0, <1>3 DEF Shape
  <1>5. /\ Untouched(active)
        /\ \A c \in Labels : Untouched(c)' <=> c > active
        /\ \A c \in Labels : Untouched(c) <=> c > active \/ c = active
    BY <1>3 DEF Untouched
  <1>6. /\ wire[active] = <<>>
        /\ ReceivedValues(arrived, active) = <<>>
        /\ ReceivedValues(queue, active) = <<>>
    BY <1>0, <1>4, <1>5 DEF Channels
  <1>7. wire' = [wire EXCEPT ![active] = expected]
    <2>1. <<>> \o expected = expected
      BY <1>2, ConcatEmptySeq
    <2>. QED
      BY <1>3, <1>6, <2>1
  <1>8. Shape'
    BY <1>0, <1>3, <1>4 DEF Shape
  <1>9. Channels'
    <2>1. \A c \in Labels : c > active => c # active
      BY <1>1, <1>4
    <2>2. \A c \in Labels : c > active => wire'[c] = wire[c]
      BY <1>2, <1>7, <2>1
    <2>3. \A c \in Labels : Untouched(c)' =>
            /\ wire'[c] = <<>>
            /\ ReceivedValues(arrived, c) = <<>>
            /\ ReceivedValues(queue, c) = <<>>
      BY <1>0, <1>5, <2>2 DEF Channels
    <2>4. seen' \o queue' = queue
      BY <1>2, <1>3, ConcatEmptySeq
    <2>. QED
      BY <1>0, <1>3, <1>6, <2>3, <2>4 DEF Channels
  <1>10. Faultless'
    <2> SUFFICES ASSUME faults = 0, NEW c \in Labels, ~Untouched(c)'
                 PROVE  /\ ordered => ReceivedValues(arrived, c) \o wire'[c] = expected
                        /\ Len(ReceivedValues(arrived, c)) + Len(wire'[c]) = Count
                        /\ \A v \in Value :
                             Times(ReceivedValues(arrived, c), v) + Times(wire'[c], v)
                                 = Times(expected, v)
      BY <1>3 DEF Faultless
    <2>1. CASE c = active
      <3>1. wire'[c] = expected /\ ReceivedValues(arrived, c) = <<>>
        BY <1>2, <1>6, <1>7, <2>1
      <3>2. <<>> \o expected = expected /\ Len(<<>>) = 0 /\ Count \in Nat
        BY <1>2, ConcatEmptySeq, EmptySeq, ExchangeAssumption
      <3>3. \A v : Times(<<>>, v) = 0 /\ Times(expected, v) \in Nat
        <4>1. \A v : Places(<<>>, v) = {}
          BY DEF Places
        <4>. QED
          BY <1>2, <4>1, FS_EmptySet, TimesType DEF Times
      <3>. QED
        BY <1>2, <3>1, <3>2, <3>3
    <2>2. CASE c # active
      <3>1. wire'[c] = wire[c]
        BY <1>2, <1>7, <2>2
      <3>2. ~Untouched(c)
        BY <1>5, <2>2
      <3>. QED
        BY <1>0, <3>1, <3>2 DEF Faultless
    <2>. QED
      BY <2>1, <2>2
  <1>11. Judged'
    BY <1>0, <1>3 DEF Judged
  <1>. QED
    BY <1>8, <1>9, <1>10, <1>11

\* A poll goes on, or holds what has arrived against what was sent.
LEMMA PollJudged == JInv /\ Poll => Shape' /\ Channels' /\ Faultless' /\ Judged'
  <1> SUFFICES ASSUME JInv, Poll PROVE Shape' /\ Channels' /\ Faultless' /\ Judged'
    OBVIOUS
  <1> USE DEF scenario, network
  <1>0. Shape /\ Channels /\ Faultless /\ Judged
    BY DEF JInv
  <1>1. Highest \in Nat /\ Highest # 0 /\ Labels = 1..Highest
    BY ChannelNumbers
  <1>2. /\ seen \o queue \in Seq(Event)
        /\ \A c \in Labels : ReceivedValues(arrived, c) \in Seq(Value)
    BY JTypes
  <1> DEFINE log == seen \o queue
             values == ReceivedValues(log, active)
  <1>3. /\ pc = "wait" /\ queue' = <<>>
        /\ UNCHANGED <<ordered, expected, verdict, timedOut, wire, arrived, faults>>
        /\ \/ /\ Len(values) >= Count
              /\ actual' = [actual EXCEPT ![active] = values]
              /\ active' = active + 1
              /\ pc' = IF active < Highest THEN "send" ELSE "judge"
              /\ seen' = seen
           \/ /\ seen' = log
              /\ UNCHANGED <<actual, active, pc>>
    BY DEF Poll, Highest
  <1>4. active \in Labels
    BY <1>0, <1>3 DEF Shape
  <1>5. /\ values = ReceivedValues(arrived, active)
        /\ values \in Seq(Value)
    BY <1>0, <1>2, <1>3, <1>4 DEF Channels
  <1>6. \A c \in Labels : ReceivedValues(queue', c) = <<>>
    BY <1>3, NothingReceived
  <1>7. \A c \in Labels : Untouched(c) <=> c > active
    BY <1>3 DEF Untouched
  <1>8. ~Untouched(active)
    BY <1>1, <1>4, <1>7
  <1>9. log \in Seq(Event) /\ log \o <<>> = log
    BY <1>2, ConcatEmptySeq
  <1> HIDE DEF log, values
  <1>10. CASE /\ Len(values) >= Count
              /\ actual' = [actual EXCEPT ![active] = values]
              /\ active' = active + 1
              /\ pc' = IF active < Highest THEN "send" ELSE "judge"
              /\ seen' = seen
    <2>1. pc' # "wait" /\ pc' # "done"
      BY <1>10
    <2>2. \A c \in Labels : Untouched(c)' => Untouched(c)
      BY <1>1, <1>4, <1>7, <1>10 DEF Untouched
    <2>3. \A c \in Labels : Untouched(c) => Untouched(c)'
      <3> SUFFICES ASSUME NEW c \in Labels, c > active PROVE Untouched(c)'
        BY <1>7
      <3>1. c > active + 1 \/ (c = active + 1 /\ active < Highest)
        BY <1>1, <1>4
      <3>. QED
        BY <1>10, <3>1 DEF Untouched
    <2>4. Shape'
      <3>1. actual' \in [Labels -> Seq(Value)]
        BY <1>0, <1>5, <1>10 DEF Shape
      <3>2. active + 1 \in 1..(Highest + 1)
        BY <1>1, <1>4
      <3>3. CASE active < Highest
        <4>1. active + 1 \in Labels
          BY <1>1, <1>4, <3>3
        <4>. QED
          BY <1>0, <1>3, <1>10, <3>1, <3>2, <3>3, <4>1 DEF Shape
      <3>4. CASE ~(active < Highest)
        <4>1. active + 1 = Highest + 1
          BY <1>1, <1>4, <3>4
        <4>. QED
          BY <1>0, <1>3, <1>10, <3>1, <3>2, <3>4, <4>1 DEF Shape
      <3>. QED
        BY <3>3, <3>4
    <2>5. ASSUME NEW c \in Labels, c < active'
          PROVE  /\ Len(actual'[c]) \in Count..Len(ReceivedValues(arrived, c))
                 /\ \A i \in 1..Len(actual'[c]) :
                       actual'[c][i] = ReceivedValues(arrived, c)[i]
      <3>0. actual \in [Labels -> Seq(Value)]
        BY <1>0 DEF Shape
      <3>1. CASE c = active
        <4>1. actual'[c] = values /\ values = ReceivedValues(arrived, c)
          BY <1>5, <1>10, <3>0, <3>1
        <4>2. Len(values) \in Count..Len(values)
          <5>1. Len(values) \in Nat /\ Count \in Nat
            BY <1>5, LenProperties, ExchangeAssumption
          <5>. QED
            BY <1>10, <5>1
        <4>. QED
          BY <4>1, <4>2
      <3>2. CASE c # active
        <4>1. actual'[c] = actual[c] /\ c < active
          BY <1>1, <1>4, <1>10, <2>5, <3>0, <3>2
        <4>. QED
          BY <1>0, <4>1 DEF Channels
      <3>. QED
        BY <3>1, <3>2
    <2>6. Channels'
      BY <1>0, <1>3, <1>6, <2>1, <2>2, <2>5 DEF Channels
    <2>7. Faultless'
      BY <1>0, <1>3, <2>3 DEF Faultless
    <2>8. Judged'
      BY <1>0, <1>3, <2>1 DEF Judged
    <2>. QED
      BY <2>4, <2>6, <2>7, <2>8
  <1>11. CASE seen' = log /\ UNCHANGED <<actual, active, pc>>
    <2>1. \A c \in Labels : Untouched(c)' <=> Untouched(c)
      BY <1>11 DEF Untouched
    <2>2. Shape'
      BY <1>0, <1>3, <1>11 DEF Shape
    <2>3. ReceivedValues(seen' \o queue', active) = ReceivedValues(arrived, active)
      BY <1>3, <1>5, <1>9, <1>11 DEF values
    <2>4. Channels'
      BY <1>0, <1>3, <1>6, <1>11, <2>1, <2>3 DEF Channels
    <2>5. Faultless'
      BY <1>0, <1>3, <2>1 DEF Faultless
    <2>6. Judged'
      BY <1>0, <1>3, <1>11 DEF Judged
    <2>. QED
      BY <2>2, <2>4, <2>5, <2>6
  <1>. QED
    BY <1>3, <1>10, <1>11

\* The two ways to a verdict.
LEMMA VerdictJudged ==
    JInv /\ (Timeout \/ JudgeTranscript) => Shape' /\ Channels' /\ Faultless' /\ Judged'
  <1> SUFFICES ASSUME JInv, Timeout \/ JudgeTranscript
               PROVE  Shape' /\ Channels' /\ Faultless' /\ Judged'
    OBVIOUS
  <1> USE DEF scenario, network
  <1>0. Shape /\ Channels /\ Faultless /\ Judged
    BY DEF JInv
  <1>1. /\ pc \in {"wait", "judge"} /\ pc' = "done"
        /\ UNCHANGED <<ordered, expected, active, queue, seen, actual, wire,
                       arrived, faults>>
        /\ \/ pc = "wait" /\ verdict' = "FAIL" /\ timedOut' = TRUE
           \/ /\ pc = "judge" /\ verdict' = Compare(Sent, Received)
              /\ timedOut' = timedOut
    BY DEF Timeout, JudgeTranscript
  <1>2. \A c \in Labels : Untouched(c)' <=> Untouched(c)
    BY <1>1 DEF Untouched
  <1>3. Compare(Sent, Received) \in {"PASS", "FAIL"}
    BY DEF Compare, CompareOrdered, CompareUnordered, Judge
  <1>4. Shape'
    BY <1>0, <1>1, <1>3 DEF Shape
  <1>5. Channels'
    BY <1>0, <1>1, <1>2 DEF Channels
  <1>6. Faultless'
    BY <1>0, <1>1, <1>2 DEF Faultless
  <1>7. Compare(Sent, Received)' = Compare(Sent, Received)
    BY <1>1 DEF Compare, Sent, Received, Transcript, CompareOrdered, CompareUnordered
  <1>8. Judged'
    BY <1>0, <1>1, <1>7 DEF Judged, Shape
  <1>. QED
    BY <1>4, <1>5, <1>6, <1>8

\* An echo that arrives goes from the wire to what has been received.
LEMMA DeliverJudged ==
    ASSUME JInv, NEW c \in Labels, NEW i \in Positions, Deliver(c, i)
    PROVE  Shape' /\ Channels' /\ Faultless' /\ Judged'
  <1> USE DEF scenario, harness
  <1> DEFINE event == [label |-> c, value |-> wire[c][i]]
             rv(d) == ReceivedValues(arrived, d)
  <1>0. Shape /\ Channels /\ Faultless /\ Judged
    BY DEF JInv
  <1>1. /\ wire \in [Labels -> Seq(Value)]
        /\ queue \in Seq(Event) /\ seen \in Seq(Event) /\ arrived \in Seq(Event)
        /\ seen \o queue \in Seq(Event)
        /\ \A d \in Labels : rv(d) \in Seq(Value)
    BY JTypes
  <1>2. /\ i \in DOMAIN wire[c]
        /\ ordered => i = 1
        /\ queue' = Append(queue, event)
        /\ arrived' = Append(arrived, event)
        /\ wire' = [wire EXCEPT ![c] = RemoveAt(@, i)]
        /\ UNCHANGED <<ordered, expected, active, pc, seen, actual, verdict, timedOut,
                       faults>>
    BY DEF Deliver
  <1>3. /\ wire[c] \in Seq(Value) /\ i \in 1..Len(wire[c])
        /\ Len(wire[c]) \in Nat /\ wire[c][i] \in Value
    BY <1>1, <1>2, LenProperties, ElementOfSeq
  <1>4. event \in Event /\ event.label = c /\ event.value = wire[c][i]
    BY <1>3 DEF Event
  <1>5. ~Untouched(c) /\ \A d \in Labels : Untouched(d)' <=> Untouched(d)
    <2>1. wire[c] # <<>>
      BY <1>2
    <2>. QED
      BY <1>0, <1>2, <2>1 DEF Channels, Untouched
  <1> HIDE DEF event
  <1>6. ASSUME NEW d \in Labels, d # c
        PROVE  /\ ReceivedValues(arrived', d) = rv(d)
               /\ ReceivedValues(queue', d) = ReceivedValues(queue, d)
               /\ wire'[d] = wire[d]
    BY <1>1, <1>2, <1>4, <1>6, OneMoreReceived
  <1>7. /\ ReceivedValues(arrived', c) = Append(rv(c), wire[c][i])
        /\ wire'[c] = RemoveAt(wire[c], i)
    BY <1>1, <1>2, <1>4, OneMoreReceived
  <1>8. Append(rv(c), wire[c][i]) \in Seq(Value)
        /\ Len(Append(rv(c), wire[c][i])) = Len(rv(c)) + 1
        /\ Len(rv(c)) \in Nat
        /\ \A j \in 1..Len(rv(c)) : Append(rv(c), wire[c][i])[j] = rv(c)[j]
    BY <1>1, <1>3, AppendProperties, LenProperties
  <1>9. Shape'
    BY <1>0, <1>2 DEF Shape
  <1>10. Channels'
    <2>1. \A d \in Labels : ReceivedValues(arrived', d) \in Seq(Value)
      BY <1>1, <1>6, <1>7, <1>8
    <2>2. ASSUME NEW d \in Labels, Untouched(d)'
          PROVE  /\ wire'[d] = <<>>
                 /\ ReceivedValues(arrived', d) = <<>>
                 /\ ReceivedValues(queue', d) = <<>>
      <3>1. Untouched(d) /\ d # c
        BY <1>5, <2>2
      <3>. QED
        BY <1>0, <1>6, <3>1 DEF Channels
    <2>3. ASSUME pc = "wait"
          PROVE  ReceivedValues(seen' \o queue', active) = ReceivedValues(arrived', active)
      <3>1. seen' \o queue' = Append(seen \o queue, event)
        BY <1>1, <1>2, <1>4, AppendedAtTheEnd
      <3>2. ReceivedValues(seen \o queue, active) = ReceivedValues(arrived, active)
        BY <1>0, <2>3 DEF Channels
      <3> DEFINE both == seen \o queue
      <3>3. /\ ReceivedValues(Append(both, event), active) =
                   IF event.label = active
                   THEN Append(ReceivedValues(both, active), event.value)
                   ELSE ReceivedValues(both, active)
            /\ ReceivedValues(Append(arrived, event), active) =
                   IF event.label = active
                   THEN Append(ReceivedValues(arrived, active), event.value)
                   ELSE ReceivedValues(arrived, active)
        <4>1. both \in Seq(Event)
          BY <1>1
        <4> HIDE DEF both
        <4>. QED
          BY <1>1, <1>4, <4>1, OneMoreReceived
      <3>. QED
        BY <1>2, <3>1, <3>2, <3>3
    <2>4. ASSUME NEW d \in Labels, d < active
          PROVE  /\ Len(actual[d]) \in Count..Len(ReceivedValues(arrived', d))
                 /\ \A j \in 1..Len(actual[d]) :
                       actual[d][j] = ReceivedValues(arrived', d)[j]
      <3>1. /\ Len(actual[d]) \in Count..Len(rv(d))
            /\ \A j \in 1..Len(actual[d]) : actual[d][j] = rv(d)[j]
        BY <1>0, <2>4 DEF Channels
      <3>2. CASE d = c
        <4>0. Count \in Nat
          BY ExchangeAssumption
        <4>1. Len(actual[d]) \in Count..(Len(rv(d)) + 1)
          BY <1>8, <3>1, <3>2, <4>0
        <4>2. \A j \in 1..Len(actual[d]) : j \in 1..Len(rv(d))
          BY <1>8, <3>1, <3>2, <4>0
        <4>. QED
          BY <1>7, <1>8, <3>1, <3>2, <4>1, <4>2
      <3>3. CASE d # c
        BY <1>6, <3>1, <3>3
      <3>. QED
        BY <3>2, <3>3
    <2>. QED
      BY <1>2, <2>1, <2>2, <2>3, <2>4 DEF Channels
  <1>11. Faultless'
    <2> SUFFICES ASSUME faults = 0, NEW d \in Labels, ~Untouched(d)'
                 PROVE  /\ ordered =>
                              ReceivedValues(arrived', d) \o wire'[d] = expected
                        /\ Len(ReceivedValues(arrived', d)) + Len(wire'[d]) = Count
                        /\ \A v \in Value :
                             Times(ReceivedValues(arrived', d), v) + Times(wire'[d], v)
                                 = Times(expected, v)
      BY <1>2 DEF Faultless
    <2>1. /\ ordered => rv(d) \o wire[d] = expected
          /\ Len(rv(d)) + Len(wire[d]) = Count
          /\ \A v \in Value : Times(rv(d), v) + Times(wire[d], v) = Times(expected, v)
      BY <1>0, <1>5 DEF Faultless
    <2>2. CASE d # c
      BY <1>6, <2>1, <2>2
    <2>3. CASE d = c
      <3> DEFINE w == wire[c]
                 r == rv(c)
      <3>1. w \in Seq(Value) /\ i \in 1..Len(w) /\ Len(w) \in Nat /\ w[i] \in Value
            /\ r \in Seq(Value) /\ Len(r) \in Nat
        BY <1>1, <1>3, <1>8
      <3>2. /\ ordered => r \o w = expected
            /\ Len(r) + Len(w) = Count
            /\ \A v \in Value : Times(r, v) + Times(w, v) = Times(expected, v)
        BY <2>1, <2>3
      <3>3. ReceivedValues(arrived', d) = Append(r, w[i]) /\ wire'[d] = RemoveAt(w, i)
        BY <1>7, <2>3
      <3>4. Len(Append(r, w[i])) = Len(r) + 1
        BY <1>8
      <3> HIDE DEF w, r
      <3>5. /\ Len(RemoveAt(w, i)) = Len(w) - 1
            /\ RemoveAt(w, i) \in Seq(Value)
            /\ \A v : Times(w, v) = Times(RemoveAt(w, i), v) + IF w[i] = v THEN 1 ELSE 0
        BY <3>1, Removed
      <3>6. \A v : Times(Append(r, w[i]), v) = Times(r, v) + IF w[i] = v THEN 1 ELSE 0
        BY <3>1, TimesAppend
      <3>7. \A v : Times(r, v) \in Nat /\ Times(RemoveAt(w, i), v) \in Nat
        BY <3>1, <3>5, TimesType
      <3>8. ordered => Append(r, w[i]) \o RemoveAt(w, i) = r \o w
        <4>1. ASSUME i = 1 PROVE Append(r, w[1]) \o RemoveAt(w, 1) = r \o w
          <5>1. Len(w) # 0
            BY <3>1
          <5>. QED
            BY <3>1, <5>1, Shifted
        <4>. QED
          BY <1>2, <4>1
      <3>9. Len(Append(r, w[i])) + Len(RemoveAt(w, i)) = Count
        BY <3>1, <3>2, <3>4, <3>5
      <3>10. ASSUME NEW v \in Value
             PROVE  Times(Append(r, w[i]), v) + Times(RemoveAt(w, i), v)
                        = Times(expected, v)
        BY <3>2, <3>5, <3>6, <3>7
      <3>. QED
        BY <3>2, <3>3, <3>8, <3>9, <3>10
    <2>. QED
      BY <2>2, <2>3
  <1>12. Judged'
    <2>1. Compare(Sent, Received)' = Compare(Sent, Received)
      BY <1>2 DEF Compare, Sent, Received, Transcript, CompareOrdered, CompareUnordered
    <2>. QED
      BY <1>0, <1>2, <2>1 DEF Judged
  <1>. QED
    BY <1>9, <1>10, <1>11, <1>12

\* A fault is counted, and touches only what is under way.
LEMMA MisbehaveJudged ==
    ASSUME JInv, NEW c \in Labels, NEW i \in Positions, Misbehave(c, i)
    PROVE  Shape' /\ Channels' /\ Faultless' /\ Judged'
  <1> USE DEF scenario, harness
  <1>0. Shape /\ Channels /\ Judged /\ Typed
    BY DEF JInv, IInv
  <1>1. /\ i \in DOMAIN wire[c] /\ faults < MaxFaults /\ faults' = faults + 1
        /\ UNCHANGED <<ordered, expected, active, pc, queue, seen, actual, verdict,
                       timedOut, arrived>>
    BY DEF Misbehave
  <1>2. wire \in [Labels -> Seq(Value)]
    BY <1>0 DEF Typed
  <1>3. \A d \in Labels \ {c} : wire'[d] = wire[d]
    BY <1>2 DEF Misbehave, Lose, Duplicate, Corrupt, Reorder
  <1>4. ~Untouched(c) /\ \A d \in Labels : Untouched(d)' <=> Untouched(d)
    <2>1. wire[c] # <<>>
      BY <1>1
    <2>. QED
      BY <1>0, <1>1, <2>1 DEF Channels, Untouched
  <1>5. faults' \in 0..MaxFaults /\ faults' # 0
    <2>1. faults \in 0..MaxFaults /\ MaxFaults \in Nat
      BY <1>0, ExchangeAssumption DEF Shape
    <2>. QED
      BY <1>1, <2>1
  <1>6. Shape'
    BY <1>0, <1>1, <1>5 DEF Shape
  <1>7. Channels'
    <2>1. \A d \in Labels : Untouched(d)' => wire'[d] = <<>>
      BY <1>0, <1>3, <1>4 DEF Channels
    <2>. QED
      BY <1>0, <1>1, <1>4, <2>1 DEF Channels
  <1>8. Faultless'
    BY <1>5 DEF Faultless
  <1>9. Judged'
    <2>1. Compare(Sent, Received)' = Compare(Sent, Received)
      BY <1>1 DEF Compare, Sent, Received, Transcript, CompareOrdered, CompareUnordered
    <2>. QED
      BY <1>0, <1>1, <2>1 DEF Judged
  <1>. QED
    BY <1>6, <1>7, <1>8, <1>9

LEMMA InvarianceJudged == JInv /\ [Next]_vars => JInv'
  <1> SUFFICES ASSUME JInv, [Next]_vars PROVE JInv'
    OBVIOUS
  <1>1. IInv'
    BY Invariance DEF JInv
  <1>2. CASE Send
    BY <1>1, <1>2, SendJudged DEF JInv
  <1>3. CASE Poll
    BY <1>1, <1>3, PollJudged DEF JInv
  <1>4. CASE Timeout \/ JudgeTranscript
    BY <1>1, <1>4, VerdictJudged DEF JInv
  <1>5. ASSUME NEW c \in Labels, NEW i \in Positions, Deliver(c, i) PROVE JInv'
    BY <1>1, <1>5, DeliverJudged DEF JInv
  <1>6. ASSUME NEW c \in Labels, NEW i \in Positions, Misbehave(c, i) PROVE JInv'
    BY <1>1, <1>6, MisbehaveJudged DEF JInv
  <1>7. CASE UNCHANGED vars
    <2>1. UNCHANGED <<ordered, expected, active, pc, wire, queue, seen, actual,
                      verdict, timedOut, arrived, faults>>
      BY <1>7 DEF vars, scenario, harness, network
    <2>2. \A c \in Labels : Untouched(c)' <=> Untouched(c)
      BY <2>1 DEF Untouched
    <2>3. Compare(Sent, Received)' = Compare(Sent, Received)
      BY <2>1 DEF Compare, Sent, Received, Transcript, CompareOrdered, CompareUnordered
    <2>4. Shape'
      BY <2>1 DEF JInv, Shape
    <2>5. Channels'
      BY <2>1, <2>2 DEF JInv, Channels
    <2>6. Faultless'
      BY <2>1, <2>2 DEF JInv, Faultless
    <2>7. Judged'
      BY <2>1, <2>3 DEF JInv, Judged
    <2>. QED
      BY <1>1, <2>4, <2>5, <2>6, <2>7 DEF JInv
  <1>. QED
    BY <1>2, <1>3, <1>4, <1>5, <1>6, <1>7 DEF Next, Harness

\* The oracle's verdict is on every channel's values, and those on all of them
\* are the beginning of what has arrived.
LEMMA AtTheVerdict ==
    ASSUME JInv, verdict # "none", ~timedOut
    PROVE  /\ verdict = Compare(Sent, Received)
           /\ \A c \in Labels :
                 /\ actual[c] \in Seq(Value) /\ Len(actual[c]) \in Nat
                 /\ Len(actual[c]) \in Count..Len(ReceivedValues(arrived, c))
                 /\ \A i \in 1..Len(actual[c]) :
                       actual[c][i] = ReceivedValues(arrived, c)[i]
                 /\ ~Untouched(c)
  <1>1. active = Highest + 1 /\ pc = "done" /\ verdict = Compare(Sent, Received)
    BY DEF JInv, Shape, Judged
  <1>2. \A c \in Labels : c < active /\ ~(c > active) /\ c # active
    BY <1>1, ChannelNumbers
  <1>3. \A c \in Labels : actual[c] \in Seq(Value) /\ Len(actual[c]) \in Nat
    BY LenProperties DEF JInv, Shape
  <1>. QED
    BY <1>1, <1>2, <1>3 DEF JInv, Channels, Untouched

LEMMA EchoedWhenPassed == JInv => PassMeansEchoed
  <1> SUFFICES ASSUME JInv, verdict = "PASS", NEW c \in Labels
               PROVE  IF ordered THEN First(c) = expected
                      ELSE ToBag(First(c)) = ToBag(expected)
    BY DEF PassMeansEchoed
  <1> DEFINE sent == [d \in Labels |-> expected]
             rv == ReceivedValues(arrived, c)
  <1>0. ~timedOut
    BY DEF JInv, Shape, Judged
  <1>1. /\ Compare(Sent, Received) = "PASS"
        /\ \A d \in Labels :
              /\ actual[d] \in Seq(Value) /\ Len(actual[d]) \in Nat
              /\ Len(actual[d]) \in Count..Len(ReceivedValues(arrived, d))
              /\ \A i \in 1..Len(actual[d]) :
                    actual[d][i] = ReceivedValues(arrived, d)[i]
    BY <1>0, AtTheVerdict
  <1>2. /\ expected \in Seq(Value) /\ Len(expected) = Count /\ Count \in Nat
        /\ rv \in Seq(Value)
    BY JTypes, ExchangeAssumption
  <1>3. /\ sent \in [Labels -> Seq(Value)] /\ sent[c] = expected
        /\ actual \in [Labels -> Seq(Value)]
        /\ Sent = Transcript(sent) /\ Received = Transcript(actual)
    BY <1>2 DEF JInv, Shape, Sent, Received
  <1>4. Len(rv) \in Nat /\ Count <= Len(rv) /\ \A i \in 1..Len(rv) : rv[i] \in Value
    <2>1. Len(rv) \in Nat /\ \A i \in 1..Len(rv) : rv[i] \in Value
      BY <1>2, LenProperties, ElementOfSeq
    <2>. QED
      BY <1>1, <1>2, <2>1
  <1>5. ASSUME Len(actual[c]) = Count PROVE First(c) = actual[c]
    <2>1. \A i \in 1..Count : rv[i] \in Value
      BY <1>2, <1>4
    <2>2. /\ First(c) \in Seq(Value)
          /\ Len(First(c)) = IF 1 <= Count THEN Count - 1 + 1 ELSE 0
          /\ \A i \in 1..(Count - 1 + 1) : First(c)[i] = rv[1 + i - 1]
      BY <1>2, <2>1, SubSeqProperties DEF First
    <2>3. Count - 1 + 1 = Count /\ \A i \in 1..Count : 1 + i - 1 = i
      BY <1>2
    <2>4. Len(First(c)) = Count
      BY <1>2, <2>2
    <2>5. \A i \in 1..Count : First(c)[i] = actual[c][i]
      BY <1>1, <1>5, <2>2, <2>3
    <2>. QED
      BY <1>1, <1>5, <2>2, <2>4, <2>5, SeqEqual
  <1> HIDE DEF sent, rv
  <1>6. CASE ordered
    <2>1. CompareOrdered(Sent, Received) = "PASS"
      BY <1>1, <1>6 DEF Compare
    <2>2. Sent \in Seq(Honest) /\ Received \in Seq(Honest)
      <3>1. Highest \in Labels
        BY ChannelNumbers
      <3>. QED
        BY <1>3, <3>1, TranscriptGrows, GrowsType
    <2>3. Transcript(actual) = Transcript(sent)
      BY <1>3, <2>1, <2>2, OrderedOracleExact
    <2>4. \A d \in Labels : Len(actual[d]) >= Len(sent[d])
      BY <1>1, <1>2 DEF sent
    <2>5. actual = sent
      BY <1>3, <2>3, <2>4, SameTranscriptSameValues
    <2>. QED
      BY <1>2, <1>3, <1>5, <1>6, <2>5
  <1>7. CASE ~ordered
    <2>1. CompareUnordered(Transcript(sent), Transcript(actual)) = "PASS"
      BY <1>1, <1>3, <1>7 DEF Compare
    <2>2. \A d \in Labels, v \in Value : Times(sent[d], v) = Times(actual[d], v)
      BY <1>3, <2>1, UnorderedOracleExact
    <2>3. \A v \in Value : Times(expected, v) = Times(actual[c], v)
      BY <1>3, <2>2
    <2>4. Len(expected) = Len(actual[c]) /\ ToBag(expected) = ToBag(actual[c])
      BY <1>1, <1>2, <2>3, Rearranged
    <2>. QED
      BY <1>2, <1>5, <1>7, <2>4
  <1>. QED
    BY <1>6, <1>7

LEMMA FaultlessPasses == JInv => NoFalseAlarm
  <1> SUFFICES ASSUME JInv, verdict = "FAIL", faults = 0, ~timedOut PROVE FALSE
    <2>1. JInv => faults \in 0..MaxFaults /\ MaxFaults \in Nat
      BY ExchangeAssumption DEF JInv, Shape
    <2>. QED
      BY <2>1 DEF NoFalseAlarm
  <1> DEFINE sent == [d \in Labels |-> expected]
  <1>1. /\ Compare(Sent, Received) = "FAIL"
        /\ \A c \in Labels :
              /\ actual[c] \in Seq(Value) /\ Len(actual[c]) \in Nat
              /\ Len(actual[c]) \in Count..Len(ReceivedValues(arrived, c))
              /\ \A i \in 1..Len(actual[c]) :
                    actual[c][i] = ReceivedValues(arrived, c)[i]
              /\ ~Untouched(c)
    BY AtTheVerdict
  <1>2. /\ expected \in Seq(Value) /\ Count \in Nat
        /\ wire \in [Labels -> Seq(Value)]
        /\ \A c \in Labels : ReceivedValues(arrived, c) \in Seq(Value)
    BY JTypes, ExchangeAssumption
  <1>3. /\ sent \in [Labels -> Seq(Value)] /\ \A c \in Labels : sent[c] = expected
        /\ actual \in [Labels -> Seq(Value)]
        /\ Sent = Transcript(sent) /\ Received = Transcript(actual)
    BY <1>2 DEF JInv, Shape, Sent, Received
  <1> HIDE DEF sent
  <1>4. ASSUME NEW c \in Labels
        PROVE  /\ ordered => actual[c] = expected
               /\ \A v \in Value : Times(expected, v) = Times(actual[c], v)
    <2> DEFINE rv == ReceivedValues(arrived, c)
               w == wire[c]
    <2>1. /\ ordered => rv \o w = expected
          /\ Len(rv) + Len(w) = Count
          /\ \A v \in Value : Times(rv, v) + Times(w, v) = Times(expected, v)
      BY <1>1 DEF JInv, Faultless
    <2>2. /\ rv \in Seq(Value) /\ w \in Seq(Value)
          /\ actual[c] \in Seq(Value) /\ Len(actual[c]) \in Count..Len(rv)
          /\ \A i \in 1..Len(actual[c]) : actual[c][i] = rv[i]
      BY <1>1, <1>2
    <2> HIDE DEF rv, w
    <2>3. Len(rv) \in Nat /\ Len(w) \in Nat
      BY <2>2, LenProperties
    <2>4. Len(w) = 0 /\ Len(actual[c]) = Len(rv)
      BY <1>2, <2>1, <2>2, <2>3
    <2>5. w = <<>>
      BY <2>2, <2>4, EmptySeq
    <2>6. actual[c] = rv
      BY <2>2, <2>4, SeqEqual
    <2>7. rv \o <<>> = rv
      BY <2>2, ConcatEmptySeq
    <2>8. \A v : Times(<<>>, v) = 0 /\ Times(rv, v) \in Nat
      <3>1. \A v : Places(<<>>, v) = {}
        BY DEF Places
      <3>. QED
        BY <2>2, <3>1, FS_EmptySet, TimesType DEF Times
    <2>. QED
      BY <2>1, <2>5, <2>6, <2>7, <2>8
  <1>5. CASE ordered
    <2>1. \A c \in Labels : actual[c] = sent[c]
      BY <1>3, <1>4, <1>5
    <2>2. actual = sent
      BY <1>3, <2>1
    <2>3. Sent = Received /\ Sent \in Seq(Honest)
      <3>1. Highest \in Labels
        BY ChannelNumbers
      <3>. QED
        BY <1>3, <2>2, <3>1, TranscriptGrows, GrowsType
    <2>4. CompareOrdered(Sent, Received) = "PASS"
      BY <2>3, OrderedOracleExact
    <2>. QED
      BY <1>1, <1>5, <2>4 DEF Compare
  <1>6. CASE ~ordered
    <2>1. \A c \in Labels, v \in Value : Times(sent[c], v) = Times(actual[c], v)
      BY <1>3, <1>4
    <2>2. CompareUnordered(Sent, Received) = "PASS"
      BY <1>3, <2>1, UnorderedOracleExact
    <2>. QED
      BY <1>1, <1>6, <2>2 DEF Compare
  <1>. QED
    BY <1>5, <1>6

\* For any number of channels and messages, and whatever the echo does: when
\* the exchange has passed, the messages sent came back first and unharmed on
\* every channel, in order where it is ordered (wait_for_messages,
\* run_product_scenario and the two oracles together).
THEOREM PassIsEchoed == Spec => []PassMeansEchoed
  BY InitiallyJudged, InvarianceJudged, EchoedWhenPassed, PTL DEF Spec

\* And a faultless echo that meets the deadlines passes, whatever the pace of
\* the echoes and of the polls and in whatever order an unordered channel
\* delivers (compare_ordered, compare_unordered).
THEOREM NobodyBlamed == Spec => []NoFalseAlarm
  BY InitiallyJudged, InvarianceJudged, FaultlessPasses, PTL DEF Spec

\* Every variable keeps its type.
THEOREM TypeCorrect == Spec => []TypeOK
  <1>1. JInv => TypeOK
    BY DEF JInv, IInv, Typed, Shape, Highest, TypeOK
  <1>. QED
    BY <1>1, InitiallyJudged, InvarianceJudged, PTL DEF Spec

-----------------------------------------------------------------------------
(* Two probes that end a scenario and read the same queue of the peer.     *)
(* For any number of messages that arrive twice, the invariant says where  *)
(* a probe may be, that nothing which arrived in time is lost between the  *)
(* queue and what was drained, what is settled as long as there is no      *)
(* failure, and what cannot have happened as long as nobody is to blame.   *)

\* The probe has ended in a pass.
Passed == outcome = "PASS"
\* What has arrived and is not lost.
Held == drained \cup ToSet(pending)

\* Where a probe may be, and what it has sent by then.
Stages ==
    /\ place # "done" => outcome = "none"
    /\ Passed => failures = {}
    /\ place \notin {"await", "done"} => "recovery" \notin given
    /\ "recovery" \in inFlight => "recovery" \in given
    /\ kind = "malformed" =>
          /\ place # "forward" /\ ~hooked /\ inFlight = {}
          /\ place = "begin" => stage = 1
          /\ place \in {"settle", "recover", "await"} \/ Passed => stage = 4
    /\ kind = "partial" =>
          /\ place \in {"begin", "forward", "recover", "await", "done"}
          /\ hooked <=> place = "forward"
          /\ place = "begin" => given = {}
          /\ inFlight \cap {"marker", "pieces", "forward"} # {} => "marker" \in given

\* What arrived while the probe could still tell is queued or drained, and
\* the valid message of a pass is among it.
Heard ==
    /\ \A m \in Messages : <<m, TRUE>> \in arrivals => m \in Held
    /\ \A m \in ToSet(pending) : Arrived(m)
    /\ place # "done" => \A m \in {"marker", "recovery"} : <<m, FALSE>> \notin arrivals
    /\ Passed => <<"recovery", TRUE>> \in arrivals

\* As long as there is no failure, every input whose stream has been looked at
\* was reset by baresip, and none arrived before it was looked for.
Rejected ==
    kind = "malformed" /\ failures = {} =>
        /\ \A i \in DOMAIN Inputs :
              \/ i < stage
              \/ i = stage /\ place \in {"check", "recover", "await"}
              \/ Passed
              => stream[Inputs[i]] = "reset"
        /\ \A m \in Malformed :
              /\ stage = 4
              /\ m = "oversized" =>
                    place \in {"reset", "check", "recover", "await"} \/ Passed
              => <<m, TRUE>> \notin arrivals

\* The dropper has seen a FORWARD-TSN only if baresip gave up the message or
\* an earlier one, and without a failure the message is not there to be found.
Abandoned ==
    kind = "partial" =>
        /\ forwarded => skipped \/ "foreign" \in blame
        /\ "foreign" \in inFlight => "foreign" \in blame
        /\ "pieces" \in inFlight => "pieces" \in blame
        /\ failures = {} /\ (place \in {"recover", "await"} \/ Passed) =>
              dropped /\ forwarded
        /\ failures = {} /\ place \in {"recover", "await"} => "marker" \notin drained
        /\ Passed => <<"marker", TRUE>> \notin arrivals

\* As long as nothing can be held against anyone, nothing but the valid message
\* has arrived, and what is given up was dropped before.
Blameless ==
    blame = {} =>
        /\ failures = {} /\ outcome # "FAIL" /\ connected
        /\ place # "done" =>
              /\ drained = {}
              /\ \/ pending = <<>> /\ \A m \in Messages : ~Arrived(m)
                 \/ pending = <<"recovery">> /\ place = "await"
        /\ kind = "malformed" => \A m \in Malformed : ~Arrived(m)
        /\ kind = "partial" /\ place # "done" =>
              /\ place \in {"recover", "await"} => forwarded
              /\ skipped => dropped
              /\ tried => "marker" \in inFlight \/ dropped
              /\ "forward" \in inFlight => tried

PInv == ProbeTypeOK /\ Stages /\ Heard /\ Rejected /\ Abandoned /\ Blameless

\* The inputs, the messages and the packets one by one.
LEMMA Names ==
    /\ DOMAIN Inputs = 1..4
    /\ Inputs[1] = "embedded-nul" /\ Inputs[2] = "invalid-dcep-utf8"
    /\ Inputs[3] = "control" /\ Inputs[4] = "oversized"
    /\ Malformed = {"embedded-nul", "invalid-dcep-utf8", "control", "oversized"}
    /\ Messages = {"embedded-nul", "invalid-dcep-utf8", "control", "oversized",
                   "marker", "recovery"}
    /\ Packets = {"marker", "pieces", "forward", "foreign", "recovery"}
  <1>1. /\ DOMAIN Inputs = 1..4
        /\ Inputs[1] = "embedded-nul" /\ Inputs[2] = "invalid-dcep-utf8"
        /\ Inputs[3] = "control" /\ Inputs[4] = "oversized"
    BY DEF Inputs
  <1>2. Malformed = {"embedded-nul", "invalid-dcep-utf8", "control", "oversized"}
    <2>1. \A i \in 1..4 : i = 1 \/ i = 2 \/ i = 3 \/ i = 4
      OBVIOUS
    <2>2. Malformed = {Inputs[i] : i \in 1..4}
      BY <1>1 DEF Malformed
    <2>3. 1 \in 1..4 /\ 2 \in 1..4 /\ 3 \in 1..4 /\ 4 \in 1..4
      OBVIOUS
    <2>. QED
      BY <1>1, <2>1, <2>2, <2>3
  <1>. QED
    BY <1>1, <1>2 DEF Messages, Packets

\* Malformed inputs and the valid message are messages.
LEMMA RecoveryIsMessage == "recovery" \in Messages /\ Malformed \subseteq Messages
  BY DEF Messages

\* Nothing is in an empty queue.
LEMMA ToSetDrained == ToSet(<<>>) = {}
  BY DEF ToSet

\* Appending adds to the elements of a sequence what is appended.
LEMMA ToSetGrows ==
    ASSUME NEW S, NEW q \in Seq(S), NEW m
    PROVE  ToSet(Append(q, m)) = ToSet(q) \cup {m}
  <1>1. DOMAIN q = 1..Len(q) /\ Len(q) \in Nat
    OBVIOUS
  <1>2. DOMAIN Append(q, m) = 1..(Len(q) + 1)
    OBVIOUS
  <1>3. \A i \in 1..Len(q) : Append(q, m)[i] = q[i]
    OBVIOUS
  <1>4. Append(q, m)[Len(q) + 1] = m
    OBVIOUS
  <1>5. \A i \in 1..(Len(q) + 1) : i \in 1..Len(q) \/ i = Len(q) + 1
    BY <1>1
  <1>6. \A i \in 1..Len(q) : i \in 1..(Len(q) + 1)
    BY <1>1
  <1>7. Len(q) + 1 \in 1..(Len(q) + 1)
    BY <1>1
  <1>. QED
    BY <1>1, <1>2, <1>3, <1>4, <1>5, <1>6, <1>7 DEF ToSet

\* The input at hand is one of the malformed ones.
LEMMA InputIsMalformed == ProbeTypeOK => Input \in Malformed
  BY Names DEF ProbeTypeOK, Input

\* The elements of a sequence over a set belong to the set.
LEMMA ToSetType ==
    ASSUME NEW S, NEW q \in Seq(S)
    PROVE  ToSet(q) \subseteq S
  BY DEF ToSet

\* The history of an arrival is a pair with a truth value.
LEMMA NoticedOrNot ==
    ASSUME NEW m \in Messages
    PROVE  Noticed(m) = TRUE \/ Noticed(m) = FALSE
  BY Names DEF Noticed

\* Draining keeps the types of the queue and of what is drained.
LEMMA DrainTyped ==
    ASSUME ProbeTypeOK, Drain
    PROVE  pending' \in Seq(Messages) /\ drained' \subseteq Messages
  BY ToSetType, EmptySeq DEF ProbeTypeOK, Drain

\* An arrival adds one message to the queue and one pair to the history.
LEMMA ArrivesTyped ==
    ASSUME ProbeTypeOK, NEW m \in Messages, Arrives(m)
    PROVE  /\ pending' \in Seq(Messages) /\ arrivals' \subseteq Messages \X BOOLEAN
           /\ arrivals \subseteq arrivals'
           /\ ToSet(pending') = ToSet(pending) \cup {m}
           /\ \A n : <<n, TRUE>> \in arrivals' <=>
                      <<n, TRUE>> \in arrivals \/ (n = m /\ Noticed(m))
           /\ \A n : <<n, FALSE>> \in arrivals' <=>
                      <<n, FALSE>> \in arrivals \/ (n = m /\ ~Noticed(m))
  <1>1. pending' = Append(pending, m) /\ pending \in Seq(Messages)
    BY DEF Arrives, ProbeTypeOK
  <1>2. pending' \in Seq(Messages) /\ ToSet(pending') = ToSet(pending) \cup {m}
    BY <1>1, ToSetGrows, AppendProperties
  <1>3. /\ arrivals' = arrivals \cup {<<m, Noticed(m)>>}
        /\ arrivals \subseteq Messages \X BOOLEAN
    BY DEF Arrives, ProbeTypeOK
  <1>4. CASE Noticed(m) = TRUE
    <2>1. arrivals' = arrivals \cup {<<m, TRUE>>}
      BY <1>3, <1>4
    <2>2. arrivals' \subseteq Messages \X BOOLEAN /\ arrivals \subseteq arrivals'
      <3>1. <<m, TRUE>> \in Messages \X BOOLEAN
        OBVIOUS
      <3>. QED
        BY <1>3, <2>1, <3>1
    <2>3. \A n : <<n, TRUE>> \in arrivals' <=> <<n, TRUE>> \in arrivals \/ n = m
      BY <2>1
    <2>4. \A n : <<n, FALSE>> \in arrivals' <=> <<n, FALSE>> \in arrivals
      BY <2>1
    <2>5. Noticed(m)
      BY <1>4
    <2>. QED
      BY <1>2, <2>2, <2>3, <2>4, <2>5, Zenon
  <1>5. CASE Noticed(m) = FALSE
    <2>1. arrivals' = arrivals \cup {<<m, FALSE>>}
      BY <1>3, <1>5
    <2>2. arrivals' \subseteq Messages \X BOOLEAN /\ arrivals \subseteq arrivals'
      <3>1. <<m, FALSE>> \in Messages \X BOOLEAN
        OBVIOUS
      <3>. QED
        BY <1>3, <2>1, <3>1
    <2>3. \A n : <<n, FALSE>> \in arrivals' <=> <<n, FALSE>> \in arrivals \/ n = m
      BY <2>1
    <2>4. \A n : <<n, TRUE>> \in arrivals' <=> <<n, TRUE>> \in arrivals
      BY <2>1
    <2>5. ~Noticed(m)
      BY <1>5
    <2>. QED
      BY <1>2, <2>2, <2>3, <2>4, <2>5, Zenon
  <1>. QED
    BY <1>4, <1>5, NoticedOrNot

\* What has arrived did so in time or too late to be noticed.
LEMMA ArrivedMeans ==
    ASSUME NEW m
    PROVE  /\ Arrived(m) <=> <<m, TRUE>> \in arrivals \/ <<m, FALSE>> \in arrivals
           /\ Arrived(m)' <=> <<m, TRUE>> \in arrivals' \/ <<m, FALSE>> \in arrivals'
  <1>1. \A b \in BOOLEAN : b = TRUE \/ b = FALSE
    OBVIOUS
  <1>. QED
    BY <1>1 DEF Arrived

\* An arrival is heard, unless it comes too late to be noticed.
LEMMA ArrivalsHeard ==
    ASSUME ProbeTypeOK, Heard, NEW m \in Messages, Arrives(m),
           UNCHANGED <<place, outcome, drained>>
    PROVE  Heard'
  <1>1. \A n \in Messages : <<n, TRUE>> \in arrivals' => n \in Held'
    BY ArrivesTyped DEF Heard, Held
  <1>2. \A n \in ToSet(pending') : Arrived(n)'
    <2> TAKE n \in ToSet(pending')
    <2>1. CASE n = m
      BY <2>1, ArrivesTyped, ArrivedMeans
    <2>2. CASE n # m
      <3>1. Arrived(n)
        BY <2>2, ArrivesTyped DEF Heard
      <3>. QED
        BY <3>1, ArrivesTyped, ArrivedMeans
    <2>. QED
      BY <2>1, <2>2
  <1>3. place' # "done" => \A n \in {"marker", "recovery"} : <<n, FALSE>> \notin arrivals'
    BY ArrivesTyped DEF Heard, Noticed
  <1>4. Passed' => <<"recovery", TRUE>> \in arrivals'
    <2>1. Passed' => <<"recovery", TRUE>> \in arrivals
      BY DEF Heard, Passed
    <2>. QED
      BY <2>1, ArrivesTyped
  <1>. QED
    BY <1>1, <1>2, <1>3, <1>4 DEF Heard

\* A packet that is handled brings nothing, or for the first time a message
\* that was not taken out and not given up, or the valid message.
LEMMA HandleArrives ==
    ASSUME NEW packet \in Packets, Handle(packet)
    PROVE  \/ UNCHANGED <<pending, arrivals>>
           \/ /\ packet \in {"marker", "pieces"} /\ ~Takes(packet) /\ ~skipped
              /\ ~Arrived("marker") /\ Arrives("marker")
           \/ packet = "recovery" /\ ~Arrived("recovery") /\ Arrives("recovery")
  BY Names DEF Handle, Takes

\* Every step keeps the types.
LEMMA ProbeTypes == ProbeTypeOK /\ [ProbeNext]_probeVars => ProbeTypeOK'
  <1> SUFFICES ASSUME ProbeTypeOK, [ProbeNext]_probeVars PROVE ProbeTypeOK'
    OBVIOUS
  <1>1. CASE NoStream
    BY <1>1, Names
       DEF NoStream, Found, Blamed, peer, dropper, transport, ProbeTypeOK
  <1>2. CASE Begin
    BY <1>2, Names DEF Begin, Goto, peer, transport, ProbeTypeOK
  <1>3. CASE OpenInput
    BY <1>3, Names DEF OpenInput, Goto, Input, dropper, transport, ProbeTypeOK
  <1>4. CASE SendInput
    BY <1>4, Names, InputIsMalformed, RecoveryIsMessage
       DEF SendInput, Goto, Raise, Input, peer, dropper, transport, ProbeTypeOK
  <1>5. CASE SettleInput
    <2>1. pending' \in Seq(Messages) /\ drained' \subseteq Messages
      BY <1>5, DrainTyped DEF SettleInput, ProbeTypeOK
    <2>. QED
      BY <1>5, <2>1, Names, InputIsMalformed
         DEF SettleInput, Goto, dropper, transport, ProbeTypeOK
  <1>6. CASE RequireClosed
    BY <1>6, Names
       DEF RequireClosed, Found, Blamed, Goto, Input, peer, dropper, transport,
           ProbeTypeOK
  <1>7. CASE CheckInput
    <2>1. pending' \in Seq(Messages) /\ drained' \subseteq Messages
      BY <1>7, DrainTyped DEF CheckInput, ProbeTypeOK
    <2>. QED
      BY <1>7, <2>1, Names, InputIsMalformed
         DEF CheckInput, Goto, dropper, transport, ProbeTypeOK, Input
  <1>8. CASE OpenFails
    BY <1>8, Names
       DEF OpenFails, Raise, Blamed, peer, dropper, transport, ProbeTypeOK
  <1>9. CASE JudgeProbe
    <2>1. pending' \in Seq(Messages) /\ drained' \subseteq Messages
      BY <1>9, DrainTyped DEF JudgeProbe, ProbeTypeOK
    <2>. QED
      BY <1>9, <2>1, Names, InputIsMalformed
         DEF JudgeProbe, Goto, transport, ProbeTypeOK
  <1>10. CASE Recover
    BY <1>10, Names DEF Recover, Goto, peer, dropper, transport, ProbeTypeOK
  <1>11. CASE AwaitFails
    BY <1>11, Names
       DEF AwaitFails, Raise, Blamed, peer, dropper, transport, ProbeTypeOK
  <1>12. CASE Await
    <2>1. pending' \in Seq(Messages) /\ drained' \subseteq Messages
      BY <1>12, DrainTyped DEF Await, ProbeTypeOK
    <2>. QED
      BY <1>12, <2>1, Names, InputIsMalformed
         DEF Await, Goto, dropper, transport, ProbeTypeOK
  <1>13. CASE Break
    BY <1>13, Names DEF Break, Blamed, probe, dropper, transport, ProbeTypeOK
  <1>14. ASSUME NEW input \in Malformed, Reset(input) PROVE ProbeTypeOK'
    BY <1>14, Names DEF Reset, probe, dropper, transport, ProbeTypeOK
  <1>15. ASSUME NEW message \in Malformed \cup {"recovery"}, Echo(message)
      PROVE ProbeTypeOK'
    <2>1. pending' \in Seq(Messages) /\ arrivals' \subseteq Messages \X BOOLEAN
      BY <1>15, ArrivesTyped, RecoveryIsMessage DEF Echo
    <2>. QED
      BY <1>15, <2>1 DEF Echo, probe, dropper, ProbeTypeOK
  <1>16. ASSUME NEW message \in Messages, Repeat(message) PROVE ProbeTypeOK'
    <2>1. pending' \in Seq(Messages) /\ arrivals' \subseteq Messages \X BOOLEAN
      BY <1>16, ArrivesTyped, RecoveryIsMessage DEF Repeat
    <2>. QED
      BY <1>16, <2>1 DEF Repeat, probe, dropper, ProbeTypeOK
  <1>17. ASSUME NEW packet \in Packets, Handle(packet) PROVE ProbeTypeOK'
    <2>1. pending' \in Seq(Messages) /\ arrivals' \subseteq Messages \X BOOLEAN
      BY <1>17, Names, HandleArrives, ArrivesTyped DEF ProbeTypeOK
    <2>2. dropped' \in BOOLEAN /\ forwarded' \in BOOLEAN /\ skipped' \in BOOLEAN
      BY <1>17 DEF Handle, ProbeTypeOK
    <2>. QED
      BY <1>17, <2>1, <2>2 DEF Handle, probe, ProbeTypeOK
  <1>18. ASSUME NEW packet \in Packets, Transmit(packet) PROVE ProbeTypeOK'
    BY <1>18, Names DEF Transmit, Blamed, probe, peer, dropper, ProbeTypeOK
  <1>19. ASSUME NEW packet \in Packets, LosePacket(packet) PROVE ProbeTypeOK'
    BY <1>19, Names DEF LosePacket, Blamed, probe, peer, dropper, ProbeTypeOK
  <1>20. CASE UNCHANGED probeVars
    BY <1>20, Names DEF probeVars, probe, peer, dropper, transport, ProbeTypeOK
  <1>. QED
    BY <1>1, <1>2, <1>3, <1>4, <1>5, <1>6, <1>7, <1>8, <1>9, <1>10, <1>11,
        <1>12, <1>13, <1>14, <1>15, <1>16, <1>17, <1>18, <1>19, <1>20,
        RecoveryIsMessage DEF ProbeNext, Probe

\* Every step takes the probe where it may be.
LEMMA ProbeStages == ProbeTypeOK /\ Stages /\ [ProbeNext]_probeVars => Stages'
  <1> SUFFICES ASSUME ProbeTypeOK, Stages, [ProbeNext]_probeVars PROVE Stages'
    OBVIOUS
  <1>1. CASE NoStream
    BY <1>1
       DEF NoStream, Found, Blamed, peer, dropper, transport, Stages, Passed
  <1>2. CASE Begin
    BY <1>2 DEF Begin, Goto, peer, transport, Stages, Passed
  <1>3. CASE OpenInput
    BY <1>3 DEF OpenInput, Goto, Input, dropper, transport, Stages, Passed
  <1>4. CASE SendInput
    BY <1>4, Names
       DEF SendInput, Goto, Raise, Input, peer, dropper, transport, Stages,
           Passed, ProbeTypeOK
  <1>5. CASE SettleInput
    BY <1>5
       DEF SettleInput, Drain, Found, Goto, Objectionable, Input, dropper,
           transport, Stages, Passed
  <1>6. CASE RequireClosed
    BY <1>6
       DEF RequireClosed, Found, Blamed, Goto, Input, peer, dropper, transport,
           Stages, Passed
  <1>7. CASE CheckInput
    BY <1>7, Names
       DEF CheckInput, Drain, Found, Goto, Objectionable, Input, dropper,
           transport, Stages, Passed, ProbeTypeOK
  <1>8. CASE OpenFails
    BY <1>8
       DEF OpenFails, Raise, Blamed, peer, dropper, transport, Stages, Passed
  <1>9. CASE JudgeProbe
    BY <1>9
       DEF JudgeProbe, Drain, Found, Goto, ProbeFailures, transport, Stages,
           Passed
  <1>10. CASE Recover
    BY <1>10 DEF Recover, Goto, peer, dropper, transport, Stages, Passed
  <1>11. CASE AwaitFails
    BY <1>11
       DEF AwaitFails, Raise, Blamed, peer, dropper, transport, Stages, Passed
  <1>12. CASE Await
    BY <1>12 DEF Await, Drain, Goto, Found, dropper, transport, Stages, Passed
  <1>13. CASE Break
    BY <1>13 DEF Break, Blamed, probe, dropper, transport, Stages, Passed
  <1>14. ASSUME NEW input \in Malformed, Reset(input) PROVE Stages'
    BY <1>14 DEF Reset, probe, dropper, transport, Stages, Passed
  <1>15. ASSUME NEW message \in Malformed \cup {"recovery"}, Echo(message)
      PROVE Stages'
    BY <1>15 DEF Echo, Arrives, Blamed, probe, dropper, Stages, Passed
  <1>16. ASSUME NEW message \in Messages, Repeat(message) PROVE Stages'
    BY <1>16 DEF Repeat, Arrives, Blamed, probe, dropper, Stages, Passed
  <1>17. ASSUME NEW packet \in Packets, Handle(packet) PROVE Stages'
    BY <1>17 DEF Handle, Arrives, probe, Stages, Passed
  <1>18. ASSUME NEW packet \in Packets, Transmit(packet) PROVE Stages'
    BY <1>18 DEF Transmit, Blamed, probe, peer, dropper, Stages, Passed
  <1>19. ASSUME NEW packet \in Packets, LosePacket(packet) PROVE Stages'
    BY <1>19 DEF LosePacket, Blamed, probe, peer, dropper, Stages, Passed
  <1>20. CASE UNCHANGED probeVars
    BY <1>20 DEF probeVars, probe, peer, dropper, transport, Stages, Passed
  <1>. QED
    BY <1>1, <1>2, <1>3, <1>4, <1>5, <1>6, <1>7, <1>8, <1>9, <1>10, <1>11,
        <1>12, <1>13, <1>14, <1>15, <1>16, <1>17, <1>18, <1>19, <1>20,
        RecoveryIsMessage DEF ProbeNext, Probe

\* No step loses a message that can still be told.
LEMMA ProbeHeard ==
    ProbeTypeOK /\ Stages /\ Heard /\ [ProbeNext]_probeVars => Heard'
  <1> SUFFICES ASSUME ProbeTypeOK, Stages, Heard, [ProbeNext]_probeVars
      PROVE Heard'
    OBVIOUS
  <1>1. CASE NoStream
    BY <1>1
       DEF NoStream, Found, Blamed, peer, dropper, transport, Heard, Held,
           Passed, Arrived
  <1>2. CASE Begin
    BY <1>2 DEF Begin, Goto, peer, transport, Heard, Held, Passed, Arrived
  <1>3. CASE OpenInput
    BY <1>3
       DEF OpenInput, Goto, Input, dropper, transport, Heard, Held, Passed,
           Arrived
  <1>4. CASE SendInput
    BY <1>4
       DEF SendInput, Goto, Raise, Input, peer, dropper, transport, Heard,
           Held, Passed, Arrived
  <1>5. CASE SettleInput
    BY <1>5, ToSetDrained
       DEF SettleInput, Drain, Found, Goto, Objectionable, Input, dropper,
           transport, Heard, Held, Passed, Arrived
  <1>6. CASE RequireClosed
    BY <1>6
       DEF RequireClosed, Found, Blamed, Goto, Input, peer, dropper, transport,
           Heard, Held, Passed, Arrived
  <1>7. CASE CheckInput
    BY <1>7, ToSetDrained
       DEF CheckInput, Drain, Found, Goto, Objectionable, Input, dropper,
           transport, Heard, Held, Passed, Arrived
  <1>8. CASE OpenFails
    BY <1>8
       DEF OpenFails, Raise, Blamed, peer, dropper, transport, Heard, Held,
           Passed, Arrived
  <1>9. CASE JudgeProbe
    BY <1>9, ToSetDrained
       DEF JudgeProbe, Drain, Found, Goto, ProbeFailures, transport, Heard,
           Held, Passed, Arrived
  <1>10. CASE Recover
    BY <1>10
       DEF Recover, Goto, peer, dropper, transport, Heard, Held, Passed,
           Arrived
  <1>11. CASE AwaitFails
    BY <1>11
       DEF AwaitFails, Raise, Blamed, peer, dropper, transport, Heard, Held,
           Passed, Arrived
  <1>12. CASE Await
    <2>1. /\ Held' = Held /\ ToSet(pending') = {} /\ UNCHANGED arrivals
          /\ place' = "done"
      BY <1>12, ToSetDrained DEF Await, Drain, Goto, Held, transport
    <2>2. ASSUME Passed' PROVE <<"recovery", TRUE>> \in arrivals
      <3>1. Recovered(pending)
        BY <1>12, <2>2 DEF Await, Found, Passed
      <3>2. PICK i \in DOMAIN pending : pending[i] = "recovery"
        BY <3>1 DEF Recovered, Own
      <3>3. "recovery" \in ToSet(pending)
        BY <3>2 DEF ToSet
      <3>. QED
        BY <1>12, <3>3, ArrivedMeans DEF Heard, Await
    <2>. QED
      BY <2>1, <2>2 DEF Heard
  <1>13. CASE Break
    BY <1>13
       DEF Break, Blamed, probe, dropper, transport, Heard, Held, Passed,
           Arrived
  <1>14. ASSUME NEW input \in Malformed, Reset(input) PROVE Heard'
    BY <1>14 DEF Reset, probe, dropper, transport, Heard, Held, Passed, Arrived
  <1>15. ASSUME NEW message \in Malformed \cup {"recovery"}, Echo(message)
      PROVE Heard'
    BY <1>15, ArrivalsHeard, RecoveryIsMessage DEF Echo, probe
  <1>16. ASSUME NEW message \in Messages, Repeat(message) PROVE Heard'
    BY <1>16, ArrivalsHeard, RecoveryIsMessage DEF Repeat, probe
  <1>17. ASSUME NEW packet \in Packets, Handle(packet) PROVE Heard'
    <2>1. UNCHANGED <<place, outcome, drained>>
      BY <1>17 DEF Handle, probe
    <2>2. CASE UNCHANGED <<pending, arrivals>>
      BY <2>1, <2>2 DEF Heard, Held, Passed, Arrived
    <2>. QED
      BY <1>17, <2>1, <2>2, Names, HandleArrives, ArrivalsHeard
  <1>18. ASSUME NEW packet \in Packets, Transmit(packet) PROVE Heard'
    BY <1>18
       DEF Transmit, Blamed, probe, peer, dropper, Heard, Held, Passed, Arrived
  <1>19. ASSUME NEW packet \in Packets, LosePacket(packet) PROVE Heard'
    BY <1>19
       DEF LosePacket, Blamed, probe, peer, dropper, Heard, Held, Passed,
           Arrived
  <1>20. CASE UNCHANGED probeVars
    BY <1>20
       DEF probeVars, probe, peer, dropper, transport, Heard, Held, Passed,
           Arrived
  <1>. QED
    BY <1>1, <1>2, <1>3, <1>4, <1>5, <1>6, <1>7, <1>8, <1>9, <1>10, <1>11,
        <1>12, <1>13, <1>14, <1>15, <1>16, <1>17, <1>18, <1>19, <1>20,
        RecoveryIsMessage DEF ProbeNext, Probe

\* An input is looked for, and its stream waited for, before it counts as
\* rejected.
LEMMA ProbeRejected ==
    ProbeTypeOK /\ Stages /\ Heard /\ Rejected
    /\ [ProbeNext]_probeVars => Rejected'
  <1> SUFFICES ASSUME ProbeTypeOK, Stages, Heard, Rejected, [ProbeNext]_probeVars
      PROVE Rejected'
    OBVIOUS
  <1>1. CASE NoStream
    BY <1>1
       DEF NoStream, Found, Blamed, peer, dropper, transport, Rejected, Passed
  <1>2. CASE Begin
    BY <1>2 DEF Begin, Goto, peer, transport, Rejected, Passed
  <1>3. CASE OpenInput
    BY <1>3, Names
       DEF OpenInput, Goto, Input, dropper, transport, Rejected, Passed,
           ProbeTypeOK, Stages
  <1>4. CASE SendInput
    BY <1>4, Names
       DEF SendInput, Goto, Raise, Input, peer, dropper, transport, Rejected,
           Passed, ProbeTypeOK, Stages
  <1>5. CASE SettleInput
    BY <1>5, Names, ToSetDrained, RecoveryIsMessage
       DEF SettleInput, Drain, Found, Goto, Objectionable, Input, dropper,
           transport, Rejected, Passed, ProbeTypeOK, Stages, Heard, Held
  <1>6. CASE RequireClosed
    BY <1>6
       DEF RequireClosed, Found, Blamed, Goto, Input, peer, dropper, transport,
           Rejected, Passed
  <1>7. CASE CheckInput
    <2> SUFFICES ASSUME kind' = "malformed", failures' = {} PROVE Rejected'
      BY DEF Rejected
    <2>1. /\ kind = "malformed" /\ failures = {} /\ stage \in 1..4
          /\ outcome' = "none" /\ place = "check" /\ UNCHANGED arrivals
      BY <1>7, Names DEF CheckInput, Found, Stages, ProbeTypeOK, transport
    <2>2. /\ \A i \in 1..4 : i <= stage => stream[Inputs[i]] = "reset"
          /\ \A m \in Malformed : stage = 4 => <<m, TRUE>> \notin arrivals
      BY <2>1, Names DEF Rejected
    <2>3. UNCHANGED stream
      BY <1>7, <2>1, <2>2 DEF CheckInput, Input
    <2>4. CASE stage = 4
      <3>1. Input = "oversized" /\ UNCHANGED stage /\ place' = "recover"
        BY <1>7, <2>4, Names DEF CheckInput, Input, Goto
      <3>. QED
        BY <2>1, <2>2, <2>3, <2>4, <3>1, Names DEF Rejected, Passed
    <2>5. CASE stage = 3
      <3>1. stage' = 4 /\ place' = "open" /\ drained' = {} /\ Held' = Held
        BY <1>7, <2>5, Names, ToSetDrained
           DEF CheckInput, Input, Found, Objectionable, Drain, Held
      <3>2. pending' = <<>>
        BY <1>7, <2>5, Names DEF CheckInput, Input, Drain
      <3>3. Held' = {}
        BY <3>1, <3>2, ToSetDrained DEF Held
      <3>4. \A m \in Malformed : <<m, TRUE>> \notin arrivals
        BY <3>1, <3>3, RecoveryIsMessage DEF Heard
      <3>. QED
        BY <2>1, <2>2, <2>3, <2>5, <3>1, <3>4, Names DEF Rejected, Passed
    <2>6. CASE stage \in 1..2
      <3>1. stage' = stage + 1 /\ stage' # 4 /\ place' \in {"open", "send"}
        BY <1>7, <2>6, Names DEF CheckInput, Input
      <3>. QED
        BY <2>1, <2>2, <2>3, <2>6, <3>1, Names DEF Rejected, Passed
    <2>. QED
      BY <2>1, <2>4, <2>5, <2>6
  <1>8. CASE OpenFails
    BY <1>8
       DEF OpenFails, Raise, Blamed, peer, dropper, transport, Rejected, Passed
  <1>9. CASE JudgeProbe
    BY <1>9, Names
       DEF JudgeProbe, Drain, Found, Goto, ProbeFailures, transport, Rejected,
           Passed, ProbeTypeOK, Stages
  <1>10. CASE Recover
    BY <1>10 DEF Recover, Goto, peer, dropper, transport, Rejected, Passed
  <1>11. CASE AwaitFails
    BY <1>11
       DEF AwaitFails, Raise, Blamed, peer, dropper, transport, Rejected,
           Passed
  <1>12. CASE Await
    BY <1>12, Names
       DEF Await, Drain, Goto, Found, dropper, transport, Rejected, Passed,
           ProbeTypeOK, Stages
  <1>13. CASE Break
    BY <1>13 DEF Break, Blamed, probe, dropper, transport, Rejected, Passed
  <1>14. ASSUME NEW input \in Malformed, Reset(input) PROVE Rejected'
    BY <1>14, Names
       DEF Reset, probe, dropper, transport, Rejected, Passed, ProbeTypeOK,
           Stages
  <1>15. ASSUME NEW message \in Malformed \cup {"recovery"}, Echo(message)
      PROVE Rejected'
    <2> SUFFICES ASSUME kind' = "malformed", failures' = {} PROVE Rejected'
      BY DEF Rejected
    <2>1. /\ kind = "malformed" /\ failures = {}
          /\ UNCHANGED <<place, stage, stream, outcome>> /\ Arrives(message)
      BY <1>15 DEF Echo, probe
    <2>2. ASSUME NEW m \in Malformed, stage = 4, <<m, TRUE>> \in arrivals',
                 m = "oversized" =>
                     place \in {"reset", "check", "recover", "await"} \/ Passed
          PROVE  FALSE
      <3>1. m = message /\ Noticed(m)
        <4>1. <<m, TRUE>> \notin arrivals
          BY <2>1, <2>2 DEF Rejected
        <4>2. message \in Messages
          BY RecoveryIsMessage
        <4>. QED
          BY <2>1, <2>2, <4>1, <4>2, ArrivesTyped
      <3>2. place # "done"
        BY <1>15 DEF Echo
      <3>. QED
        BY <2>1, <2>2, <3>1, <3>2, Names DEF Noticed, Stages, Passed
    <2>. QED
      BY <2>1, <2>2 DEF Rejected, Passed
  <1>16. ASSUME NEW message \in Messages, Repeat(message) PROVE Rejected'
    <2> SUFFICES ASSUME kind' = "malformed", failures' = {} PROVE Rejected'
      BY DEF Rejected
    <2>1. /\ kind = "malformed" /\ failures = {}
          /\ UNCHANGED <<place, stage, stream, outcome>> /\ Arrives(message)
      BY <1>16 DEF Repeat, probe
    <2>2. ASSUME NEW m \in Malformed, stage = 4, <<m, TRUE>> \in arrivals',
                 m = "oversized" =>
                     place \in {"reset", "check", "recover", "await"} \/ Passed
          PROVE  FALSE
      <3>1. m = message /\ Noticed(m)
        <4>1. <<m, TRUE>> \notin arrivals
          BY <2>1, <2>2 DEF Rejected
        <4>2. message \in Messages
          BY RecoveryIsMessage
        <4>. QED
          BY <2>1, <2>2, <4>1, <4>2, ArrivesTyped
      <3>2. place # "done"
        BY <1>16 DEF Repeat
      <3>. QED
        BY <2>1, <2>2, <3>1, <3>2, Names DEF Noticed, Stages, Passed
    <2>. QED
      BY <2>1, <2>2 DEF Rejected, Passed
  <1>17. ASSUME NEW packet \in Packets, Handle(packet) PROVE Rejected'
    BY <1>17, Names
       DEF Handle, Arrives, probe, Rejected, Passed, ProbeTypeOK, Stages
  <1>18. ASSUME NEW packet \in Packets, Transmit(packet) PROVE Rejected'
    BY <1>18 DEF Transmit, Blamed, probe, peer, dropper, Rejected, Passed
  <1>19. ASSUME NEW packet \in Packets, LosePacket(packet) PROVE Rejected'
    BY <1>19 DEF LosePacket, Blamed, probe, peer, dropper, Rejected, Passed
  <1>20. CASE UNCHANGED probeVars
    BY <1>20 DEF probeVars, probe, peer, dropper, transport, Rejected, Passed
  <1>. QED
    BY <1>1, <1>2, <1>3, <1>4, <1>5, <1>6, <1>7, <1>8, <1>9, <1>10, <1>11,
        <1>12, <1>13, <1>14, <1>15, <1>16, <1>17, <1>18, <1>19, <1>20,
        RecoveryIsMessage DEF ProbeNext, Probe

\* The message has to be gone before the probe goes on without a failure.
LEMMA ProbeAbandoned ==
    ProbeTypeOK /\ Stages /\ Heard /\ Abandoned
    /\ [ProbeNext]_probeVars => Abandoned'
  <1> SUFFICES ASSUME ProbeTypeOK, Stages, Heard, Abandoned, [ProbeNext]_probeVars
      PROVE Abandoned'
    OBVIOUS
  <1>1. CASE NoStream
    BY <1>1
       DEF NoStream, Found, Blamed, peer, dropper, transport, Abandoned, Passed
  <1>2. CASE Begin
    BY <1>2 DEF Begin, Goto, peer, transport, Abandoned, Passed
  <1>3. CASE OpenInput
    BY <1>3 DEF OpenInput, Goto, Input, dropper, transport, Abandoned, Passed
  <1>4. CASE SendInput
    BY <1>4
       DEF SendInput, Goto, Raise, Input, peer, dropper, transport, Abandoned,
           Passed
  <1>5. CASE SettleInput
    BY <1>5
       DEF SettleInput, Drain, Found, Goto, Objectionable, Input, dropper,
           transport, Abandoned, Passed
  <1>6. CASE RequireClosed
    BY <1>6
       DEF RequireClosed, Found, Blamed, Goto, Input, peer, dropper, transport,
           Abandoned, Passed
  <1>7. CASE CheckInput
    BY <1>7
       DEF CheckInput, Drain, Found, Goto, Objectionable, Input, dropper,
           transport, Abandoned, Passed, Stages
  <1>8. CASE OpenFails
    BY <1>8
       DEF OpenFails, Raise, Blamed, peer, dropper, transport, Abandoned,
           Passed
  <1>9. CASE JudgeProbe
    BY <1>9
       DEF JudgeProbe, Drain, Found, Goto, ProbeFailures, transport, Abandoned,
           Passed
  <1>10. CASE Recover
    BY <1>10 DEF Recover, Goto, peer, dropper, transport, Abandoned, Passed
  <1>11. CASE AwaitFails
    BY <1>11
       DEF AwaitFails, Raise, Blamed, peer, dropper, transport, Abandoned,
           Passed
  <1>12. CASE Await
    <2> SUFFICES ASSUME kind = "partial" PROVE Abandoned'
      BY <1>12 DEF Await, Abandoned
    <2>1. /\ place = "await" /\ place' = "done" /\ failures \subseteq failures'
          /\ UNCHANGED <<forwarded, dropped, skipped, inFlight, blame, arrivals>>
      BY <1>12 DEF Await, Goto, Found, dropper, transport
    <2>2. ASSUME Passed'
        PROVE <<"marker", TRUE>> \notin arrivals /\ failures' = {}
      <3>1. Recovered(pending) /\ failures' = {}
        BY <1>12, <2>2 DEF Await, Found, Passed
      <3>2. "marker" \notin ToSet(pending)
        <4>1. \A i \in DOMAIN pending : pending[i] \notin Malformed => pending[i] = "recovery"
          BY <3>1 DEF Recovered, Own
        <4>2. "marker" \notin Malformed
          BY Names
        <4>. QED
          BY <4>1, <4>2 DEF ToSet
      <3>3. "marker" \notin drained
        BY <2>1, <3>1 DEF Abandoned
      <3>. QED
        BY <3>1, <3>2, <3>3, Names DEF Heard, Held
    <2>. QED
      BY <2>1, <2>2 DEF Abandoned
  <1>13. CASE Break
    BY <1>13 DEF Break, Blamed, probe, dropper, transport, Abandoned, Passed
  <1>14. ASSUME NEW input \in Malformed, Reset(input) PROVE Abandoned'
    BY <1>14 DEF Reset, probe, dropper, transport, Abandoned, Passed
  <1>15. ASSUME NEW message \in Malformed \cup {"recovery"}, Echo(message)
      PROVE Abandoned'
    BY <1>15 DEF Echo, Arrives, Blamed, probe, dropper, Abandoned, Passed
  <1>16. ASSUME NEW message \in Messages, Repeat(message) PROVE Abandoned'
    BY <1>16, Names
       DEF Repeat, Arrives, Blamed, probe, dropper, Abandoned, Passed, Stages,
           Noticed, ProbeTypeOK
  <1>17. ASSUME NEW packet \in Packets, Handle(packet) PROVE Abandoned'
    <2> SUFFICES ASSUME kind = "partial" PROVE Abandoned'
      BY <1>17 DEF Handle, Abandoned
    <2>1. /\ UNCHANGED <<place, failures, outcome, drained, blame>>
          /\ packet \in inFlight /\ inFlight' = inFlight \ {packet}
      BY <1>17 DEF Handle, probe
    <2>2. /\ forwarded' => forwarded \/ packet = "forward" \/ packet = "foreign"
          /\ forwarded => forwarded'
          /\ dropped => dropped'
          /\ skipped' <=> skipped \/ packet = "forward"
      BY <1>17 DEF Handle
    <2>3. ASSUME Passed PROVE <<"marker", TRUE>> \notin arrivals'
      <3>1. place = "done" /\ <<"marker", TRUE>> \notin arrivals
        BY <2>3 DEF Abandoned, Stages, Passed
      <3>. QED
        BY <1>17, <3>1, HandleArrives, ArrivesTyped, Names DEF Noticed
    <2>. QED
      BY <2>1, <2>2, <2>3 DEF Abandoned, Passed
  <1>18. ASSUME NEW packet \in Packets, Transmit(packet) PROVE Abandoned'
    BY <1>18 DEF Transmit, Blamed, probe, peer, dropper, Abandoned, Passed
  <1>19. ASSUME NEW packet \in Packets, LosePacket(packet) PROVE Abandoned'
    BY <1>19 DEF LosePacket, Blamed, probe, peer, dropper, Abandoned, Passed
  <1>20. CASE UNCHANGED probeVars
    BY <1>20 DEF probeVars, probe, peer, dropper, transport, Abandoned, Passed
  <1>. QED
    BY <1>1, <1>2, <1>3, <1>4, <1>5, <1>6, <1>7, <1>8, <1>9, <1>10, <1>11,
        <1>12, <1>13, <1>14, <1>15, <1>16, <1>17, <1>18, <1>19, <1>20,
        RecoveryIsMessage DEF ProbeNext, Probe

\* A step without blame finds no failure.
LEMMA ProbeBlameless ==
    ProbeTypeOK /\ Stages /\ Heard /\ Abandoned /\ Blameless
    /\ [ProbeNext]_probeVars => Blameless'
  <1> SUFFICES ASSUME ProbeTypeOK, Stages, Heard, Abandoned, Blameless, [ProbeNext]_probeVars
      PROVE Blameless'
    OBVIOUS
  <1>1. CASE NoStream
    BY <1>1
       DEF NoStream, Found, Blamed, peer, dropper, transport, Blameless,
           Arrived
  <1>2. CASE Begin
    BY <1>2 DEF Begin, Goto, peer, transport, Blameless, Arrived
  <1>3. CASE OpenInput
    BY <1>3 DEF OpenInput, Goto, Input, dropper, transport, Blameless, Arrived
  <1>4. CASE SendInput
    BY <1>4
       DEF SendInput, Goto, Raise, Input, peer, dropper, transport, Blameless,
           Arrived
  <1>5. CASE SettleInput
    <2> SUFFICES ASSUME blame = {} PROVE Blameless'
      BY <1>5 DEF SettleInput, Blameless
    <2>1. /\ kind = "malformed" /\ place = "settle" /\ stage = 4
          /\ Input = "oversized"
      BY <1>5, Names DEF SettleInput, Stages, ProbeTypeOK, Input
    <2>2. pending = <<>> /\ drained = {}
      BY <2>1 DEF Blameless
    <2>3. drained' = {} /\ pending' = <<>> /\ ~Objectionable(drained')
      BY <1>5, <2>1, <2>2, ToSetDrained DEF SettleInput, Drain, Objectionable
    <2>. QED
      BY <1>5, <2>1, <2>2, <2>3
         DEF SettleInput, Found, Goto, dropper, transport, Blameless, Arrived
  <1>6. CASE RequireClosed
    BY <1>6
       DEF RequireClosed, Found, Blamed, Goto, Input, peer, dropper, transport,
           Blameless, Arrived
  <1>7. CASE CheckInput
    <2> SUFFICES ASSUME blame = {} PROVE Blameless'
      BY <1>7 DEF CheckInput, Blameless
    <2>1. kind = "malformed" /\ place = "check"
      BY <1>7 DEF CheckInput, Stages, ProbeTypeOK
    <2>2. pending = <<>> /\ drained = {} /\ connected
      BY <2>1 DEF Blameless
    <2>3. /\ drained' = {} /\ pending' = <<>>
          /\ Input = "control" => ~Objectionable(drained')
      BY <1>7, <2>1, <2>2, ToSetDrained DEF CheckInput, Drain, Objectionable
    <2>4. /\ place' # "done"
          /\ UNCHANGED <<kind, connected, blame, arrivals, failures, outcome>>
      BY <1>7, <2>1, <2>2, <2>3 DEF CheckInput, Found, Goto, transport
    <2>. QED
      BY <2>1, <2>2, <2>3, <2>4 DEF Blameless, Arrived
  <1>8. CASE OpenFails
    BY <1>8
       DEF OpenFails, Raise, Blamed, peer, dropper, transport, Blameless,
           Arrived
  <1>9. CASE JudgeProbe
    <2> SUFFICES ASSUME blame' = {} PROVE Blameless'
      BY DEF Blameless
    <2>1. /\ kind = "partial" /\ place = "forward" /\ blame = {} /\ forwarded
          /\ UNCHANGED <<kind, connected, blame, arrivals, outcome, dropped, forwarded,
                         inFlight, tried, skipped>>
      BY <1>9 DEF JudgeProbe, Stages, ProbeTypeOK, transport
    <2>2. pending = <<>> /\ drained = {} /\ dropped
      BY <2>1 DEF Blameless, Abandoned
    <2>3. drained' = {} /\ pending' = <<>> /\ place' = "recover"
      BY <1>9, <2>1, <2>2, ToSetDrained DEF JudgeProbe, Drain, Goto
    <2>4. UNCHANGED failures
      BY <1>9, <2>1, <2>2, <2>3 DEF JudgeProbe, Found, ProbeFailures
    <2>. QED
      BY <2>1, <2>2, <2>3, <2>4 DEF Blameless, Arrived
  <1>10. CASE Recover
    BY <1>10 DEF Recover, Goto, peer, dropper, transport, Blameless, Arrived
  <1>11. CASE AwaitFails
    BY <1>11
       DEF AwaitFails, Raise, Blamed, peer, dropper, transport, Blameless,
           Arrived
  <1>12. CASE Await
    <2> SUFFICES ASSUME blame = {} PROVE Blameless'
      BY <1>12 DEF Await, Blameless
    <2>1. /\ place = "await" /\ place' = "done" /\ failures = {} /\ connected
          /\ UNCHANGED <<kind, connected, blame, arrivals>>
      BY <1>12 DEF Await, Goto, transport, Blameless
    <2>2. pending # <<>>
      BY <1>12 DEF Await, Own
    <2>3. pending = <<"recovery">>
      BY <2>1, <2>2 DEF Blameless
    <2>4. Recovered(pending)
      <3>1. DOMAIN pending = {1} /\ pending[1] = "recovery"
        BY <2>3
      <3>2. Own(pending) = {1}
        BY <3>1, Names DEF Own
      <3>. QED
        BY <3>1, <3>2 DEF Recovered
    <2>5. failures' = {} /\ outcome' = "PASS"
      BY <1>12, <2>1, <2>4 DEF Await, Found
    <2>. QED
      BY <2>1, <2>5 DEF Blameless, Arrived
  <1>13. CASE Break
    BY <1>13 DEF Break, Blamed, probe, dropper, transport, Blameless, Arrived
  <1>14. ASSUME NEW input \in Malformed, Reset(input) PROVE Blameless'
    BY <1>14 DEF Reset, probe, dropper, transport, Blameless, Arrived
  <1>15. ASSUME NEW message \in Malformed \cup {"recovery"}, Echo(message)
      PROVE Blameless'
    <2> SUFFICES ASSUME blame' = {} PROVE Blameless'
      BY DEF Blameless
    <2>1. /\ message = "recovery" /\ blame = {} /\ kind = "malformed"
          /\ place # "done" /\ "recovery" \in given /\ ~Arrived("recovery")
          /\ UNCHANGED <<kind, place, connected, failures, outcome, drained>>
          /\ Arrives("recovery")
      <3>1. message \notin Malformed
        BY <1>15 DEF Echo, Blamed
      <3>. QED
        BY <1>15, <3>1 DEF Echo, probe
    <2>2. place = "await" /\ pending = <<>>
      <3>1. pending = <<"recovery">> => "recovery" \in ToSet(pending)
        BY DEF ToSet
      <3>. QED
        BY <2>1, <3>1 DEF Blameless, Heard, Stages
    <2>3. pending' = <<"recovery">>
      BY <2>1, <2>2 DEF Arrives
    <2>4. \A m \in Malformed : ~Arrived(m)'
      BY <2>1, Names, ArrivesTyped, ArrivedMeans DEF Blameless
    <2>. QED
      BY <2>1, <2>2, <2>3, <2>4 DEF Blameless
  <1>16. ASSUME NEW message \in Messages, Repeat(message) PROVE Blameless'
    BY <1>16 DEF Repeat, Arrives, Blamed, probe, dropper, Blameless, Arrived
  <1>17. ASSUME NEW packet \in Packets, Handle(packet) PROVE Blameless'
    <2> SUFFICES ASSUME blame = {} PROVE Blameless'
      BY <1>17 DEF Handle, Blameless
    <2>1. /\ kind = "partial"
          /\ UNCHANGED <<kind, place, connected, failures, outcome, drained, blame, tried>>
          /\ packet \in inFlight /\ inFlight' = inFlight \ {packet}
      BY <1>17 DEF Handle, probe, Stages, ProbeTypeOK
    <2>2. CASE place = "done"
      BY <2>1, <2>2 DEF Blameless
    <2>3. CASE place # "done"
      <3>1. /\ drained = {} /\ "pieces" \notin inFlight
            /\ skipped => dropped
            /\ tried => "marker" \in inFlight \/ dropped
            /\ place \in {"recover", "await"} => skipped
            /\ "forward" \in inFlight => tried
        BY <2>1, <2>3 DEF Blameless, Abandoned
      <3>2. ~Arrived("marker")
        <4>1. pending = <<>> \/ pending = <<"recovery">>
          BY <2>3 DEF Blameless
        <4>2. "marker" \notin ToSet(pending)
          BY <4>1 DEF ToSet
        <4>. QED
          BY <2>3, <3>1, <4>2, Names, ArrivedMeans DEF Heard, Held
      <3>3. packet = "marker" /\ ~skipped => Takes(packet)
        BY <2>1, <2>3, <3>1 DEF Takes, Stages
      <3>4. /\ dropped' <=> dropped \/ Takes(packet)
            /\ forwarded => forwarded'
            /\ skipped' <=> skipped \/ packet = "forward"
            /\ packet = "forward" => "marker" \notin inFlight
        BY <1>17 DEF Handle
      <3>5. skipped' => dropped'
        BY <2>1, <3>1, <3>4
      <3>6. tried' => "marker" \in inFlight' \/ dropped'
        BY <2>1, <3>1, <3>3, <3>4
      <3>7. \/ pending' = <<>> /\ \A m \in Messages : ~Arrived(m)'
            \/ pending' = <<"recovery">> /\ place = "await"
        <4>1. CASE UNCHANGED <<pending, arrivals>>
          BY <2>3, <4>1 DEF Blameless, Arrived
        <4>2. CASE packet = "recovery" /\ ~Arrived("recovery")
                   /\ Arrives("recovery")
          <5>1. place = "await"
            BY <2>1, <2>3, <4>2 DEF Stages
          <5>2. pending # <<"recovery">>
            <6>1. pending = <<"recovery">> => "recovery" \in ToSet(pending)
              BY DEF ToSet
            <6>. QED
              BY <4>2, <6>1 DEF Heard
          <5>3. pending = <<>>
            BY <2>3, <5>2 DEF Blameless
          <5>. QED
            BY <4>2, <5>1, <5>3 DEF Arrives
        <4>. QED
          BY <1>17, <2>1, <3>1, <3>3, <4>1, <4>2, HandleArrives
      <3>. QED
        BY <2>1, <2>3, <3>1, <3>4, <3>5, <3>6, <3>7 DEF Blameless
    <2>. QED
      BY <2>2, <2>3
  <1>18. ASSUME NEW packet \in Packets, Transmit(packet) PROVE Blameless'
    BY <1>18 DEF Transmit, Blamed, probe, peer, dropper, Blameless, Arrived
  <1>19. ASSUME NEW packet \in Packets, LosePacket(packet) PROVE Blameless'
    BY <1>19 DEF LosePacket, Blamed, probe, peer, dropper, Blameless, Arrived
  <1>20. CASE UNCHANGED probeVars
    BY <1>20 DEF probeVars, probe, peer, dropper, transport, Blameless, Arrived
  <1>. QED
    BY <1>1, <1>2, <1>3, <1>4, <1>5, <1>6, <1>7, <1>8, <1>9, <1>10, <1>11,
        <1>12, <1>13, <1>14, <1>15, <1>16, <1>17, <1>18, <1>19, <1>20,
        RecoveryIsMessage DEF ProbeNext, Probe

\* The invariant holds initially.
LEMMA InitiallyProbe == ProbeInit => PInv
  <1>1. ASSUME ProbeInit PROVE ProbeTypeOK
    <2>1. stage \in DOMAIN Inputs
      BY <1>1, Names DEF ProbeInit
    <2>2. stream \in [Malformed -> {"none", "open", "reset", "closed"}]
      BY <1>1 DEF ProbeInit
    <2>3. pending \in Seq(Messages)
      BY <1>1, EmptySeq DEF ProbeInit
    <2>. QED
      BY <1>1, <2>1, <2>2, <2>3 DEF ProbeInit, ProbeTypeOK
  <1>2. ProbeInit => Stages /\ Heard /\ Rejected /\ Abandoned /\ Blameless
    BY Names, ToSetDrained
       DEF ProbeInit, Stages, Heard, Rejected, Abandoned, Blameless, Passed,
           Held, Arrived
  <1>. QED
    BY <1>1, <1>2 DEF PInv

\* It holds always.
LEMMA ProbeCorrect == ProbeSpec => []PInv
  <1>1. PInv /\ [ProbeNext]_probeVars => PInv'
    BY ProbeTypes, ProbeStages, ProbeHeard, ProbeRejected, ProbeAbandoned,
       ProbeBlameless
       DEF PInv
  <1>. QED
    BY <1>1, InitiallyProbe, PTL DEF ProbeSpec

\* The variables of the probes keep their types.
THEOREM ProbeTypeCorrect == ProbeSpec => []ProbeTypeOK
  <1>1. PInv => ProbeTypeOK
    BY DEF PInv
  <1>. QED
    BY <1>1, ProbeCorrect, PTL

\* However often and however late baresip sends back what it should have
\* refused, and whenever the connection breaks or a stream is reset: when the
\* malformed inputs pass, baresip itself has reset the stream of each, none of
\* them arrived before the probe stopped to look, and the valid message came
\* back (exercise_malformed_inputs, rejected_message_failures).
THEOREM PassIsRejected == ProbeSpec => []PassMeansRejected
  <1>1. PInv => PassMeansRejected
    <2> SUFFICES ASSUME PInv, outcome = "PASS", kind = "malformed"
                 PROVE  PassMeansRejected
      BY DEF PassMeansRejected
    <2>1. Passed /\ failures = {} /\ stage = 4 /\ Rejected /\ Heard
      BY DEF PInv, Passed, Stages
    <2>. QED
      BY <2>1, Names DEF Rejected, Heard, PassMeansRejected
  <1>. QED
    BY <1>1, ProbeCorrect, PTL

\* However often a packet is sent again, lost or overtaken: when partial
\* reliability passes, the message was taken out, the peer never got it, and
\* baresip gave it up or an earlier one (exercise_partial_reliability,
\* PartialReliabilityDropper, partial_reliability_failures).
THEOREM PassIsAbandoned == ProbeSpec => []PassMeansAbandoned
  <1>1. PInv => PassMeansAbandoned
    BY DEF PInv, Passed, Stages, Abandoned, Heard, PassMeansAbandoned
  <1>. QED
    BY <1>1, ProbeCorrect, PTL

\* And neither probe fails unless something can be held against baresip, the
\* network or a deadline (exercise_malformed_inputs,
\* exercise_partial_reliability).
THEOREM ProbeNotBlamed == ProbeSpec => []NoFalseFailure
  <1>1. PInv => NoFalseFailure
    BY DEF PInv, Blameless, NoFalseFailure
  <1>. QED
    BY <1>1, ProbeCorrect, PTL

=============================================================================
