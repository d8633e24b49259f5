------------------------ MODULE TurnImpairment_proofs ------------------------
(***************************************************************************)
(* Proofs about the impaired packet connection, for every choice of the    *)
(* impairment periods, limits and delays and any number of datagrams.      *)
(***************************************************************************)
EXTENDS TurnImpairment, TLAPS, SequenceTheorems, FiniteSetTheorems

USE PeriodsAssumption, LimitsAssumption

\* A packet is doubled exactly when its number is due.
LEMMA CopiesProperties ==
    ASSUME NEW p \in Packet
    PROVE  /\ Copies(p) \in Seq(Packet)
           /\ Tail(Copies(p)) \in Seq(Packet)
           /\ Len(Copies(p)) = IF Duplicated(p) THEN 2 ELSE 1
           /\ Len(Copies(p)) \in 1..2
           /\ Len(Tail(Copies(p))) = Len(Copies(p)) - 1
  BY DEF Copies

LEMMA NoPacketType == NoPacket \in Packet
  BY DEF NoPacket, Packet

LEMMA CountProperties ==
    ASSUME stats \in [Counters -> Nat], NEW S
    PROVE  /\ Count(S) \in [Counters -> Nat]
           /\ \A c \in Counters :
                 Count(S)[c] = IF c \in S THEN stats[c] + 1 ELSE stats[c]
  BY DEF Count

\* The delay of a packet is an integer: the jitter divides by a positive
\* number of steps and the bandwidth only where it is positive.
LEMMA WaitType ==
    ASSUME NEW p \in Packet
    PROVE  Wait(p) \in Int /\ Millis(Wait(p)) \in Int
  <1>1. 2 * (Jitter \div 1000) + 1 \in Nat \ {0}
    OBVIOUS
  <1>2. JitterOffset(p.seq) \in Int
    <2> DEFINE steps == 2 * (Jitter \div 1000) + 1
    <2>1. p.seq \in Nat
      BY DEF Packet
    <2>2. steps \in Nat \ {0}
      BY <1>1
    <2> HIDE DEF steps
    <2>3. (p.seq % steps) - (steps \div 2) \in Int
      BY <2>1, <2>2
    <2> QED
      BY <2>3 DEF JitterOffset, steps
  <1>3. TransmissionTime(p.size) \in Int
    <2>1. 8000 * p.size \in Nat
      BY DEF Packet
    <2> QED
      BY <2>1 DEF TransmissionTime
  <1> QED
    BY <1>2, <1>3 DEF Wait, Millis

-----------------------------------------------------------------------------
\* Every action keeps the types.
LEMMA TypeStep == TypeOK /\ [Next]_vars => TypeOK'
  <1> SUFFICES ASSUME TypeOK, [Next]_vars PROVE TypeOK'
    OBVIOUS
  <1> USE NoPacketType DEF TypeOK
  <1>1. CASE ServeReady
    BY <1>1 DEF ServeReady, delays
  <1>2. CASE CallRead
    BY <1>2 DEF CallRead, delays
  <1>3. ASSUME NEW size \in Sizes, NEW data \in BOOLEAN, Receive(size, data)
        PROVE  TypeOK'
    BY <1>3, CountProperties DEF Receive, Packet, delays
  <1>4. CASE ReadError
    BY <1>4 DEF ReadError, delays
  <1>5. CASE DropOversized
    BY <1>5, CountProperties DEF DropOversized, delays
  <1>6. CASE DropPeriodically
    BY <1>6, CountProperties DEF DropPeriodically, delays
  <1>7. CASE StartWait
    <2>1. stats' \in [Counters -> Nat]
      BY <1>7, CountProperties DEF StartWait
    <2>2. minDelay' \in Int /\ maxDelay' \in Int
      <3>1. Millis(Wait(input)) \in Int
        BY WaitType
      <3> QED
        BY <1>7, <3>1 DEF StartWait, delays
    <2> QED
      BY <1>7, <2>1, <2>2 DEF StartWait
  <1>8. CASE TakeCurrent
    BY <1>8, CountProperties DEF TakeCurrent, delays
  <1>9. CASE TakeNext
    BY <1>9, CountProperties DEF TakeNext, delays
  <1>10. CASE ReturnCurrent
    BY <1>10, CopiesProperties DEF ReturnCurrent, delays
  <1>11. CASE ReturnNext
    BY <1>11, CopiesProperties DEF ReturnNext, delays
  <1>12. CASE UNCHANGED vars
    BY <1>12 DEF vars
  <1> QED
    BY <1>1, <1>2, <1>3, <1>4, <1>5, <1>6, <1>7, <1>8, <1>9, <1>10, <1>11,
       <1>12 DEF Next, Work

\* Every variable keeps its type, whatever arrives (every action).
THEOREM TypeCorrect == Spec => []TypeOK
  <1>1. Init => TypeOK
    BY NoPacketType DEF Init, TypeOK, Counters
  <1>2. TypeOK /\ [Next]_vars => TypeOK'
    BY TypeStep
  <1> QED
    BY <1>1, <1>2, PTL DEF Spec

-----------------------------------------------------------------------------
(* Conservation of datagrams.  It is inductive only together with what the *)
(* stages hold: the counters move while the packet is in hand, before it   *)
(* is returned or queued.                                                  *)

ConservationInv == TypeOK /\ Stages /\ Conservation /\ ReadyBounded

LEMMA NumberedIsPresent ==
    ASSUME NEW p, p.seq # 0
    PROVE  Present(p)
  BY DEF Present, NoPacket

LEMMA NothingPresent == ~Present(NoPacket)
  BY DEF Present

LEMMA PacketFields ==
    ASSUME NEW p \in Packet
    PROVE  p.seq \in Nat /\ p.size \in Nat /\ p.data \in BOOLEAN
  BY DEF Packet

LEMMA CopyCounts ==
    ASSUME NEW p \in Packet
    PROVE  /\ CopyCount(p) \in Nat
           /\ ~Present(p) => CopyCount(p) = 0
           /\ Present(p) => CopyCount(p) = Len(Copies(p))
           /\ Present(p) => CopyCount(p) = IF Duplicated(p) THEN 2 ELSE 1
  <1>1. Len(Copies(p)) = IF Duplicated(p) THEN 2 ELSE 1
    BY CopiesProperties
  <1>2. CASE Present(p)
    BY <1>1, <1>2 DEF CopyCount
  <1>3. CASE ~Present(p)
    BY <1>3 DEF CopyCount
  <1> QED
    BY <1>2, <1>3

\* What ReadFrom queues behind the packet it returns.
LEMMA QueuedCopies ==
    ASSUME NEW p \in Packet, Present(p)
    PROVE  /\ Copies(p) \in Seq(Packet) /\ Tail(Copies(p)) \in Seq(Packet)
           /\ Len(Copies(p)) = CopyCount(p)
           /\ Len(Tail(Copies(p))) = CopyCount(p) - 1
           /\ CopyCount(p) <= 2
  <1>1. CopyCount(p) = Len(Copies(p))
    BY CopyCounts
  <1>2. Len(Copies(p)) <= 2 /\ Len(Tail(Copies(p))) = Len(Copies(p)) - 1
    BY DEF Copies
  <1>3. Copies(p) \in Seq(Packet) /\ Tail(Copies(p)) \in Seq(Packet)
    BY CopiesProperties
  <1> QED
    BY <1>1, <1>2, <1>3

LEMMA ConservationInit == Init => ConservationInv
  <1> SUFFICES ASSUME Init PROVE ConservationInv
    OBVIOUS
  <1>1. TypeOK
    BY NoPacketType DEF Init, TypeOK, Counters
  <1>2. Stages
    BY NothingPresent DEF Init, Stages, Counters
  <1>3. Conservation
    BY NothingPresent
       DEF Init, Conservation, Out, Held, Discarded, CopyCount, Counters
  <1>4. ReadyBounded
    BY DEF Init, ReadyBounded
  <1> QED
    BY <1>1, <1>2, <1>3, <1>4 DEF ConservationInv

\* Conservation is kept when both sides of the balance grow alike.
LEMMA Balance ==
    ASSUME Conservation, TypeOK,
           Out \in Int, Held \in Int, Discarded \in Int,
           NEW o \in Int, NEW h \in Int, NEW d \in Int,
           NEW r \in Int, NEW u \in Int,
           Out' = Out + o, Held' = Held + h, Discarded' = Discarded + d,
           stats'["readPackets"] = stats["readPackets"] + r,
           stats'["duplicated"] = stats["duplicated"] + u,
           o + h + d = r + u
    PROVE  Conservation'
  <1>1. stats["readPackets"] \in Int /\ stats["duplicated"] \in Int
    BY DEF TypeOK, Counters
  <1> QED
    BY <1>1 DEF Conservation

LEMMA BalanceTypes ==
    ASSUME TypeOK
    PROVE  /\ Out \in Int /\ Held \in Int /\ Discarded \in Int
           /\ CopyCount(current) \in Nat /\ CopyCount(next) \in Nat
           /\ CopyCount(NoPacket) = 0
  <1>1. CopyCount(current) \in Nat /\ CopyCount(next) \in Nat
    BY CopyCounts DEF TypeOK
  <1>2. CopyCount(NoPacket) = 0
    BY NothingPresent DEF CopyCount
  <1>3. Out \in Int
    BY DEF TypeOK, Out
  <1>4. Held \in Int
    BY <1>1 DEF Held
  <1>5. Discarded \in Int
    BY DEF TypeOK, Discarded, Counters
  <1> QED
    BY <1>1, <1>2, <1>3, <1>4, <1>5

LEMMA ConservationStep == ConservationInv /\ [Next]_vars => ConservationInv'
  <1> SUFFICES ASSUME ConservationInv, [Next]_vars
               PROVE  Stages' /\ Conservation' /\ ReadyBounded'
    BY TypeStep DEF ConservationInv
  <1> DEFINE Claim == Stages' /\ Conservation' /\ ReadyBounded'
  <1> USE NothingPresent, NoPacketType DEF ConservationInv
  <1>a. /\ Out \in Int /\ Held \in Int /\ Discarded \in Int
        /\ CopyCount(current) \in Nat /\ CopyCount(next) \in Nat
        /\ CopyCount(NoPacket) = 0
    BY BalanceTypes
  <1>b. current.seq \in Nat /\ input.seq \in Nat /\ next.seq \in Nat
    BY PacketFields DEF TypeOK
  <1>c. /\ stats["readPackets"] \in Nat /\ stats["duplicated"] \in Nat
        /\ stats["dropped"] \in Nat /\ stats["mtuDropped"] \in Nat
        /\ sequence \in Nat
    BY DEF TypeOK, Counters
  <1>1. CASE ServeReady
    <2>1. Len(ready') = Len(ready) - 1 /\ Len(delivered') = Len(delivered) + 1
      BY <1>1 DEF ServeReady, TypeOK
    <2>2. Out' = Out
      BY <2>1 DEF Out, TypeOK
    <2>3. Held' = Held /\ Discarded' = Discarded
      BY <1>1 DEF ServeReady, Held, Discarded
    <2> QED
      BY <1>1, <2>1, <2>2, <2>3
         DEF ServeReady, TypeOK, delays, Stages, Conservation, ReadyBounded
  <1>2. CASE CallRead
    BY <1>2 DEF CallRead, delays, Stages, Conservation, Out, Held, Discarded,
       ReadyBounded
  <1>3. ASSUME NEW size \in Sizes, NEW data \in BOOLEAN, Receive(size, data)
        PROVE  Claim
    <2>1. /\ stats'["readPackets"] = stats["readPackets"] + 1
          /\ stats'["duplicated"] = stats["duplicated"] + 0
          /\ stats'["dropped"] = stats["dropped"]
          /\ stats'["mtuDropped"] = stats["mtuDropped"]
      BY <1>3, <1>c DEF Receive, TypeOK, Count, Counters, When
    <2>2. Present(input') /\ input'.seq = sequence + 1 /\ ~Present(input)
      BY <1>3, <1>c, NumberedIsPresent DEF Receive, Stages
    <2>3. Stages'
      BY <1>3, <1>b, <1>c, <2>1, <2>2 DEF Receive, delays, Stages
    <2>4. Out' = Out + 0
      BY <1>3, <2>2 DEF Receive, TypeOK, delays, Out
    <2>5. Held' = Held + 1
      BY <1>3, <1>a, <2>2 DEF Receive, delays, Held
    <2>6. Discarded' = Discarded + 0
      BY <1>c, <2>1 DEF Discarded
    <2>7. Conservation'
      BY <1>a, <1>c, <2>1, <2>4, <2>5, <2>6, Balance
    <2> QED
      BY <1>3, <2>2, <2>3, <2>7 DEF Receive, delays, ReadyBounded
  <1>4. CASE ReadError
    BY <1>4 DEF ReadError, delays, Stages, Conservation, Out, Held, Discarded,
       ReadyBounded
  <1>5. CASE DropOversized
    <2>1. /\ stats'["readPackets"] = stats["readPackets"] + 0
          /\ stats'["duplicated"] = stats["duplicated"] + 0
          /\ stats'["dropped"] = stats["dropped"]
          /\ stats'["mtuDropped"] = stats["mtuDropped"] + 1
      BY <1>5, <1>c DEF DropOversized, TypeOK, Count, Counters, When
    <2>2. Present(input)
      BY <1>5 DEF DropOversized, Stages
    <2>3. Stages'
      BY <1>5, <1>b, <1>c, <2>1, <2>2 DEF DropOversized, delays, Stages
    <2>4. Out' = Out + 0
      BY <1>5, <2>2 DEF DropOversized, TypeOK, delays, Out
    <2>5. Held' = Held + (-1)
      BY <1>5, <1>a, <2>2 DEF DropOversized, delays, Held
    <2>6. Discarded' = Discarded + 1
      BY <1>c, <2>1 DEF Discarded
    <2>7. Conservation'
      BY <1>a, <1>c, <2>1, <2>4, <2>5, <2>6, Balance
    <2> QED
      BY <1>5, <2>2, <2>3, <2>7 DEF DropOversized, delays, ReadyBounded
  <1>6. CASE DropPeriodically
    <2>1. /\ stats'["readPackets"] = stats["readPackets"] + 0
          /\ stats'["duplicated"] = stats["duplicated"] + 0
          /\ stats'["dropped"] = stats["dropped"] + 1
          /\ stats'["mtuDropped"] = stats["mtuDropped"]
      BY <1>6, <1>c DEF DropPeriodically, TypeOK, Count, Counters, When
    <2>2. Present(input)
      BY <1>6 DEF DropPeriodically, Stages
    <2>3. Stages'
      BY <1>6, <1>b, <1>c, <2>1, <2>2 DEF DropPeriodically, delays, Stages
    <2>4. Out' = Out + 0
      BY <1>6, <2>2 DEF DropPeriodically, TypeOK, delays, Out
    <2>5. Held' = Held + (-1)
      BY <1>6, <1>a, <2>2 DEF DropPeriodically, delays, Held
    <2>6. Discarded' = Discarded + 1
      BY <1>c, <2>1 DEF Discarded
    <2>7. Conservation'
      BY <1>a, <1>c, <2>1, <2>4, <2>5, <2>6, Balance
    <2> QED
      BY <1>6, <2>2, <2>3, <2>7 DEF DropPeriodically, delays, ReadyBounded
  <1>7. CASE StartWait
    <2>1. /\ stats'["readPackets"] = stats["readPackets"] + 0
          /\ stats'["duplicated"] = stats["duplicated"] + 0
          /\ stats'["dropped"] = stats["dropped"]
          /\ stats'["mtuDropped"] = stats["mtuDropped"]
      BY <1>7, <1>c DEF StartWait, TypeOK, Count, Counters, When
    <2>2. Survives(input)
      BY <1>7, <1>c DEF StartWait, Survives, Stages
    <2>3. Stages'
      BY <1>7, <1>b, <1>c, <2>1, <2>2 DEF StartWait, delays, Stages
    <2>4. Out' = Out + 0
      BY <1>7, <2>2 DEF StartWait, TypeOK, delays, Out
    <2>5. Held' = Held + 0
      BY <1>7, <1>a, <2>2 DEF StartWait, delays, Held
    <2>6. Discarded' = Discarded + 0
      BY <1>c, <2>1 DEF Discarded
    <2>7. Conservation'
      BY <1>a, <1>c, <2>1, <2>4, <2>5, <2>6, Balance
    <2> QED
      BY <1>7, <2>2, <2>3, <2>7 DEF StartWait, delays, ReadyBounded
  <1>8. CASE TakeCurrent
    <2>1. /\ stats'["readPackets"] = stats["readPackets"] + 0
          /\ stats'["duplicated"] = stats["duplicated"] + (IF Duplicated(input) THEN 1 ELSE 0)
          /\ stats'["dropped"] = stats["dropped"]
          /\ stats'["mtuDropped"] = stats["mtuDropped"]
      BY <1>8, <1>c DEF TakeCurrent, TypeOK, Count, Counters, When
    <2>2. /\ Present(input) /\ Survives(input)
          /\ CopyCount(current) = 0
          /\ CopyCount(input) = 1 + (IF Duplicated(input) THEN 1 ELSE 0)
      BY <1>8, CopyCounts DEF TakeCurrent, Stages, Survives, TypeOK
    <2>3. Stages'
      BY <1>8, <1>b, <1>c, <2>1, <2>2 DEF TakeCurrent, delays, Stages, Present
    <2>4. Out' = Out + 0
      BY <1>8, <2>2 DEF TakeCurrent, TypeOK, delays, Out
    <2>5. Held' = Held + (IF Duplicated(input) THEN 1 ELSE 0)
      BY <1>8, <1>a, <2>2 DEF TakeCurrent, delays, Held
    <2>6. Discarded' = Discarded + 0
      BY <1>c, <2>1 DEF Discarded
    <2>7. Conservation'
      BY <1>a, <1>c, <2>1, <2>4, <2>5, <2>6, Balance
    <2> QED
      BY <1>8, <2>2, <2>3, <2>7 DEF TakeCurrent, delays, ReadyBounded
  <1>9. CASE TakeNext
    <2>1. /\ stats'["readPackets"] = stats["readPackets"] + 0
          /\ stats'["duplicated"] = stats["duplicated"] + (IF Duplicated(input) THEN 1 ELSE 0)
          /\ stats'["dropped"] = stats["dropped"]
          /\ stats'["mtuDropped"] = stats["mtuDropped"]
      BY <1>9, <1>c DEF TakeNext, TypeOK, Count, Counters, When
    <2>2. /\ Present(input) /\ Survives(input)
          /\ CopyCount(next) = 0
          /\ CopyCount(input) = 1 + (IF Duplicated(input) THEN 1 ELSE 0)
      BY <1>9, CopyCounts DEF TakeNext, Stages, Survives, TypeOK
    <2>3. Stages'
      BY <1>9, <1>b, <1>c, <2>1, <2>2 DEF TakeNext, delays, Stages, Present
    <2>4. Out' = Out + 0
      BY <1>9, <2>2 DEF TakeNext, TypeOK, delays, Out
    <2>5. Held' = Held + (IF Duplicated(input) THEN 1 ELSE 0)
      BY <1>9, <1>a, <2>2 DEF TakeNext, delays, Held
    <2>6. Discarded' = Discarded + 0
      BY <1>c, <2>1 DEF Discarded
    <2>7. Conservation'
      BY <1>a, <1>c, <2>1, <2>4, <2>5, <2>6, Balance
    <2> QED
      BY <1>9, <2>2, <2>3, <2>7 DEF TakeNext, delays, ReadyBounded
  <1>10. CASE ReturnCurrent
    <2>1. Present(current) /\ ~Present(next) /\ ~Present(input) /\ ready = <<>>
      BY <1>10 DEF ReturnCurrent, Stages, ReadyBounded
    <2>2. /\ Len(delivered') = Len(delivered) + 1
          /\ Len(ready') = CopyCount(current) - 1
          /\ Len(ready) = 0
          /\ CopyCount(current) <= 2
      <3>1. Tail(Copies(current)) \in Seq(Packet)
            /\ Len(Tail(Copies(current))) = CopyCount(current) - 1
            /\ CopyCount(current) <= 2
        BY <2>1, QueuedCopies DEF TypeOK
      <3> QED
        BY <1>10, <2>1, <3>1 DEF ReturnCurrent, TypeOK
    <2>3. Stages'
      BY <1>10, <2>1 DEF ReturnCurrent, delays, Stages
    <2>4. Out' = Out + CopyCount(current)
      BY <1>a, <2>2 DEF Out, TypeOK
    <2>5. Held' = Held + (-CopyCount(current))
      BY <1>10, <1>a, <2>1 DEF ReturnCurrent, Held
    <2>6. Conservation'
      BY <1>10, <1>a, <1>c, <2>4, <2>5
         DEF ReturnCurrent, Conservation, Discarded
    <2> QED
      BY <1>10, <1>a, <2>2, <2>3, <2>6 DEF ReturnCurrent, ReadyBounded
  <1>11. CASE ReturnNext
    <2>1. Present(current) /\ Present(next) /\ ~Present(input) /\ ready = <<>>
      BY <1>11 DEF ReturnNext, Stages, ReadyBounded, Present
    <2>2. /\ Len(delivered') = Len(delivered) + 1
          /\ Len(ready') = CopyCount(next) - 1 + CopyCount(current)
          /\ Len(ready) = 0
          /\ CopyCount(current) <= 2 /\ CopyCount(next) <= 2
      <3>1. Tail(Copies(next)) \in Seq(Packet)
            /\ Copies(current) \in Seq(Packet)
            /\ Len(Tail(Copies(next))) = CopyCount(next) - 1
            /\ Len(Copies(current)) = CopyCount(current)
            /\ CopyCount(current) <= 2 /\ CopyCount(next) <= 2
        BY <2>1, QueuedCopies DEF TypeOK
      <3> QED
        BY <1>11, <2>1, <3>1 DEF ReturnNext, TypeOK
    <2>3. Stages'
      BY <1>11, <2>1 DEF ReturnNext, delays, Stages
    <2>4. Out' = Out + (CopyCount(next) + CopyCount(current))
      BY <1>a, <2>2 DEF Out, TypeOK
    <2>5. Held' = Held + (-(CopyCount(next) + CopyCount(current)))
      BY <1>11, <1>a, <2>1 DEF ReturnNext, Held
    <2>6. Conservation'
      BY <1>11, <1>a, <1>c, <2>4, <2>5
         DEF ReturnNext, Conservation, Discarded
    <2> QED
      BY <1>11, <1>a, <2>2, <2>3, <2>6 DEF ReturnNext, ReadyBounded
  <1>12. CASE UNCHANGED vars
    BY <1>12 DEF vars, Stages, Conservation, Out, Held, Discarded, ReadyBounded
  <1> QED
    BY <1>1, <1>2, <1>3, <1>4, <1>5, <1>6, <1>7, <1>8, <1>9, <1>10, <1>11,
       <1>12 DEF Next, Work

\* Nothing appears and nothing vanishes in the impaired connection.
THEOREM Conserved == Spec => []Conservation
  <1>1. ConservationInv => Conservation
    BY DEF ConservationInv
  <1> QED
    BY <1>1, ConservationInit, ConservationStep, PTL DEF Spec

\* What ReadFrom and nextPacket hold at each stage.
THEOREM StagesCorrect == Spec => []Stages
  <1>1. ConservationInv => Stages
    BY DEF ConservationInv
  <1> QED
    BY <1>1, ConservationInit, ConservationStep, PTL DEF Spec

\* ReadFrom's queue is bounded and is served before the socket is read.
THEOREM ReadyIsBounded == Spec => []ReadyBounded
  <1>1. ConservationInv => ReadyBounded
    BY DEF ConservationInv
  <1> QED
    BY <1>1, ConservationInit, ConservationStep, PTL DEF Spec

-----------------------------------------------------------------------------
(* The packets that leave or are lined up.  Only taking a packet that is   *)
(* not held back adds to them: returning and queueing merely moves them.   *)

\* What is lined up at each stage.
Lined ==
    /\ Outgoing \in Seq(Packet)
    /\ pc # "return" => Outgoing = delivered \o ready
    /\ pc = "return" /\ ~Present(next) => Outgoing = delivered \o Copies(current)
    /\ pc = "return" /\ Present(next) =>
          Outgoing = delivered \o (Copies(next) \o Copies(current))

LEMMA LinedUp == ConservationInv => Lined
  <1> SUFFICES ASSUME ConservationInv PROVE Lined
    OBVIOUS
  <1>1. /\ delivered \in Seq(Packet) /\ ready \in Seq(Packet)
        /\ Copies(next) \in Seq(Packet) /\ Copies(current) \in Seq(Packet)
        /\ <<>> \in Seq(Packet)
    BY CopiesProperties DEF ConservationInv, TypeOK
  <1>2. Copies(next) \o Copies(current) \in Seq(Packet)
    BY <1>1, ConcatProperties
  <1>3. CASE pc # "return"
    <2>1. Outgoing = (delivered \o <<>>) \o ready
      BY <1>3 DEF Outgoing
    <2>2. delivered \o <<>> = delivered
      BY <1>1, ConcatEmptySeq
    <2>3. delivered \o ready \in Seq(Packet)
      BY <1>1, ConcatProperties
    <2>. QED
      BY <1>3, <2>1, <2>2, <2>3 DEF Lined
  <1>4. CASE pc = "return"
    <2>1. ready = <<>>
      BY <1>4 DEF ConservationInv, ReadyBounded
    <2>2. CASE Present(next)
      <3>1. Outgoing = (delivered \o (Copies(next) \o Copies(current))) \o <<>>
        BY <1>4, <2>1, <2>2 DEF Outgoing
      <3>2. delivered \o (Copies(next) \o Copies(current)) \in Seq(Packet)
        BY <1>1, <1>2, ConcatProperties
      <3>3. Outgoing = delivered \o (Copies(next) \o Copies(current))
        BY <3>1, <3>2, ConcatEmptySeq
      <3>. QED
        BY <1>4, <2>2, <3>2, <3>3 DEF Lined
    <2>3. CASE ~Present(next)
      <3>1. Outgoing = (delivered \o Copies(current)) \o <<>>
        BY <1>4, <2>1, <2>3 DEF Outgoing
      <3>2. delivered \o Copies(current) \in Seq(Packet)
        BY <1>1, ConcatProperties
      <3>3. Outgoing = delivered \o Copies(current)
        BY <3>1, <3>2, ConcatEmptySeq
      <3>. QED
        BY <1>4, <2>3, <3>2, <3>3 DEF Lined
    <2>. QED
      BY <2>2, <2>3
  <1>. QED
    BY <1>3, <1>4

LEMMA LinedUpNext == ConservationInv' => Lined'
  BY LinedUp, PTL

\* A packet that moves from the front of the line to the end of what left.
LEMMA MoveHead ==
    ASSUME NEW s \in Seq(Packet), NEW t \in Seq(Packet), t # <<>>
    PROVE  Append(s, Head(t)) \o Tail(t) = s \o t
  <1>1. /\ Head(t) \in Packet /\ Tail(t) \in Seq(Packet)
        /\ Len(Tail(t)) = Len(t) - 1
        /\ \A i \in 1..Len(Tail(t)) : Tail(t)[i] = t[i + 1]
        /\ Head(t) = t[1]
    BY HeadTailProperties
  <1>2. /\ Append(s, Head(t)) \in Seq(Packet)
        /\ Len(Append(s, Head(t))) = Len(s) + 1
        /\ \A i \in 1..Len(s) : Append(s, Head(t))[i] = s[i]
        /\ Append(s, Head(t))[Len(s) + 1] = t[1]
    BY <1>1, AppendProperties
  <1>3. Len(s) \in Nat /\ Len(t) \in Nat \ {0}
    BY EmptySeq, LenProperties
  <1> DEFINE a == Append(s, Head(t)) \o Tail(t)
             b == s \o t
  <1>4. /\ a \in Seq(Packet) /\ Len(a) = Len(s) + Len(t)
        /\ \A i \in 1..(Len(s) + Len(t)) :
              a[i] = IF i <= Len(s) + 1 THEN Append(s, Head(t))[i]
                     ELSE Tail(t)[i - (Len(s) + 1)]
    <2>. HIDE DEF a
    <2>1. /\ a \in Seq(Packet)
          /\ Len(a) = Len(Append(s, Head(t))) + Len(Tail(t))
          /\ \A i \in 1..(Len(Append(s, Head(t))) + Len(Tail(t))) :
                a[i] = IF i <= Len(Append(s, Head(t))) THEN Append(s, Head(t))[i]
                       ELSE Tail(t)[i - Len(Append(s, Head(t)))]
      BY <1>1, <1>2, ConcatProperties DEF a
    <2>. QED
      BY <2>1, <1>1, <1>2, <1>3
  <1>5. /\ b \in Seq(Packet) /\ Len(b) = Len(s) + Len(t)
        /\ \A i \in 1..(Len(s) + Len(t)) :
              b[i] = IF i <= Len(s) THEN s[i] ELSE t[i - Len(s)]
    BY ConcatProperties
  <1>. HIDE DEF a, b
  <1>6. \A i \in 1..Len(a) : a[i] = b[i]
    <2> SUFFICES ASSUME NEW i \in 1..(Len(s) + Len(t)) PROVE a[i] = b[i]
      BY <1>3, <1>4
    <2>1. CASE i <= Len(s)
      BY <1>2, <1>3, <1>4, <1>5, <2>1
    <2>2. CASE i = Len(s) + 1
      BY <1>2, <1>3, <1>4, <1>5, <2>2
    <2>3. CASE i > Len(s) + 1
      <3>1. PICK j \in 1..Len(Tail(t)) : j = i - (Len(s) + 1)
        <4>1. i \in Int /\ i > Len(s) + 1 /\ i <= Len(s) + Len(t)
          BY <1>3, <2>3
        <4>2. i - (Len(s) + 1) \in 1..(Len(t) - 1)
          BY <1>3, <4>1
        <4>. QED
          BY <1>1, <4>2
      <3>2. a[i] = Tail(t)[j]
        BY <1>3, <1>4, <2>3, <3>1
      <3>3. Tail(t)[j] = t[j + 1] /\ j + 1 = i - Len(s)
        BY <1>1, <1>3, <3>1
      <3>4. b[i] = t[i - Len(s)]
        BY <1>3, <1>5, <2>3
      <3>. QED
        BY <3>2, <3>3, <3>4
    <2>. QED
      BY <1>3, <2>1, <2>2, <2>3
  <1>7. a = b
    BY <1>4, <1>5, <1>6, SeqEqual
  <1>. QED
    BY <1>7 DEF a, b

LEMMA Associative ==
    ASSUME NEW s \in Seq(Packet), NEW t \in Seq(Packet), NEW u \in Seq(Packet)
    PROVE  (s \o t) \o u = s \o (t \o u)
  <1>1. \A S : \A x, y, z \in Seq(S) : (x \o y) \o z = x \o (y \o z)
    BY ConcatAssociative
  <1>. QED
    BY <1>1

\* What a step does to the line.
Joined ==
    \/ Outgoing' = Outgoing /\ ~TakeNext
       /\ (TakeCurrent => Reordered(input))
    \/ TakeCurrent /\ ~Reordered(input)
       /\ Outgoing' = Outgoing \o Copies(input)
    \/ TakeNext
       /\ Outgoing' = (Outgoing \o Copies(input)) \o Copies(current)

LEMMA CopiesEnds ==
    ASSUME NEW p \in Packet
    PROVE  Copies(p) # <<>> /\ Head(Copies(p)) = p
  BY DEF Copies

LEMMA Joining ==
    ASSUME ConservationInv, Next
    PROVE  Joined
  <1>1. Lined /\ Lined'
    BY ConservationStep, LinedUp, LinedUpNext
  <1>2. /\ delivered \in Seq(Packet) /\ ready \in Seq(Packet)
        /\ current \in Packet /\ next \in Packet /\ input \in Packet
        /\ <<>> \in Seq(Packet)
        /\ pc # "caller" => ready = <<>>
    BY DEF ConservationInv, TypeOK, ReadyBounded
  <1>3. /\ Copies(current) \in Seq(Packet) /\ Copies(next) \in Seq(Packet)
        /\ Copies(input) \in Seq(Packet)
        /\ Tail(Copies(current)) \in Seq(Packet)
        /\ Tail(Copies(next)) \in Seq(Packet)
    BY <1>2, CopiesProperties
  <1>4. CASE ServeReady
    <2>1. pc # "return" /\ pc' # "return" /\ ready # <<>>
          /\ delivered' = Append(delivered, Head(ready)) /\ ready' = Tail(ready)
      BY <1>4 DEF ServeReady
    <2>2. delivered' \o ready' = delivered \o ready
      BY <1>2, <2>1, MoveHead
    <2>3. ~TakeCurrent /\ ~TakeNext
      BY <1>4 DEF ServeReady, TakeCurrent, TakeNext
    <2>. QED
      BY <1>1, <2>1, <2>2, <2>3 DEF Lined, Joined
  <1>5. CASE CallRead \/ ReadError \/ DropOversized \/ DropPeriodically \/ StartWait
             \/ \E size \in Sizes, data \in BOOLEAN : Receive(size, data)
    <2>1. pc # "return" /\ pc' # "return" /\ delivered' = delivered /\ ready' = ready
      BY <1>5 DEF CallRead, ReadError, DropOversized, DropPeriodically,
                  StartWait, Receive
    <2>2. ~TakeCurrent /\ ~TakeNext
      BY <1>5 DEF CallRead, ReadError, DropOversized, DropPeriodically,
                  StartWait, Receive, TakeCurrent, TakeNext
    <2>. QED
      BY <1>1, <2>1, <2>2 DEF Lined, Joined
  <1>6. CASE TakeCurrent
    <2>1. /\ pc = "sleep" /\ current = NoPacket /\ current' = input
          /\ delivered' = delivered /\ ready' = ready /\ next' = next
          /\ pc' = IF Reordered(input) THEN "read" ELSE "return"
      BY <1>6 DEF TakeCurrent
    <2>2. ~TakeNext /\ ready = <<>> /\ ~Present(next) /\ ~Present(next')
      BY <2>1, <1>2 DEF TakeNext, ConservationInv, Stages, Present
    <2>3. Outgoing = delivered
      BY <1>1, <1>2, <2>1, <2>2, ConcatEmptySeq DEF Lined
    <2>4. CASE Reordered(input)
      BY <1>1, <1>6, <2>1, <2>2, <2>4 DEF Lined, Joined
    <2>5. CASE ~Reordered(input)
      <3>1. Outgoing' = delivered' \o Copies(current)'
        BY <1>1, <2>1, <2>2, <2>5 DEF Lined, Present
      <3>2. Copies(current)' = Copies(input)
        BY <2>1 DEF Copies, Duplicated
      <3>. QED
        BY <1>6, <2>1, <2>3, <2>5, <3>1, <3>2 DEF Joined
    <2>. QED
      BY <2>4, <2>5
  <1>7. CASE TakeNext
    <2>1. /\ pc = "sleep" /\ current # NoPacket /\ next' = input
          /\ delivered' = delivered /\ ready' = ready /\ current' = current
          /\ pc' = "return"
      BY <1>7 DEF TakeNext
    <2>2. ready = <<>> /\ Present(input)
      BY <2>1, <1>2 DEF ConservationInv, Stages
    <2>3. Outgoing = delivered
      BY <1>1, <1>2, <2>1, <2>2, ConcatEmptySeq DEF Lined
    <2>4. /\ Copies(current)' = Copies(current)
          /\ Copies(next)' = Copies(input)
          /\ Present(next)'
      BY <2>1, <2>2 DEF Copies, Duplicated, Present
    <2>5. Outgoing' = delivered \o (Copies(input) \o Copies(current))
      BY <1>1, <2>1, <2>4 DEF Lined
    <2>6. Outgoing' = (delivered \o Copies(input)) \o Copies(current)
      <3> DEFINE a == Copies(input)
                 b == Copies(current)
      <3>0. delivered \in Seq(Packet) /\ a \in Seq(Packet) /\ b \in Seq(Packet)
        BY <1>2, <1>3
      <3>. HIDE DEF a, b
      <3>1. (delivered \o a) \o b = delivered \o (a \o b)
        BY <3>0, Associative
      <3>. USE DEF a, b
      <3>. QED
        BY <2>5, <3>1, Zenon
    <2>. QED
      BY <1>7, <2>3, <2>6 DEF Joined
  <1>8. CASE ReturnCurrent
    <2>1. /\ pc = "return" /\ pc' = "caller" /\ ~Present(next) /\ ready = <<>>
          /\ delivered' = Append(delivered, current)
          /\ ready' = ready \o Tail(Copies(current))
      BY <1>2, <1>8 DEF ReturnCurrent, Present
    <2>2. ready' = Tail(Copies(current))
      BY <1>3, <2>1, ConcatEmptySeq
    <2>3. delivered' \o ready' = delivered \o Copies(current)
      BY <1>2, <1>3, <2>1, <2>2, CopiesEnds, MoveHead
    <2>4. ~TakeCurrent /\ ~TakeNext
      BY <2>1 DEF TakeCurrent, TakeNext
    <2>. QED
      BY <1>1, <2>1, <2>3, <2>4 DEF Lined, Joined
  <1>9. CASE ReturnNext
    <2>1. /\ pc = "return" /\ pc' = "caller" /\ Present(next) /\ ready = <<>>
          /\ delivered' = Append(delivered, next)
          /\ ready' = ready \o Tail(Copies(next)) \o Copies(current)
      BY <1>2, <1>9 DEF ReturnNext, Present
    <2>2. ready' = Tail(Copies(next)) \o Copies(current)
      BY <1>3, <2>1, ConcatEmptySeq
    <2>3. Append(delivered, next) \o Tail(Copies(next)) = delivered \o Copies(next)
      BY <1>2, <1>3, CopiesEnds, MoveHead
    <2>4. Append(delivered, next) \in Seq(Packet)
      BY <1>2, AppendProperties
    <2>5. delivered' \o ready' = (Append(delivered, next) \o Tail(Copies(next))) \o Copies(current)
      <3>1. (Append(delivered, next) \o Tail(Copies(next))) \o Copies(current)
                 = Append(delivered, next) \o (Tail(Copies(next)) \o Copies(current))
        BY <1>3, <2>4, Associative
      <3>. QED
        BY <2>1, <2>2, <3>1, Zenon
    <2>6. delivered' \o ready' = delivered \o (Copies(next) \o Copies(current))
      <3>1. (delivered \o Copies(next)) \o Copies(current)
                 = delivered \o (Copies(next) \o Copies(current))
        BY <1>2, <1>3, Associative
      <3>. QED
        BY <2>3, <2>5, <3>1, Zenon
    <2>7. ~TakeCurrent /\ ~TakeNext
      BY <2>1 DEF TakeCurrent, TakeNext
    <2>. QED
      BY <1>1, <2>1, <2>6, <2>7 DEF Lined, Joined
  <1>. QED
    BY <1>4, <1>5, <1>6, <1>7, <1>8, <1>9 DEF Next, Work

-----------------------------------------------------------------------------
(* The order in which packets leave.                                       *)

\* OvertakenByOne and AtMostTwice, of any sequence of packets.
Ordered(s) ==
    /\ \A i, j \in DOMAIN s :
          i < j /\ s[i].seq > s[j].seq =>
              /\ Reordered(s[j])
              /\ \A k \in 1..(j-1) : s[k].seq > s[j].seq => s[k] = s[i]
    /\ \A i, j \in DOMAIN s :
          i < j /\ s[i].seq = s[j].seq =>
              /\ Duplicated(s[i])
              /\ s[i] = s[j]
              /\ j = i + 1
    /\ \A i \in DOMAIN s : ~TooLarge(s[i]) /\ ~Dropped(s[i])

LEMMA OrderedIsDeparture == Ordered(Outgoing) <=> DepartureOrder
  BY DEF Ordered, DepartureOrder, OvertakenByOne, AtMostTwice

Below(s, n) == \A i \in DOMAIN s : s[i].seq < n

\* What a packet and its copy add to a line.
LEMMA Extended ==
    ASSUME NEW s \in Seq(Packet), NEW p \in Packet
    PROVE  LET t == s \o Copies(p)
           IN  /\ t \in Seq(Packet) /\ Len(s) \in Nat /\ Len(t) \in Nat
               /\ DOMAIN s = 1..Len(s) /\ DOMAIN t = 1..Len(t)
               /\ \A i \in 1..Len(s) : i \in 1..Len(t) /\ t[i] = s[i]
               /\ \A i \in 1..Len(t) : i > Len(s) => t[i] = p
               /\ Len(t) = Len(s) + (IF Duplicated(p) THEN 2 ELSE 1)
  <1> DEFINE c == Copies(p)
             t == s \o c
  <1>1. /\ c \in Seq(Packet) /\ Len(c) = IF Duplicated(p) THEN 2 ELSE 1
        /\ \A i \in 1..Len(c) : c[i] = p
    BY CopiesProperties DEF Copies
  <1>2. Len(s) \in Nat /\ DOMAIN s = 1..Len(s)
    BY LenProperties
  <1>. HIDE DEF c
  <1>3. /\ t \in Seq(Packet) /\ Len(t) = Len(s) + Len(c)
        /\ \A i \in 1..(Len(s) + Len(c)) :
              t[i] = IF i <= Len(s) THEN s[i] ELSE c[i - Len(s)]
    BY <1>1, ConcatProperties
  <1>4. DOMAIN t = 1..Len(t)
    BY <1>3, LenProperties
  <1>. HIDE DEF t
  <1>5. Len(c) \in 1..2
    BY <1>1
  <1>6. \A i \in 1..Len(s) : i \in 1..Len(t) /\ t[i] = s[i]
    BY <1>2, <1>3, <1>5
  <1>7. \A i \in 1..Len(t) : i > Len(s) => t[i] = p
    <2> SUFFICES ASSUME NEW i \in 1..Len(t), i > Len(s) PROVE t[i] = p
      OBVIOUS
    <2>1. i - Len(s) \in 1..Len(c) /\ t[i] = c[i - Len(s)]
      BY <1>2, <1>3, <1>5
    <2>. QED
      BY <1>1, <2>1
  <1>8. t \in Seq(Packet) /\ Len(t) \in Nat
        /\ Len(t) = Len(s) + (IF Duplicated(p) THEN 2 ELSE 1)
    BY <1>1, <1>2, <1>3
  <1>. QED
    BY <1>2, <1>4, <1>6, <1>7, <1>8 DEF t, c

LEMMA SeqNumbers ==
    ASSUME NEW s \in Seq(Packet)
    PROVE  \A i \in DOMAIN s : s[i] \in Packet /\ s[i].seq \in Nat
  <1> SUFFICES ASSUME NEW i \in DOMAIN s PROVE s[i] \in Packet /\ s[i].seq \in Nat
    OBVIOUS
  <1>1. s[i] \in Packet
    BY LenProperties, ElementOfSeq
  <1>. QED
    BY <1>1, PacketFields

\* A packet with its copy behind all others.
LEMMA JoinOne ==
    ASSUME NEW s \in Seq(Packet), NEW p \in Packet,
           Ordered(s), Below(s, p.seq), Survives(p)
    PROVE  /\ Ordered(s \o Copies(p))
           /\ \A n \in Nat : p.seq < n => Below(s \o Copies(p), n)
  <1> DEFINE t == s \o Copies(p)
             L == Len(s)
  <1>1. /\ t \in Seq(Packet) /\ L \in Nat /\ Len(t) \in Nat
        /\ DOMAIN s = 1..L /\ DOMAIN t = 1..Len(t)
        /\ \A i \in 1..L : i \in 1..Len(t) /\ t[i] = s[i]
        /\ \A i \in 1..Len(t) : i > L => t[i] = p
        /\ Len(t) = L + (IF Duplicated(p) THEN 2 ELSE 1)
    BY Extended
  <1>2. \A i \in 1..L : s[i].seq \in Nat /\ s[i].seq < p.seq
    BY <1>1, SeqNumbers DEF Below
  <1>3. p.seq \in Nat /\ ~TooLarge(p) /\ ~Dropped(p)
    BY DEF Survives, Packet
  <1>. HIDE DEF t, L
  <1>4. \A i \in 1..Len(t) : t[i].seq \in Nat /\ t[i].seq <= p.seq
                             /\ (i <= L => t[i].seq < p.seq)
    BY <1>1, <1>2, <1>3
  <1>5. \A i, j \in DOMAIN t :
           i < j /\ t[i].seq > t[j].seq =>
               /\ Reordered(t[j])
               /\ \A k \in 1..(j-1) : t[k].seq > t[j].seq => t[k] = t[i]
    <2> SUFFICES ASSUME NEW i \in 1..Len(t), NEW j \in 1..Len(t),
                        i < j, t[i].seq > t[j].seq
                 PROVE  /\ Reordered(t[j])
                        /\ \A k \in 1..(j-1) : t[k].seq > t[j].seq => t[k] = t[i]
      BY <1>1
    <2>1. j \in 1..L /\ i \in 1..L
      BY <1>1, <1>3, <1>4
    <2>2. Reordered(s[j]) /\ \A k \in 1..(j-1) : s[k].seq > s[j].seq => s[k] = s[i]
      BY <1>1, <2>1 DEF Ordered
    <2>3. \A k \in 1..(j-1) : k \in 1..L /\ t[k] = s[k]
      BY <1>1, <2>1
    <2>. QED
      BY <1>1, <2>1, <2>2, <2>3
  <1>6. \A i, j \in DOMAIN t :
           i < j /\ t[i].seq = t[j].seq =>
               Duplicated(t[i]) /\ t[i] = t[j] /\ j = i + 1
    <2> SUFFICES ASSUME NEW i \in 1..Len(t), NEW j \in 1..Len(t),
                        i < j, t[i].seq = t[j].seq
                 PROVE  Duplicated(t[i]) /\ t[i] = t[j] /\ j = i + 1
      BY <1>1
    <2>1. CASE j <= L
      <3>1. i \in 1..L /\ j \in 1..L
        BY <1>1, <2>1
      <3>. QED
        BY <1>1, <3>1 DEF Ordered
    <2>2. CASE j > L
      <3>1. i > L
        BY <1>1, <1>3, <1>4, <2>2
      <3>2. Duplicated(p) /\ j = i + 1
        BY <1>1, <2>2, <3>1
      <3>. QED
        BY <1>1, <2>2, <3>1, <3>2
    <2>. QED
      BY <1>1, <2>1, <2>2
  <1>7. \A i \in DOMAIN t : ~TooLarge(t[i]) /\ ~Dropped(t[i])
    <2> SUFFICES ASSUME NEW i \in 1..Len(t) PROVE ~TooLarge(t[i]) /\ ~Dropped(t[i])
      BY <1>1
    <2>1. CASE i <= L
      BY <1>1, <2>1 DEF Ordered
    <2>2. CASE i > L
      BY <1>1, <1>3, <2>2
    <2>. QED
      BY <1>1, <2>1, <2>2
  <1>8. Ordered(t)
    BY <1>5, <1>6, <1>7 DEF Ordered
  <1>9. \A n \in Nat : p.seq < n => Below(t, n)
    BY <1>1, <1>3, <1>4 DEF Below
  <1>. QED
    BY <1>8, <1>9 DEF t

\* The overtaking packet with its copy, then the overtaken one with its own.
LEMMA JoinTwo ==
    ASSUME NEW s \in Seq(Packet), NEW p \in Packet, NEW q \in Packet,
           Ordered(s), Below(s, p.seq), Survives(p), Survives(q),
           p.seq < q.seq, Reordered(p)
    PROVE  /\ Ordered((s \o Copies(q)) \o Copies(p))
           /\ \A n \in Nat : q.seq < n => Below((s \o Copies(q)) \o Copies(p), n)
  <1> DEFINE r == s \o Copies(q)
             t == r \o Copies(p)
             L == Len(s)
             M == Len(r)
  <1>0. p.seq \in Nat /\ q.seq \in Nat /\ ~TooLarge(p) /\ ~Dropped(p)
    BY DEF Survives, Packet
  <1>1. /\ r \in Seq(Packet) /\ L \in Nat /\ M \in Nat
        /\ DOMAIN s = 1..L /\ DOMAIN r = 1..M
        /\ \A i \in 1..L : i \in 1..M /\ r[i] = s[i]
        /\ \A i \in 1..M : i > L => r[i] = q
        /\ M = L + (IF Duplicated(q) THEN 2 ELSE 1)
    BY Extended
  <1>2. /\ t \in Seq(Packet) /\ Len(t) \in Nat
        /\ DOMAIN t = 1..Len(t)
        /\ \A i \in 1..M : i \in 1..Len(t) /\ t[i] = r[i]
        /\ \A i \in 1..Len(t) : i > M => t[i] = p
        /\ Len(t) = M + (IF Duplicated(p) THEN 2 ELSE 1)
    <2>. HIDE DEF r
    <2>. QED
      BY <1>1, Extended
  <1>3. \A i \in 1..L : s[i].seq \in Nat /\ s[i].seq < p.seq
    BY <1>1, SeqNumbers DEF Below
  <1>4. Ordered(r)
    <2>1. Below(s, q.seq)
      BY <1>0, <1>1, <1>3 DEF Below
    <2>. QED
      BY <2>1, JoinOne
  <1>. HIDE DEF r, t, L, M
  <1>5. \A i \in 1..Len(t) :
           \/ i <= L /\ t[i].seq \in Nat /\ t[i].seq < p.seq
           \/ L < i /\ i <= M /\ t[i] = q
           \/ M < i /\ t[i] = p
    BY <1>1, <1>2, <1>3
  <1>6. \A i, j \in DOMAIN t :
           i < j /\ t[i].seq > t[j].seq =>
               /\ Reordered(t[j])
               /\ \A k \in 1..(j-1) : t[k].seq > t[j].seq => t[k] = t[i]
    <2> SUFFICES ASSUME NEW i \in 1..Len(t), NEW j \in 1..Len(t),
                        i < j, t[i].seq > t[j].seq
                 PROVE  /\ Reordered(t[j])
                        /\ \A k \in 1..(j-1) : t[k].seq > t[j].seq => t[k] = t[i]
      BY <1>2
    <2>1. CASE j <= M
      <3>1. j \in 1..M /\ i \in 1..M
        BY <1>1, <2>1
      <3>2. Reordered(r[j]) /\ \A k \in 1..(j-1) : r[k].seq > r[j].seq => r[k] = r[i]
        BY <1>1, <1>2, <1>4, <3>1 DEF Ordered
      <3>3. \A k \in 1..(j-1) : k \in 1..M /\ t[k] = r[k]
        BY <1>1, <1>2, <3>1
      <3>. QED
        BY <1>2, <3>1, <3>2, <3>3
    <2>2. CASE j > M
      <3>1. t[j] = p
        BY <1>2, <2>2
      <3>2. t[i] = q
        BY <1>0, <1>5, <3>1
      <3>3. ASSUME NEW k \in 1..(j-1), t[k].seq > t[j].seq PROVE t[k] = q
        <4>1. k \in 1..Len(t)
          BY <1>2
        <4>. QED
          BY <1>0, <1>5, <3>1, <3>3, <4>1
      <3>. QED
        BY <3>1, <3>2, <3>3
    <2>. QED
      BY <1>1, <2>1, <2>2
  <1>7. \A i, j \in DOMAIN t :
           i < j /\ t[i].seq = t[j].seq =>
               Duplicated(t[i]) /\ t[i] = t[j] /\ j = i + 1
    <2> SUFFICES ASSUME NEW i \in 1..Len(t), NEW j \in 1..Len(t),
                        i < j, t[i].seq = t[j].seq
                 PROVE  Duplicated(t[i]) /\ t[i] = t[j] /\ j = i + 1
      BY <1>2
    <2>1. CASE j <= M
      <3>1. i \in 1..M /\ j \in 1..M
        BY <1>1, <2>1
      <3>2. i \in DOMAIN r /\ j \in DOMAIN r /\ t[i] = r[i] /\ t[j] = r[j]
        BY <1>1, <1>2, <3>1
      <3>. QED
        BY <1>4, <3>2 DEF Ordered
    <2>2. CASE j > M
      <3>1. t[j] = p
        BY <1>2, <2>2
      <3>2. i > M
        BY <1>0, <1>5, <3>1
      <3>3. Duplicated(p) /\ j = i + 1 /\ t[i] = p
        BY <1>1, <1>2, <2>2, <3>2
      <3>. QED
        BY <3>1, <3>3
    <2>. QED
      BY <1>1, <2>1, <2>2
  <1>8. \A i \in DOMAIN t : ~TooLarge(t[i]) /\ ~Dropped(t[i])
    <2> SUFFICES ASSUME NEW i \in 1..Len(t) PROVE ~TooLarge(t[i]) /\ ~Dropped(t[i])
      BY <1>2
    <2>1. CASE i <= M
      <3>1. i \in DOMAIN r /\ t[i] = r[i]
        BY <1>1, <1>2, <2>1
      <3>2. ~TooLarge(r[i]) /\ ~Dropped(r[i])
        BY <1>4, <3>1 DEF Ordered
      <3>. QED
        BY <3>1, <3>2
    <2>2. CASE i > M
      BY <1>0, <1>2, <2>2
    <2>. QED
      BY <1>1, <2>1, <2>2
  <1>9. Ordered(t)
    BY <1>6, <1>7, <1>8 DEF Ordered
  <1>10. \A n \in Nat : q.seq < n => Below(t, n)
    BY <1>0, <1>2, <1>5 DEF Below
  <1>. QED
    BY <1>9, <1>10 DEF t, r

\* Whatever is lined up is older than what is read or held back.
Older ==
    /\ Below(Outgoing, sequence + 1)
    /\ Present(input) => Below(Outgoing, input.seq)
    /\ Present(current) /\ pc # "return" => Below(Outgoing, current.seq)

OrderInv == ConservationInv /\ Ordered(Outgoing) /\ Older

LEMMA OrderInit == Init => OrderInv
  <1> SUFFICES ASSUME Init PROVE OrderInv
    OBVIOUS
  <1>1. Outgoing = <<>>
    BY DEF Init, Outgoing
  <1>2. Ordered(Outgoing) /\ Older
    BY <1>1 DEF Ordered, Older, Below
  <1>. QED
    BY <1>2, ConservationInit DEF OrderInv

LEMMA BelowMonotone ==
    ASSUME NEW s \in Seq(Packet), NEW m \in Nat, NEW n \in Nat, m <= n, Below(s, m)
    PROVE  Below(s, n)
  BY SeqNumbers DEF Below

LEMMA OrderStep == OrderInv /\ [Next]_vars => OrderInv'
  <1> SUFFICES ASSUME OrderInv, [Next]_vars
               PROVE  Ordered(Outgoing)' /\ Older'
    BY ConservationStep DEF OrderInv
  <1>0. /\ input \in Packet /\ current \in Packet /\ sequence \in Nat
        /\ input.seq \in Nat /\ current.seq \in Nat /\ Outgoing \in Seq(Packet)
    BY LinedUp, PacketFields DEF OrderInv, ConservationInv, TypeOK, Lined
  <1>1. CASE UNCHANGED vars
    <2>1. UNCHANGED <<Outgoing, sequence, input, current, pc>>
      BY <1>1 DEF vars, Outgoing, Copies, Duplicated, Present
    <2>. QED
      BY <2>1 DEF OrderInv, Ordered, Older, Below, Reordered, Duplicated,
                  TooLarge, Dropped, Present
  <1>2. CASE Next /\ Outgoing' = Outgoing /\ ~TakeNext
             /\ (TakeCurrent => Reordered(input))
    <2>1. Ordered(Outgoing)'
      BY <1>2 DEF OrderInv, Ordered, Reordered, Duplicated, TooLarge, Dropped
    <2>2. CASE \E size \in Sizes, data \in BOOLEAN : Receive(size, data)
      <3>1. /\ sequence' = sequence + 1 /\ input'.seq = sequence + 1
            /\ current' = current /\ pc # "return"
        BY <2>2 DEF Receive
      <3>2. Below(Outgoing, sequence + 2)
        BY <1>0, BelowMonotone DEF OrderInv, Older
      <3>. QED
        BY <1>0, <1>2, <2>1, <3>1, <3>2 DEF OrderInv, Older, Below, Present
    <2>3. CASE TakeCurrent
      <3>1. /\ sequence' = sequence /\ input' = NoPacket /\ current' = input
            /\ pc = "sleep"
        BY <2>3 DEF TakeCurrent
      <3>2. Present(input)
        BY <3>1 DEF OrderInv, ConservationInv, Stages
      <3>. QED
        BY <1>2, <2>1, <3>1, <3>2 DEF OrderInv, Older, Below, Present
    <2>4. CASE ServeReady \/ CallRead \/ ReadError \/ DropOversized
               \/ DropPeriodically \/ StartWait \/ ReturnCurrent \/ ReturnNext
      <3>1. /\ sequence' = sequence
            /\ input' = input \/ input' = NoPacket
            /\ (current' = current /\ (pc = "return" => pc' = "return"))
               \/ current' = NoPacket
        BY <2>4 DEF ServeReady, CallRead, ReadError, DropOversized,
             DropPeriodically, StartWait, ReturnCurrent, ReturnNext
      <3>. QED
        BY <1>2, <2>1, <3>1 DEF OrderInv, Older, Below, Present
    <2>. QED
      BY <1>2, <2>2, <2>3, <2>4 DEF Next, Work
  <1>3. CASE TakeCurrent /\ ~Reordered(input)
             /\ Outgoing' = Outgoing \o Copies(input)
    <2>1. /\ pc = "sleep" /\ pc' = "return" /\ input' = NoPacket
          /\ sequence' = sequence
      BY <1>3 DEF TakeCurrent
    <2>2. Survives(input) /\ Present(input) /\ input.seq = sequence
      BY <2>1 DEF OrderInv, ConservationInv, Stages
    <2>3. /\ Ordered(Outgoing \o Copies(input))
          /\ Below(Outgoing \o Copies(input), sequence + 1)
      <3>1. Below(Outgoing, input.seq)
        BY <2>2 DEF OrderInv, Older
      <3>. QED
        BY <1>0, <2>2, <3>1, JoinOne DEF OrderInv
    <2>4. Ordered(Outgoing)'
      <3>1. PICK s : s = Outgoing \o Copies(input)
        OBVIOUS
      <3>2. Ordered(s) /\ Outgoing' = s
        BY <1>3, <2>3, <3>1
      <3>. QED
        BY <3>2 DEF Ordered, Reordered, Duplicated, TooLarge, Dropped
    <2>. QED
      BY <1>3, <2>1, <2>3, <2>4 DEF Older, Below, Present
  <1>4. CASE TakeNext
             /\ Outgoing' = (Outgoing \o Copies(input)) \o Copies(current)
    <2>1. /\ pc = "sleep" /\ pc' = "return" /\ input' = NoPacket
          /\ sequence' = sequence /\ current # NoPacket
      BY <1>4 DEF TakeNext
    <2>2. /\ Survives(input) /\ Present(input) /\ input.seq = sequence
          /\ Present(current) /\ Survives(current) /\ Reordered(current)
          /\ current.seq < input.seq
      BY <2>1 DEF OrderInv, ConservationInv, Stages, Present
    <2>3. /\ Ordered((Outgoing \o Copies(input)) \o Copies(current))
          /\ Below((Outgoing \o Copies(input)) \o Copies(current), sequence + 1)
      <3>1. Below(Outgoing, current.seq)
        BY <2>1, <2>2 DEF OrderInv, Older
      <3>. QED
        BY <1>0, <2>2, <3>1, JoinTwo DEF OrderInv
    <2>4. Ordered(Outgoing)'
      <3>1. PICK s : s = (Outgoing \o Copies(input)) \o Copies(current)
        OBVIOUS
      <3>2. Ordered(s) /\ Outgoing' = s
        BY <1>4, <2>3, <3>1
      <3>. QED
        BY <3>2 DEF Ordered, Reordered, Duplicated, TooLarge, Dropped
    <2>. QED
      BY <1>4, <2>1, <2>3, <2>4 DEF Older, Below, Present
  <1>. QED
    BY <1>1, <1>2, <1>3, <1>4, Joining DEF OrderInv, Joined

\* The reordering is bounded, copies follow their originals at once, and what
\* is dropped does not leave, for any periods and any number of datagrams
\* (ReadFrom, nextPacket and the queue together).
THEOREM DepartsInOrder == Spec => []DepartureOrder
  <1>1. OrderInv => DepartureOrder
    BY OrderedIsDeparture DEF OrderInv
  <1>. QED
    BY <1>1, OrderInit, OrderStep, PTL DEF Spec

-----------------------------------------------------------------------------
(* The counters of overtaken packets.                                      *)

\* The numbers of the packets that others of a line overtake, and of those
\* where one of the two carries data.
Overtaken(s) ==
    {s[j].seq : j \in {j \in DOMAIN s :
        \E i \in DOMAIN s : i < j /\ s[i].seq > s[j].seq}}
OvertakenData(s) ==
    {s[j].seq : j \in {j \in DOMAIN s :
        /\ \E i \in DOMAIN s : i < j /\ s[i].seq > s[j].seq
        /\ s[j].data \/ \E i \in DOMAIN s :
                           i < j /\ s[i].seq > s[j].seq /\ s[i].data}}

Counted ==
    /\ stats["reordered"] = Cardinality(Overtaken(Outgoing))
    /\ stats["dataReordered"] = Cardinality(OvertakenData(Outgoing))

LEMMA CountedIsEvidence == Counted => ReorderEvidence
  <1> SUFFICES ASSUME Counted PROVE ReorderEvidence
    OBVIOUS
  <1> DEFINE overtaken == {j \in DOMAIN Outgoing :
                             \E i \in DOMAIN Outgoing : Overtakes(i, j)}
             data == {j \in overtaken : Outgoing[j].data
                        \/ \E i \in DOMAIN Outgoing :
                              Overtakes(i, j) /\ Outgoing[i].data}
  <1>1. {Outgoing[j].seq : j \in overtaken} = Overtaken(Outgoing)
    BY DEF Overtaken, Overtakes
  <1>2. {Outgoing[j].seq : j \in data} = OvertakenData(Outgoing)
    BY DEF OvertakenData, Overtakes
  <1>. HIDE DEF overtaken, data
  <1>3. /\ stats["reordered"] = Cardinality({Outgoing[j].seq : j \in overtaken})
        /\ stats["dataReordered"] = Cardinality({Outgoing[j].seq : j \in data})
    BY <1>1, <1>2 DEF Counted
  <1>. QED
    BY <1>3 DEF ReorderEvidence, overtaken, data

LEMMA OvertakenIsFinite ==
    ASSUME NEW s \in Seq(Packet), NEW n \in Nat, Below(s, n)
    PROVE  /\ IsFiniteSet(Overtaken(s)) /\ IsFiniteSet(OvertakenData(s))
           /\ Overtaken(s) \subseteq 0..(n - 1)
           /\ OvertakenData(s) \subseteq Overtaken(s)
  <1>1. Overtaken(s) \subseteq 0..(n - 1)
    BY SeqNumbers DEF Overtaken, Below
  <1>2. OvertakenData(s) \subseteq Overtaken(s)
    BY DEF Overtaken, OvertakenData
  <1>3. IsFiniteSet(0..(n - 1))
    BY FS_Interval
  <1>. QED
    BY <1>1, <1>2, <1>3, FS_Subset

\* A packet that is younger than all others overtakes nobody's place.
LEMMA CountOne ==
    ASSUME NEW s \in Seq(Packet), NEW p \in Packet, Below(s, p.seq)
    PROVE  /\ Overtaken(s \o Copies(p)) = Overtaken(s)
           /\ OvertakenData(s \o Copies(p)) = OvertakenData(s)
  <1> DEFINE t == s \o Copies(p)
             L == Len(s)
  <1>1. /\ t \in Seq(Packet) /\ L \in Nat /\ Len(t) \in Nat
        /\ DOMAIN s = 1..L /\ DOMAIN t = 1..Len(t)
        /\ \A i \in 1..L : i \in 1..Len(t) /\ t[i] = s[i]
        /\ \A i \in 1..Len(t) : i > L => t[i] = p
        /\ Len(t) = L + (IF Duplicated(p) THEN 2 ELSE 1)
    BY Extended
  <1>2. \A i \in 1..L : s[i].seq \in Nat /\ s[i].seq < p.seq
    BY <1>1, SeqNumbers DEF Below
  <1>3. p.seq \in Nat
    BY DEF Packet
  <1>. HIDE DEF t, L
  <1>4. \A i, j \in 1..Len(t) :
           i < j /\ t[i].seq > t[j].seq => i \in 1..L /\ j \in 1..L
    <2> SUFFICES ASSUME NEW i \in 1..Len(t), NEW j \in 1..Len(t),
                        i < j, t[i].seq > t[j].seq
                 PROVE  i \in 1..L /\ j \in 1..L
      OBVIOUS
    <2>1. j <= L
      <3> SUFFICES ASSUME j > L PROVE FALSE
        BY <1>1
      <3>1. t[j] = p
        BY <1>1
      <3>2. t[i].seq <= p.seq
        BY <1>1, <1>2, <1>3
      <3>3. t[i].seq \in Nat
        BY <1>1, <1>2, <1>3
      <3>. QED
        BY <1>3, <3>1, <3>2, <3>3
    <2>. QED
      BY <1>1, <2>1
  <1>5. Overtaken(t) = Overtaken(s)
    BY <1>1, <1>4 DEF Overtaken
  <1>6. OvertakenData(t) = OvertakenData(s)
    BY <1>1, <1>4 DEF OvertakenData
  <1>. QED
    BY <1>5, <1>6 DEF t

\* The overtaken packet is the one more that is overtaken.
LEMMA CountTwo ==
    ASSUME NEW s \in Seq(Packet), NEW p \in Packet, NEW q \in Packet,
           Below(s, p.seq), p.seq < q.seq
    PROVE  /\ Overtaken((s \o Copies(q)) \o Copies(p)) = Overtaken(s) \cup {p.seq}
           /\ OvertakenData((s \o Copies(q)) \o Copies(p))
                = OvertakenData(s) \cup When(p.data \/ q.data, {p.seq})
           /\ p.seq \notin Overtaken(s) /\ p.seq \notin OvertakenData(s)
  <1> DEFINE r == s \o Copies(q)
             t == r \o Copies(p)
             L == Len(s)
             M == Len(r)
  <1>0. p.seq \in Nat /\ q.seq \in Nat
    BY DEF Packet
  <1>1. /\ r \in Seq(Packet) /\ L \in Nat /\ M \in Nat
        /\ DOMAIN s = 1..L /\ DOMAIN r = 1..M
        /\ \A i \in 1..L : i \in 1..M /\ r[i] = s[i]
        /\ \A i \in 1..M : i > L => r[i] = q
        /\ M = L + (IF Duplicated(q) THEN 2 ELSE 1)
    BY Extended
  <1>2. /\ t \in Seq(Packet) /\ Len(t) \in Nat
        /\ DOMAIN t = 1..Len(t)
        /\ \A i \in 1..M : i \in 1..Len(t) /\ t[i] = r[i]
        /\ \A i \in 1..Len(t) : i > M => t[i] = p
        /\ Len(t) = M + (IF Duplicated(p) THEN 2 ELSE 1)
    <2>. HIDE DEF r
    <2>. QED
      BY <1>1, Extended
  <1>3. \A i \in 1..L : s[i].seq \in Nat /\ s[i].seq < p.seq
    BY <1>1, SeqNumbers DEF Below
  <1>4. Below(s, q.seq)
    BY <1>0, <1>1, <1>3 DEF Below
  <1>5. Overtaken(r) = Overtaken(s) /\ OvertakenData(r) = OvertakenData(s)
    BY <1>4, CountOne
  <1>6. p.seq \notin Overtaken(s) /\ p.seq \notin OvertakenData(s)
    BY <1>0, <1>1, <1>3 DEF Overtaken, OvertakenData
  <1>. HIDE DEF r, t, L, M
  <1>7. \A i \in 1..Len(t) :
           \/ i <= L /\ i <= M /\ t[i].seq \in Nat /\ t[i].seq < p.seq
           \/ L < i /\ i <= M /\ t[i] = q
           \/ M < i /\ t[i] = p
    BY <1>1, <1>2, <1>3
  \* Within the line nothing changes; at its end q overtakes p.
  <1>8. \A i, j \in 1..Len(t) :
           j <= M => (i < j /\ t[i].seq > t[j].seq
                        <=> i \in 1..M /\ i < j /\ r[i].seq > r[j].seq)
    BY <1>1, <1>2
  <1>9. \A i, j \in 1..Len(t) :
           j > M => (i < j /\ t[i].seq > t[j].seq <=> L < i /\ i <= M)
    <2> SUFFICES ASSUME NEW i \in 1..Len(t), NEW j \in 1..Len(t), j > M
                 PROVE  i < j /\ t[i].seq > t[j].seq <=> L < i /\ i <= M
      OBVIOUS
    <2>1. t[j] = p
      BY <1>2
    <2>. QED
      BY <1>0, <1>1, <1>2, <1>7, <2>1
  <1>10. /\ L + 1 \in 1..Len(t) /\ L < L + 1 /\ L + 1 <= M /\ t[L + 1] = q
         /\ M + 1 \in 1..Len(t) /\ M + 1 > M /\ t[M + 1] = p
    BY <1>1, <1>2
  <1>11. Overtaken(t) = Overtaken(r) \cup {p.seq}
    <2>1. ASSUME NEW x \in Overtaken(t) PROVE x \in Overtaken(r) \cup {p.seq}
      <3>1. PICK j \in 1..Len(t) : x = t[j].seq
                /\ \E i \in 1..Len(t) : i < j /\ t[i].seq > t[j].seq
        BY <1>2, <2>1 DEF Overtaken
      <3>2. CASE j > M
        BY <1>2, <3>1, <3>2
      <3>3. CASE j <= M
        <4>1. j \in 1..M /\ t[j] = r[j]
          BY <1>1, <1>2, <3>3
        <4>2. \E i \in 1..M : i < j /\ r[i].seq > r[j].seq
          BY <1>8, <3>1, <3>3
        <4>. QED
          BY <1>1, <3>1, <4>1, <4>2 DEF Overtaken
      <3>. QED
        BY <1>1, <3>2, <3>3
    <2>2. Overtaken(r) \subseteq Overtaken(t)
      BY <1>1, <1>2, <1>8 DEF Overtaken
    <2>3. p.seq \in Overtaken(t)
      BY <1>2, <1>9, <1>10 DEF Overtaken
    <2>. QED
      BY <2>1, <2>2, <2>3
  <1>12. OvertakenData(t) = OvertakenData(r) \cup When(p.data \/ q.data, {p.seq})
    <2>1. ASSUME NEW x \in OvertakenData(t)
          PROVE  x \in OvertakenData(r) \cup When(p.data \/ q.data, {p.seq})
      <3>1. PICK j \in 1..Len(t) :
                /\ x = t[j].seq
                /\ \E i \in 1..Len(t) : i < j /\ t[i].seq > t[j].seq
                /\ \/ t[j].data
                   \/ \E i \in 1..Len(t) :
                        i < j /\ t[i].seq > t[j].seq /\ t[i].data
        BY <1>2, <2>1 DEF OvertakenData
      <3>2. CASE j > M
        <4>1. t[j] = p
          BY <1>2, <3>2
        <4>2. p.data \/ q.data
          <5>1. CASE t[j].data
            BY <4>1, <5>1
          <5>2. ASSUME NEW i \in 1..Len(t), i < j, t[i].seq > t[j].seq, t[i].data
                PROVE  q.data
            <6>1. L < i /\ i <= M
              BY <1>9, <3>2, <5>2
            <6>2. t[i] = q
              BY <1>1, <1>2, <6>1
            <6>. QED
              BY <5>2, <6>2
          <5>. QED
            BY <3>1, <5>1, <5>2
        <4>. QED
          BY <3>1, <4>1, <4>2 DEF When
      <3>3. CASE j <= M
        <4>1. j \in 1..M /\ t[j] = r[j]
          BY <1>1, <1>2, <3>3
        <4>2. \E i \in 1..M : i < j /\ r[i].seq > r[j].seq
          BY <1>8, <3>1, <3>3
        <4>3. \/ r[j].data
              \/ \E i \in 1..M : i < j /\ r[i].seq > r[j].seq /\ r[i].data
          <5>1. CASE t[j].data
            BY <4>1, <5>1
          <5>2. ASSUME NEW i \in 1..Len(t), i < j, t[i].seq > t[j].seq, t[i].data
                PROVE  i \in 1..M /\ r[i].seq > r[j].seq /\ r[i].data
            <6>1. i \in 1..M /\ r[i].seq > r[j].seq
              BY <1>8, <3>3, <5>2
            <6>2. t[i] = r[i]
              BY <1>2, <6>1
            <6>. QED
              BY <5>2, <6>1, <6>2
          <5>. QED
            BY <3>1, <5>1, <5>2
        <4>. QED
          BY <1>1, <3>1, <4>1, <4>2, <4>3 DEF OvertakenData
      <3>. QED
        BY <1>1, <3>2, <3>3
    <2>2. OvertakenData(r) \subseteq OvertakenData(t)
      <3> SUFFICES ASSUME NEW j \in 1..M,
                          \E i \in 1..M : i < j /\ r[i].seq > r[j].seq,
                          r[j].data \/ \E i \in 1..M :
                             i < j /\ r[i].seq > r[j].seq /\ r[i].data
                   PROVE  r[j].seq \in OvertakenData(t)
        BY <1>1 DEF OvertakenData
      <3>1. /\ j \in 1..Len(t) /\ t[j] = r[j]
            /\ \E i \in 1..Len(t) : i < j /\ t[i].seq > t[j].seq
            /\ t[j].data \/ \E i \in 1..Len(t) :
                  i < j /\ t[i].seq > t[j].seq /\ t[i].data
        BY <1>1, <1>2
      <3>. QED
        BY <1>2, <3>1 DEF OvertakenData
    <2>3. ASSUME p.data \/ q.data PROVE p.seq \in OvertakenData(t)
      BY <1>2, <1>9, <1>10, <2>3 DEF OvertakenData
    <2>. QED
      BY <2>1, <2>2, <2>3 DEF When
  <1>. QED
    BY <1>5, <1>6, <1>11, <1>12 DEF t, r

CountInv == OrderInv /\ Counted

LEMMA CountInit == Init => CountInv
  <1> SUFFICES ASSUME Init PROVE Counted
    BY OrderInit DEF CountInv
  <1>1. Outgoing = <<>>
    BY DEF Init, Outgoing
  <1>2. Overtaken(Outgoing) = {} /\ OvertakenData(Outgoing) = {}
    BY <1>1 DEF Overtaken, OvertakenData
  <1>. QED
    BY <1>2, FS_EmptySet DEF Init, Counted, Counters

LEMMA CountStep == CountInv /\ [Next]_vars => CountInv'
  <1> SUFFICES ASSUME OrderInv, Counted, [Next]_vars PROVE Counted'
    BY OrderStep DEF CountInv
  <1>0. /\ input \in Packet /\ current \in Packet /\ sequence \in Nat
        /\ input.seq \in Nat /\ current.seq \in Nat /\ Outgoing \in Seq(Packet)
        /\ stats \in [Counters -> Nat]
    BY LinedUp, PacketFields DEF OrderInv, ConservationInv, TypeOK, Lined
  <1>1. CASE UNCHANGED vars
    <2>1. UNCHANGED <<Outgoing, stats>>
      BY <1>1 DEF vars, Outgoing, Copies, Duplicated, Present
    <2>. QED
      BY <2>1 DEF Counted, Overtaken, OvertakenData
  <1>a. ASSUME Next, ~TakeNext
        PROVE  /\ stats'["reordered"] = stats["reordered"]
               /\ stats'["dataReordered"] = stats["dataReordered"]
    <2> USE DEF Count, When, Counters
    <2>1. CASE ServeReady \/ CallRead \/ ReadError \/ ReturnCurrent \/ ReturnNext
      BY <2>1 DEF ServeReady, CallRead, ReadError, ReturnCurrent, ReturnNext
    <2>2. CASE \E size \in Sizes, data \in BOOLEAN : Receive(size, data)
      BY <1>0, <2>2 DEF Receive
    <2>3. CASE DropOversized \/ DropPeriodically
      BY <1>0, <2>3 DEF DropOversized, DropPeriodically
    <2>4. CASE StartWait
      BY <1>0, <2>4 DEF StartWait
    <2>5. CASE TakeCurrent
      BY <1>0, <2>5 DEF TakeCurrent
    <2>. QED
      BY <1>a, <2>1, <2>2, <2>3, <2>4, <2>5 DEF Next, Work
  <1>2. CASE Next /\ Outgoing' = Outgoing /\ ~TakeNext
    BY <1>2, <1>a DEF Counted, Overtaken, OvertakenData
  <1>3. CASE TakeCurrent /\ Outgoing' = Outgoing \o Copies(input)
    <2>1. pc = "sleep" /\ ~TakeNext /\ Next
      BY <1>3 DEF TakeCurrent, TakeNext, Next, Work
    <2>2. Below(Outgoing, input.seq)
      BY <2>1 DEF OrderInv, ConservationInv, Stages, Older
    <2>3. PICK s : s = Outgoing \o Copies(input)
      OBVIOUS
    <2>4. /\ Outgoing' = s
          /\ Overtaken(s) = Overtaken(Outgoing)
          /\ OvertakenData(s) = OvertakenData(Outgoing)
      BY <1>0, <1>3, <2>2, <2>3, CountOne
    <2>5. /\ Overtaken(Outgoing)' = Overtaken(s)
          /\ OvertakenData(Outgoing)' = OvertakenData(s)
      BY <2>4 DEF Overtaken, OvertakenData
    <2>. QED
      BY <1>a, <2>1, <2>4, <2>5 DEF Counted
  <1>4. CASE TakeNext
             /\ Outgoing' = (Outgoing \o Copies(input)) \o Copies(current)
    <2>1. pc = "sleep" /\ current # NoPacket
      BY <1>4 DEF TakeNext
    <2>2. Present(input) /\ Present(current) /\ current.seq < input.seq
      BY <2>1 DEF OrderInv, ConservationInv, Stages, Present
    <2>3. Below(Outgoing, current.seq)
      BY <2>1, <2>2 DEF OrderInv, Older
    <2>4. PICK s : s = (Outgoing \o Copies(input)) \o Copies(current)
      OBVIOUS
    <2>5. /\ Outgoing' = s
          /\ Overtaken(s) = Overtaken(Outgoing) \cup {current.seq}
          /\ OvertakenData(s) = OvertakenData(Outgoing)
                 \cup When(current.data \/ input.data, {current.seq})
          /\ current.seq \notin Overtaken(Outgoing)
          /\ current.seq \notin OvertakenData(Outgoing)
      BY <1>0, <1>4, <2>2, <2>3, <2>4, CountTwo
    <2>6. /\ Overtaken(Outgoing)' = Overtaken(s)
          /\ OvertakenData(Outgoing)' = OvertakenData(s)
      BY <2>5 DEF Overtaken, OvertakenData
    <2>7. /\ IsFiniteSet(Overtaken(Outgoing))
          /\ IsFiniteSet(OvertakenData(Outgoing))
      BY <1>0, <2>3, OvertakenIsFinite
    <2>8. stats'["reordered"] = Cardinality(Overtaken(s))
      <3>1. stats'["reordered"] = stats["reordered"] + 1
        BY <1>0, <1>4 DEF TakeNext, Count, When, Counters
      <3>2. Cardinality(Overtaken(s)) = Cardinality(Overtaken(Outgoing)) + 1
        BY <2>5, <2>7, FS_AddElement
      <3>. QED
        BY <3>1, <3>2 DEF Counted
    <2>9. stats'["dataReordered"] = Cardinality(OvertakenData(s))
      <3>1. CASE current.data \/ input.data
        <4>1. stats'["dataReordered"] = stats["dataReordered"] + 1
          BY <1>0, <1>4, <3>1 DEF TakeNext, Count, When, Counters
        <4>2. Cardinality(OvertakenData(s)) = Cardinality(OvertakenData(Outgoing)) + 1
          BY <2>5, <2>7, <3>1, FS_AddElement DEF When
        <4>. QED
          BY <4>1, <4>2 DEF Counted
      <3>2. CASE ~(current.data \/ input.data)
        <4>1. stats'["dataReordered"] = stats["dataReordered"]
          BY <1>0, <1>4, <3>2 DEF TakeNext, Count, When, Counters
        <4>2. OvertakenData(s) = OvertakenData(Outgoing)
          BY <2>5, <3>2 DEF When
        <4>. QED
          BY <4>1, <4>2 DEF Counted
      <3>. QED
        BY <3>1, <3>2
    <2>. QED
      BY <2>6, <2>8, <2>9, <2>5 DEF Counted
  <1>. QED
    BY <1>1, <1>2, <1>3, <1>4, Joining DEF OrderInv, Joined

\* The reordering counters say how many packets were overtaken, and how many
\* of these with data in one of the two, for any periods and any number of
\* datagrams (impairment_failures takes them as evidence).
THEOREM EvidenceIsTrue == Spec => []ReorderEvidence
  <1>1. CountInv => ReorderEvidence
    BY CountedIsEvidence DEF CountInv
  <1>. QED
    BY <1>1, CountInit, CountStep, PTL DEF Spec

-----------------------------------------------------------------------------
(* The smallest and the largest delay.  A smallest delay of zero stands    *)
(* for none (StartWait), so they are right only where every delay lasts a  *)
(* millisecond at least.                                                   *)

NoneBelowAMillisecond ==
    \A p \in Packet : Wait(p) > 0 => Millis(Wait(p)) > 0

\* The condition is met by a fixed delay above the jitter.
LEMMA FixedDelayAboveJitter ==
    ASSUME Delay >= 1000 * (Jitter \div 1000) + 1000
    PROVE  NoneBelowAMillisecond
  <1> SUFFICES ASSUME NEW p \in Packet, Wait(p) > 0 PROVE Millis(Wait(p)) > 0
    BY DEF NoneBelowAMillisecond
  <1>1. p.seq \in Nat /\ p.size \in Nat
    BY PacketFields
  <1>2. JitterOffset(p.seq) \in Int /\ JitterOffset(p.seq) >= -(Jitter \div 1000)
    <2> DEFINE j == Jitter \div 1000
               steps == 2 * j + 1
    <2>1. j \in Nat
      OBVIOUS
    <2>2. steps \in Nat \ {0} /\ steps \div 2 = j
      BY <2>1
    <2>3. JitterOffset(p.seq) = IF Jitter > 0 THEN (p.seq % steps) - j ELSE 0
      BY <2>2 DEF JitterOffset
    <2> HIDE DEF steps
    <2>4. p.seq % steps \in Nat
      BY <1>1, <2>2
    <2>. QED
      BY <2>1, <2>3, <2>4
  <1>3. TransmissionTime(p.size) \in Nat
    <2>1. 8000 * p.size \in Nat
      BY <1>1
    <2> DEFINE bits == 8000 * p.size
    <2> HIDE DEF bits
    <2>2. Bandwidth > 0 => bits \div Bandwidth \in Nat
      BY <2>1 DEF bits
    <2>. QED
      BY <2>2 DEF TransmissionTime, bits
  <1>4. Wait(p) \in Int /\ Wait(p) >= 1000
    BY <1>2, <1>3 DEF Wait
  <1>. QED
    BY <1>4 DEF Millis

Elements(s) == {s[i] : i \in DOMAIN s}

LEMMA ElementsExtended ==
    ASSUME NEW s \in Seq(Packet), NEW p \in Packet
    PROVE  Elements(s \o Copies(p)) = Elements(s) \cup {p}
  <1> DEFINE t == s \o Copies(p)
             L == Len(s)
  <1>1. /\ L \in Nat /\ Len(t) \in Nat
        /\ DOMAIN s = 1..L /\ DOMAIN t = 1..Len(t)
        /\ \A i \in 1..L : i \in 1..Len(t) /\ t[i] = s[i]
        /\ \A i \in 1..Len(t) : i > L => t[i] = p
        /\ Len(t) = L + (IF Duplicated(p) THEN 2 ELSE 1)
    BY Extended
  <1>. HIDE DEF t, L
  <1>2. L + 1 \in 1..Len(t) /\ t[L + 1] = p
    BY <1>1
  <1>3. \A i \in 1..Len(t) : t[i] \in Elements(s) \cup {p}
    <2> SUFFICES ASSUME NEW i \in 1..Len(t) PROVE t[i] \in Elements(s) \cup {p}
      OBVIOUS
    <2>1. CASE i <= L
      BY <1>1, <2>1 DEF Elements
    <2>2. CASE i > L
      BY <1>1, <2>2
    <2>. QED
      BY <1>1, <2>1, <2>2
  <1>4. Elements(t) = Elements(s) \cup {p}
    BY <1>1, <1>2, <1>3 DEF Elements
  <1>. QED
    BY <1>4 DEF t

\* The packets that were, or are being, delayed.
Waiting == Elements(Outgoing) \cup {current, next} \cup When(pc = "sleep", {input})

LEMMA DelayedAreWaiting == Delayed = {p \in Waiting : Present(p) /\ Wait(p) > 0}
  BY DEF Delayed, Waiting, Elements

\* What is about to be returned is in the line already.
LEMMA ReturnedIsLinedUp ==
    ASSUME ConservationInv, pc = "return"
    PROVE  current \in Elements(Outgoing) /\ (Present(next) => next \in Elements(Outgoing))
  <1>1. Lined
    BY LinedUp
  <1>2. delivered \in Seq(Packet) /\ current \in Packet /\ next \in Packet
    BY DEF ConservationInv, TypeOK
  <1>3. CASE ~Present(next)
    BY <1>1, <1>2, <1>3, ElementsExtended DEF Lined
  <1>4. CASE Present(next)
    <2> DEFINE a == Copies(next)
               b == Copies(current)
    <2>1. a \in Seq(Packet) /\ b \in Seq(Packet) /\ delivered \o a \in Seq(Packet)
      BY <1>2, CopiesProperties, ConcatProperties
    <2>2. Outgoing = delivered \o (a \o b)
      BY <1>1, <1>4 DEF Lined
    <2>. HIDE DEF a, b
    <2>3. Outgoing = (delivered \o a) \o b
      BY <1>2, <2>1, <2>2, Associative
    <2>4. /\ Elements(delivered \o a) = Elements(delivered) \cup {next}
          /\ Elements((delivered \o a) \o b) = Elements(delivered \o a) \cup {current}
      BY <1>2, <2>1, ElementsExtended DEF a, b
    <2>. QED
      BY <2>3, <2>4
  <1>. QED
    BY <1>3, <1>4

\* Only the beginning of a delay adds to what was delayed.
LEMMA WaitingStep ==
    ASSUME ConservationInv, Next
    PROVE  /\ StartWait => Delayed' = Delayed \cup When(Wait(input) > 0, {input})
           /\ ~StartWait => Delayed' = Delayed
  <1> DEFINE Good(W) == {p \in W : Present(p) /\ Wait(p) > 0}
  <1>0. /\ input \in Packet /\ current \in Packet /\ next \in Packet
        /\ Outgoing \in Seq(Packet) /\ Outgoing \o Copies(input) \in Seq(Packet)
    <2>1. input \in Packet /\ current \in Packet /\ next \in Packet
          /\ Outgoing \in Seq(Packet)
      BY LinedUp DEF ConservationInv, TypeOK, Lined
    <2>2. Copies(input) \in Seq(Packet)
      BY <2>1, CopiesProperties
    <2>. QED
      BY <2>1, <2>2, ConcatProperties
  <1>1. Delayed = Good(Waiting)
    BY DelayedAreWaiting
  <1>2. Delayed' = Good(Waiting')
    BY DEF Delayed, Waiting, Elements, Present, Wait, JitterOffset, TransmissionTime
  <1>3. Present(NoPacket) = FALSE
    BY DEF Present
  <1>4. Elements(Outgoing)' = Elements(Outgoing')
    BY DEF Elements
  <1>5. Waiting' = Elements(Outgoing') \cup {current', next'} \cup When(pc' = "sleep", {input'})
    BY <1>4 DEF Waiting, When
  <1>6. CASE TakeCurrent
    <2>1. /\ pc = "sleep" /\ current = NoPacket /\ current' = input
          /\ pc' \in {"read", "return"} /\ next' = next
      BY <1>6 DEF TakeCurrent
    <2>2. ~StartWait /\ ~TakeNext
      BY <2>1 DEF StartWait, TakeNext
    <2>3. Elements(Outgoing') \in {Elements(Outgoing), Elements(Outgoing) \cup {input}}
      BY <1>0, <2>2, Joining, ElementsExtended DEF Joined
    <2>4. Good(Waiting') = Good(Waiting)
      BY <1>3, <1>5, <2>1, <2>3 DEF Waiting, When
    <2>. QED
      BY <1>1, <1>2, <2>2, <2>4
  <1>7. CASE TakeNext
    <2>1. /\ pc = "sleep" /\ next' = input /\ current' = current /\ pc' = "return"
      BY <1>7 DEF TakeNext
    <2>2. ~StartWait /\ ~TakeCurrent
      BY <1>7, <2>1 DEF StartWait, TakeCurrent, TakeNext
    <2>3. next = NoPacket
      BY <2>1 DEF ConservationInv, Stages, Present
    <2>4. Elements(Outgoing') = Elements(Outgoing) \cup {input, current}
      <3>1. Outgoing' = (Outgoing \o Copies(input)) \o Copies(current)
        BY <1>7, <2>2, Joining DEF Joined
      <3>2. Elements(Outgoing') = Elements(Outgoing \o Copies(input)) \cup {current}
        BY <1>0, <3>1, ElementsExtended
      <3>. QED
        BY <1>0, <3>2, ElementsExtended
    <2>5. Good(Waiting') = Good(Waiting)
      BY <1>3, <1>5, <2>1, <2>3, <2>4 DEF Waiting, When
    <2>. QED
      BY <1>1, <1>2, <2>2, <2>5
  <1>8. CASE ReturnCurrent \/ ReturnNext
    <2>1. /\ pc = "return" /\ pc' = "caller" /\ current' = NoPacket
          /\ next' = NoPacket
      BY <1>8 DEF ReturnCurrent, ReturnNext
    <2>2. ~StartWait /\ ~TakeCurrent /\ ~TakeNext
      BY <2>1 DEF StartWait, TakeCurrent, TakeNext
    <2>3. Outgoing' = Outgoing
      BY <2>2, Joining DEF Joined
    <2>4. current \in Elements(Outgoing) /\ (Present(next) => next \in Elements(Outgoing))
      BY <2>1, ReturnedIsLinedUp
    <2>5. Good(Waiting') = Good(Waiting)
      BY <1>3, <1>5, <2>1, <2>3, <2>4 DEF Waiting, When
    <2>. QED
      BY <1>1, <1>2, <2>2, <2>5
  <1>9. CASE StartWait
    <2>1. /\ pc = "classify" /\ pc' = "sleep" /\ input' = input
          /\ current' = current /\ next' = next
      BY <1>9 DEF StartWait
    <2>2. ~TakeCurrent /\ ~TakeNext /\ Present(input)
      BY <2>1 DEF TakeCurrent, TakeNext, ConservationInv, Stages
    <2>3. Outgoing' = Outgoing
      BY <2>2, Joining DEF Joined
    <2>4. Good(Waiting') = Good(Waiting) \cup When(Wait(input) > 0, {input})
      BY <1>5, <2>1, <2>2, <2>3 DEF Waiting, When
    <2>. QED
      BY <1>1, <1>2, <1>9, <2>4
  <1>10. CASE ServeReady \/ CallRead \/ ReadError \/ DropOversized \/ DropPeriodically
              \/ \E size \in Sizes, data \in BOOLEAN : Receive(size, data)
    <2>1. /\ pc # "sleep" /\ pc' # "sleep" /\ current' = current /\ next' = next
      BY <1>10 DEF ServeReady, CallRead, ReadError, DropOversized,
                   DropPeriodically, Receive
    <2>2. ~TakeCurrent /\ ~TakeNext /\ ~StartWait
      BY <2>1 DEF TakeCurrent, TakeNext, StartWait
    <2>3. Outgoing' = Outgoing
      BY <2>2, Joining DEF Joined
    <2>4. Waiting' = Waiting
      BY <1>5, <2>1, <2>3 DEF Waiting, When
    <2>. QED
      BY <1>1, <1>2, <2>2, <2>4
  <1>. QED
    BY <1>6, <1>7, <1>8, <1>9, <1>10 DEF Next, Work

\* DelayExtremes, and what it takes to keep it.
Extremes ==
    LET applied == {Millis(Wait(p)) : p \in Delayed}
    IN  /\ applied = {} => minDelay = 0 /\ maxDelay = 0
        /\ applied # {} =>
              /\ minDelay \in applied /\ \A d \in applied : minDelay <= d
              /\ maxDelay \in applied /\ \A d \in applied : maxDelay >= d

ExtremesInv == ConservationInv /\ Extremes

LEMMA ExtremesInit == Init => ExtremesInv
  <1> SUFFICES ASSUME Init PROVE Extremes
    BY ConservationInit DEF ExtremesInv
  <1>1. Delayed = {}
    BY DEF Init, Delayed, Outgoing, When, Present
  <1>. QED
    BY <1>1 DEF Init, Extremes

LEMMA DelayedType ==
    ASSUME ConservationInv
    PROVE  Delayed \subseteq Packet
  <1>1. /\ input \in Packet /\ current \in Packet /\ next \in Packet
        /\ Outgoing \in Seq(Packet)
    BY LinedUp DEF ConservationInv, TypeOK, Lined
  <1>2. Elements(Outgoing) \subseteq Packet
    BY <1>1, SeqNumbers DEF Elements
  <1>. QED
    BY <1>1, <1>2, DelayedAreWaiting DEF Waiting, When

LEMMA ExtremesStep ==
    ASSUME NoneBelowAMillisecond
    PROVE  ExtremesInv /\ [Next]_vars => ExtremesInv'
  <1> SUFFICES ASSUME ConservationInv, Extremes, [Next]_vars PROVE Extremes'
    BY ConservationStep DEF ExtremesInv
  <1> DEFINE applied == {Millis(Wait(p)) : p \in Delayed}
             later == {Millis(Wait(p)) : p \in Delayed'}
             Right(S, low, high) ==
                 /\ S = {} => low = 0 /\ high = 0
                 /\ S # {} => /\ low \in S /\ \A d \in S : low <= d
                              /\ high \in S /\ \A d \in S : high >= d
  <1>1. Right(applied, minDelay, maxDelay)
    BY DEF Extremes
  <1>2. Extremes' <=> Right(later, minDelay', maxDelay')
    BY DEF Extremes, Millis, Wait, JitterOffset, TransmissionTime
  <1>3. \A d \in applied : d \in Int /\ d > 0
    BY DelayedType, WaitType DEF NoneBelowAMillisecond, Delayed
  <1>4. CASE UNCHANGED vars
    <2>1. Delayed' = Delayed /\ minDelay' = minDelay /\ maxDelay' = maxDelay
      <3>1. UNCHANGED <<Outgoing, current, next, input, pc, minDelay, maxDelay>>
        BY <1>4 DEF vars, Outgoing, Copies, Duplicated, Present
      <3>. QED
        BY <3>1 DEF Delayed, When, Present, Wait, JitterOffset, TransmissionTime
    <2>. QED
      BY <1>1, <1>2, <2>1
  <1>5. CASE Next /\ ~StartWait
    <2>1. Delayed' = Delayed
      BY <1>5, WaitingStep
    <2>2. minDelay' = minDelay /\ maxDelay' = maxDelay
      BY <1>5 DEF Next, Work, ServeReady, CallRead, DropOversized,
           DropPeriodically, TakeCurrent, TakeNext, ReturnCurrent, ReturnNext,
           Receive, ReadError, delays
    <2>. QED
      BY <1>1, <1>2, <2>1, <2>2
  <1>6. CASE StartWait /\ Wait(input) > 0
    <2> DEFINE m == Millis(Wait(input))
    <2>1. Delayed' = Delayed \cup {input}
      BY <1>6, WaitingStep DEF Next, Work, When
    <2>2. later = applied \cup {m}
      BY <2>1
    <2>3. m \in Int /\ m > 0
      BY <1>6, WaitType DEF NoneBelowAMillisecond, ConservationInv, TypeOK
    <2>4. /\ minDelay' = IF minDelay = 0 \/ m < minDelay THEN m ELSE minDelay
          /\ maxDelay' = IF m > maxDelay THEN m ELSE maxDelay
      BY <1>6 DEF StartWait
    <2>5. minDelay \in Int /\ maxDelay \in Int
      BY DEF ConservationInv, TypeOK
    <2>. HIDE DEF m, applied, later
    <2>6. CASE applied = {}
      <3>1. minDelay' = m /\ maxDelay' = m /\ later = {m}
        BY <1>1, <2>2, <2>3, <2>4, <2>6
      <3>2. Right(later, minDelay', maxDelay')
        BY <2>3, <3>1
      <3>. QED
        BY <1>2, <3>2
    <2>7. CASE applied # {}
      <3>1. /\ minDelay \in applied /\ maxDelay \in applied
            /\ \A d \in applied : d \in Int /\ d > 0 /\ minDelay <= d /\ d <= maxDelay
        BY <1>1, <1>3, <2>7
      <3>2. minDelay' \in later /\ \A d \in later : minDelay' <= d
        BY <2>2, <2>3, <2>4, <2>5, <3>1
      <3>3. maxDelay' \in later /\ \A d \in later : maxDelay' >= d
        BY <2>2, <2>3, <2>4, <2>5, <3>1
      <3>4. Right(later, minDelay', maxDelay')
        BY <3>2, <3>3
      <3>. QED
        BY <1>2, <3>4
    <2>. QED
      BY <2>6, <2>7
  <1>7. CASE StartWait /\ ~(Wait(input) > 0)
    <2>1. Delayed' = Delayed
      BY <1>7, WaitingStep DEF Next, Work, When
    <2>2. minDelay' = minDelay /\ maxDelay' = maxDelay
      BY <1>7 DEF StartWait, delays
    <2>. QED
      BY <1>1, <1>2, <2>1, <2>2
  <1>. QED
    BY <1>4, <1>5, <1>6, <1>7

\* The two delays a snapshot reports are the extremes of those applied
\* (StartWait), for any datagrams, if the fixed delay exceeds the jitter by a
\* millisecond; the finding about the report is a configuration without it.
THEOREM ExtremesAreReported ==
    ASSUME Delay >= 1000 * (Jitter \div 1000) + 1000
    PROVE  Spec => []DelayExtremes
  <1>1. NoneBelowAMillisecond
    BY FixedDelayAboveJitter
  <1>2. ExtremesInv /\ [Next]_vars => ExtremesInv'
    BY <1>1, ExtremesStep
  <1>3. ExtremesInv => DelayExtremes
    BY DEF ExtremesInv, Extremes, DelayExtremes
  <1>. QED
    BY <1>2, <1>3, ExtremesInit, PTL DEF Spec

=============================================================================
