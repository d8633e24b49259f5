--------------------------- MODULE TurnImpairment ---------------------------
(***************************************************************************)
(* The impaired packet connection of the acceptance TURN server            *)
(* (pion-endpoint/cmd/turn-server/main.go): the reader in front of the     *)
(* UDP socket that drops, delays, reorders and duplicates inbound          *)
(* datagrams by their position in the stream, and counts what it did.      *)
(*                                                                         *)
(* One goroutine (the TURN server's read loop) calls ReadFrom again and    *)
(* again; the main goroutine may copy the counters between any two of its  *)
(* critical sections, so every critical section is an action of its own    *)
(* and the invariants below speak about every state a snapshot may see.    *)
(*                                                                         *)
(* Durations are in microseconds; 1000 of them are the millisecond the     *)
(* counters are reported in.                                               *)
(***************************************************************************)
EXTENDS Integers, Sequences, FiniteSets

CONSTANTS
    DropEvery,       \* every how many datagrams one is dropped, 0 for never
    ReorderEvery,    \* every how many datagrams one is overtaken, 0 for never
    DuplicateEvery,  \* every how many datagrams one is doubled, 0 for never
    Mtu,             \* datagrams larger than this are dropped, 0 for no limit
    Delay,           \* fixed delay, in microseconds
    Jitter,          \* amplitude of the delay variation, in microseconds
    Bandwidth,       \* bits per millisecond, 0 for no limit
    Sizes,           \* the datagram sizes that arrive
    MaxDatagrams     \* bound: how many datagrams arrive

ASSUME PeriodsAssumption ==
    /\ DropEvery \in Nat
    /\ ReorderEvery \in Nat
    /\ DuplicateEvery \in Nat

ASSUME LimitsAssumption ==
    /\ Mtu \in Nat
    /\ Delay \in Nat
    /\ Jitter \in Nat
    /\ Bandwidth \in Nat
    /\ Sizes \subseteq Nat
    /\ MaxDatagrams \in Nat

VARIABLES
    pc,           \* where the read loop is
    input,        \* the datagram nextPacket is working on
    current,      \* ReadFrom's current packet, NoPacket before it is read
    next,         \* the packet that overtakes current, or NoPacket
    ready,        \* packets to return before the socket is read again
    sequence,     \* how many datagrams were read from the socket
    stats,        \* the event counters
    maxDatagram,  \* size of the largest datagram seen
    minDelay,     \* smallest delay in milliseconds, as the code keeps it
    maxDelay,     \* largest delay in milliseconds
    delivered     \* history: the packets returned to the TURN server

vars == <<pc, input, current, next, ready, sequence, stats, maxDatagram,
          minDelay, maxDelay, delivered>>

Packet == [seq : Nat, size : Nat, data : BOOLEAN]

\* Stands for Go's nil and for a buffer that holds nothing of interest.
NoPacket == [seq |-> 0, size |-> 0, data |-> FALSE]

Counters == {"readPackets", "dropped", "mtuDropped", "delayed", "reordered",
             "duplicated", "dataDropped", "dataMtuDropped", "dataDelayed",
             "dataJittered", "dataBandwidthDelayed", "dataReordered",
             "dataDuplicated"}

\* The counters after one more event of each kind in S.
Count(S) == [c \in Counters |-> IF c \in S THEN stats[c] + 1 ELSE stats[c]]

When(condition, S) == IF condition THEN S ELSE {}

-----------------------------------------------------------------------------
(* The deterministic impairments.                                          *)

Every(period, n) == period > 0 /\ n % period = 0

TooLarge(p) == Mtu > 0 /\ p.size > Mtu
Dropped(p) == Every(DropEvery, p.seq)
Reordered(p) == Every(ReorderEvery, p.seq)
Duplicated(p) == Every(DuplicateEvery, p.seq)

\* The jitter of one packet in whole milliseconds, centred on zero.
JitterOffset(n) ==
    LET steps == 2 * (Jitter \div 1000) + 1
    IN  IF Jitter > 0 THEN (n % steps) - (steps \div 2) ELSE 0

TransmissionTime(size) ==
    IF Bandwidth > 0 THEN (8000 * size) \div Bandwidth ELSE 0

Wait(p) == Delay + 1000 * JitterOffset(p.seq) + TransmissionTime(p.size)

Millis(wait) == wait \div 1000

\* One packet, and once more when it is due for duplication.
Copies(p) == IF Duplicated(p) THEN <<p, p>> ELSE <<p>>

-----------------------------------------------------------------------------
Init ==
    /\ pc = "caller"
    /\ input = NoPacket
    /\ current = NoPacket
    /\ next = NoPacket
    /\ ready = <<>>
    /\ sequence = 0
    /\ stats = [c \in Counters |-> 0]
    /\ maxDatagram = 0
    /\ minDelay = 0
    /\ maxDelay = 0
    /\ delivered = <<>>

delays == <<minDelay, maxDelay>>

\* ReadFrom returns a packet that is already queued.
ServeReady ==
    /\ pc = "caller"
    /\ ready # <<>>
    /\ delivered' = Append(delivered, Head(ready))
    /\ ready' = Tail(ready)
    /\ UNCHANGED <<pc, input, current, next, sequence, stats, maxDatagram,
                   delays>>

\* Faulty variant of CallRead: the socket is read while packets are queued.
CallReadEarly ==
    /\ pc = "caller"
    /\ pc' = "read"
    /\ UNCHANGED <<input, current, next, ready, sequence, stats, maxDatagram,
                   delays, delivered>>

\* ReadFrom finds nothing queued and goes to the socket.
CallRead ==
    /\ pc = "caller"
    /\ ready = <<>>
    /\ pc' = "read"
    /\ UNCHANGED <<input, current, next, ready, sequence, stats, maxDatagram,
                   delays, delivered>>

\* The socket yields a datagram: readPacket counts it, nextPacket numbers it.
Receive(size, data) ==
    /\ pc = "read"
    /\ sequence < MaxDatagrams
    /\ data => size >= 4
    /\ sequence' = sequence + 1
    /\ input' = [seq |-> sequence + 1, size |-> size, data |-> data]
    /\ stats' = Count({"readPackets"})
    /\ maxDatagram' = IF size > maxDatagram THEN size ELSE maxDatagram
    /\ pc' = "classify"
    /\ UNCHANGED <<current, next, ready, delays, delivered>>

\* The socket fails, as it does when the server is closed: ReadFrom returns
\* the error and the packet it was holding back is gone.
ReadError ==
    /\ pc = "read"
    /\ pc' = "closed"
    /\ UNCHANGED <<input, current, next, ready, sequence, stats, maxDatagram,
                   delays, delivered>>

\* nextPacket drops a datagram above the MTU, whatever else it is due for.
DropOversized ==
    /\ pc = "classify"
    /\ TooLarge(input)
    /\ stats' = Count({"mtuDropped"} \cup When(input.data, {"dataMtuDropped"}))
    /\ input' = NoPacket
    /\ pc' = "read"
    /\ UNCHANGED <<current, next, ready, sequence, maxDatagram, delays,
                   delivered>>

\* nextPacket drops the datagram whose number is due and reads on.
DropPeriodically ==
    /\ pc = "classify"
    /\ ~TooLarge(input)
    /\ Dropped(input)
    /\ stats' = Count({"dropped"} \cup When(input.data, {"dataDropped"}))
    /\ input' = NoPacket
    /\ pc' = "read"
    /\ UNCHANGED <<current, next, ready, sequence, maxDatagram, delays,
                   delivered>>

\* Faulty variant of StartWait: the first delay does not set the minimum.
StartWaitKeepsZero ==
    /\ pc = "classify"
    /\ ~TooLarge(input)
    /\ ~Dropped(input)
    /\ LET millis == Millis(Wait(input)) IN
       /\ minDelay' = IF millis < minDelay THEN millis ELSE minDelay
       /\ maxDelay' = IF millis > maxDelay THEN millis ELSE maxDelay
    /\ stats' = Count({"delayed"})
    /\ pc' = "sleep"
    /\ UNCHANGED <<input, current, next, ready, sequence, maxDatagram,
                   delivered>>

\* wait up to its sleep: the delay is counted before it is served.  A minimum
\* of zero stands for "none recorded yet".
StartWait ==
    /\ pc = "classify"
    /\ ~TooLarge(input)
    /\ ~Dropped(input)
    /\ IF Wait(input) > 0
       THEN LET millis == Millis(Wait(input)) IN
            /\ stats' = Count({"delayed"} \cup When(input.data,
                   {"dataDelayed"}
                   \cup When(JitterOffset(input.seq) # 0, {"dataJittered"})
                   \cup When(Bandwidth > 0 /\ input.size > 0,
                           {"dataBandwidthDelayed"})))
            /\ minDelay' = IF minDelay = 0 \/ millis < minDelay
                           THEN millis ELSE minDelay
            /\ maxDelay' = IF millis > maxDelay THEN millis ELSE maxDelay
       ELSE UNCHANGED <<stats, delays>>
    /\ pc' = "sleep"
    /\ UNCHANGED <<input, current, next, ready, sequence, maxDatagram,
                   delivered>>

\* Faulty variant of TakeCurrent: the reordering is counted before the
\* look-ahead has found a packet to overtake this one.
TakeCurrentCountsEarly ==
    /\ pc = "sleep"
    /\ current = NoPacket
    /\ current' = input
    /\ input' = NoPacket
    /\ stats' = Count(When(Duplicated(input),
                  {"duplicated"} \cup When(input.data, {"dataDuplicated"}))
                \cup When(Reordered(input), {"reordered"}))
    /\ pc' = IF Reordered(input) THEN "read" ELSE "return"
    /\ UNCHANGED <<next, ready, sequence, maxDatagram, delays, delivered>>

\* nextPacket returns ReadFrom's packet: a copy is counted before anything is
\* returned, and a packet due for reordering waits for the next one.
TakeCurrent ==
    /\ pc = "sleep"
    /\ current = NoPacket
    /\ current' = input
    /\ input' = NoPacket
    /\ stats' = Count(When(Duplicated(input),
                  {"duplicated"} \cup When(input.data, {"dataDuplicated"})))
    /\ pc' = IF Reordered(input) THEN "read" ELSE "return"
    /\ UNCHANGED <<next, ready, sequence, maxDatagram, delays, delivered>>

\* The look-ahead nextPacket returns the packet that overtakes current.
TakeNext ==
    /\ pc = "sleep"
    /\ current # NoPacket
    /\ next' = input
    /\ input' = NoPacket
    /\ stats' = Count({"reordered"}
          \cup When(current.data \/ input.data, {"dataReordered"})
          \cup When(Duplicated(input),
                  {"duplicated"} \cup When(input.data, {"dataDuplicated"})))
    /\ pc' = "return"
    /\ UNCHANGED <<current, ready, sequence, maxDatagram, delays, delivered>>

\* ReadFrom returns the packet in order and queues its copy.
ReturnCurrent ==
    /\ pc = "return"
    /\ next = NoPacket
    /\ delivered' = Append(delivered, current)
    /\ ready' = ready \o Tail(Copies(current))
    /\ current' = NoPacket
    /\ pc' = "caller"
    /\ UNCHANGED <<input, next, sequence, stats, maxDatagram, delays>>

\* Faulty variant of ReturnNext: the overtaken packet's copy is not queued.
ReturnNextLosesCopy ==
    /\ pc = "return"
    /\ next # NoPacket
    /\ delivered' = Append(delivered, next)
    /\ ready' = ready \o Tail(Copies(next)) \o <<current>>
    /\ current' = NoPacket
    /\ next' = NoPacket
    /\ pc' = "caller"
    /\ UNCHANGED <<input, sequence, stats, maxDatagram, delays>>

\* Faulty variant of ReturnNext: the copies are queued in the wrong order.
ReturnNextSwapsQueue ==
    /\ pc = "return"
    /\ next # NoPacket
    /\ delivered' = Append(delivered, next)
    /\ ready' = ready \o Copies(current) \o Tail(Copies(next))
    /\ current' = NoPacket
    /\ next' = NoPacket
    /\ pc' = "caller"
    /\ UNCHANGED <<input, sequence, stats, maxDatagram, delays>>

\* ReadFrom returns the overtaking packet and queues its copy, the overtaken
\* packet and the overtaken packet's copy, in this order.
ReturnNext ==
    /\ pc = "return"
    /\ next # NoPacket
    /\ delivered' = Append(delivered, next)
    /\ ready' = ready \o Tail(Copies(next)) \o Copies(current)
    /\ current' = NoPacket
    /\ next' = NoPacket
    /\ pc' = "caller"
    /\ UNCHANGED <<input, sequence, stats, maxDatagram, delays>>

\* Everything the read loop does on its own, without a datagram or an error.
Work ==
    \/ ServeReady \/ CallRead
    \/ DropOversized \/ DropPeriodically \/ StartWait
    \/ TakeCurrent \/ TakeNext
    \/ ReturnCurrent \/ ReturnNext

Next ==
    \/ Work
    \/ \E size \in Sizes, data \in BOOLEAN : Receive(size, data)
    \/ ReadError

Spec == Init /\ [][Next]_vars

\* The TURN server calls ReadFrom again after every packet and the goroutine
\* is scheduled; nothing obliges a peer to send.
FairSpec == Spec /\ WF_vars(Work)

-----------------------------------------------------------------------------
(* What the connection does, in every state a snapshot may see.            *)

\* Every variable has its type.
TypeOK ==
    /\ pc \in {"caller", "read", "classify", "sleep", "return", "closed"}
    /\ input \in Packet
    /\ current \in Packet
    /\ next \in Packet
    /\ ready \in Seq(Packet)
    /\ sequence \in Nat
    /\ stats \in [Counters -> Nat]
    /\ maxDatagram \in Nat
    /\ minDelay \in Int
    /\ maxDelay \in Int
    /\ delivered \in Seq(Packet)

Present(p) == p # NoPacket

\* The packets that left or that the steps already taken have lined up.
Outgoing ==
    delivered \o
    (IF pc = "return"
     THEN IF Present(next) THEN Copies(next) \o Copies(current)
          ELSE Copies(current)
     ELSE <<>>) \o ready

\* The number of copies of a packet in hand that will leave.
CopyCount(p) == IF Present(p) THEN Len(Copies(p)) ELSE 0

Out == Len(delivered) + Len(ready)

\* The datagram nextPacket works on is not yet counted as duplicated.
Held == (IF Present(input) THEN 1 ELSE 0) + CopyCount(current) + CopyCount(next)

Discarded == stats["dropped"] + stats["mtuDropped"]

\* Nothing appears and nothing vanishes (ReadFrom and nextPacket together):
\* at every moment what left, what is queued, what is in hand and what was
\* dropped add up to what arrived and what was duplicated, as the counters
\* tell it.
Conservation ==
    Out + Held + Discarded = stats["readPackets"] + stats["duplicated"]

Survives(p) == p.seq > 0 /\ ~TooLarge(p) /\ ~Dropped(p)

\* What ReadFrom and nextPacket hold at each stage: a datagram is in hand
\* only between its read and its fate; a packet is held across a read of the
\* socket only when it is due for reordering, and then the datagrams read
\* meanwhile are younger; the overtaking packet exists only until ReadFrom
\* returns; only packets that survived the drops get that far.
Stages ==
    /\ stats["readPackets"] = sequence
    /\ Present(input) <=> pc \in {"classify", "sleep"}
    /\ Present(input) => input.seq = sequence /\ sequence > 0
    /\ pc = "sleep" => Survives(input)
    /\ pc = "caller" => ~Present(current)
    /\ pc = "return" => Present(current)
    /\ Present(current) =>
          /\ Survives(current)
          /\ current.seq <= sequence
          /\ Present(input) => current.seq < input.seq
          /\ pc # "return" \/ Present(next) => Reordered(current)
    /\ Present(next) =>
          /\ pc = "return"
          /\ Survives(next)
          /\ current.seq < next.seq
          /\ next.seq = sequence

\* ReadFrom's queue never holds more than the overtaken packet and the two
\* copies, and is empty whenever the socket is read: a queued packet is never
\* overtaken by a datagram that arrives later.
ReadyBounded ==
    /\ Len(ready) <= 3
    /\ pc # "caller" => ready = <<>>

\* A packet is overtaken only if its number is due for it, and by one other
\* packet only.
OvertakenByOne ==
    \A i, j \in DOMAIN Outgoing :
        i < j /\ Outgoing[i].seq > Outgoing[j].seq =>
            /\ Reordered(Outgoing[j])
            /\ \A k \in 1..(j-1) : Outgoing[k].seq > Outgoing[j].seq =>
                   Outgoing[k] = Outgoing[i]

\* A packet leaves at most twice, twice only if its number is due for
\* duplication, and both times unchanged; a dropped packet never leaves.
AtMostTwice ==
    /\ \A i, j \in DOMAIN Outgoing :
          i < j /\ Outgoing[i].seq = Outgoing[j].seq =>
              /\ Duplicated(Outgoing[i])
              /\ Outgoing[i] = Outgoing[j]
              /\ j = i + 1
    /\ \A i \in DOMAIN Outgoing :
          ~TooLarge(Outgoing[i]) /\ ~Dropped(Outgoing[i])

\* The order in which packets leave (ReadFrom's look-ahead and its queue): the
\* reordering is bounded, copies follow their originals at once, and what is
\* dropped does not leave.
DepartureOrder == OvertakenByOne /\ AtMostTwice

Overtakes(i, j) == i < j /\ Outgoing[i].seq > Outgoing[j].seq

\* The counters the harness accepts as evidence that the impairment took
\* place (impairment_failures) agree with what became of the packets.
ReorderEvidence ==
    LET overtaken == {j \in DOMAIN Outgoing :
                         \E i \in DOMAIN Outgoing : Overtakes(i, j)}
        data == {j \in overtaken : Outgoing[j].data
                    \/ \E i \in DOMAIN Outgoing :
                          Overtakes(i, j) /\ Outgoing[i].data}
        Number(S) == Cardinality({Outgoing[j].seq : j \in S})
    IN  /\ stats["reordered"] = Number(overtaken)
        /\ stats["dataReordered"] = Number(data)

\* The packets whose delay was counted.
Delayed ==
    {p \in {Outgoing[i] : i \in DOMAIN Outgoing} \cup {current, next}
         \cup When(pc = "sleep", {input}) : Present(p) /\ Wait(p) > 0}

\* The two delays a snapshot reports are the smallest and the largest that
\* were applied, in whole milliseconds.
DelayExtremes ==
    LET applied == {Millis(Wait(p)) : p \in Delayed}
    IN  applied # {} =>
          /\ minDelay \in applied /\ \A d \in applied : minDelay <= d
          /\ maxDelay \in applied /\ \A d \in applied : maxDelay >= d

\* Two packets that were delayed by different whole milliseconds show up as
\* a smallest delay below the largest (main_test.go, impairment_failures).
DelayVariationReported ==
    (\E p, q \in Delayed : Millis(Wait(p)) # Millis(Wait(q)))
        => minDelay < maxDelay

Left(n) == {i \in DOMAIN delivered : delivered[i].seq = n}

\* Once a packet is lined up to leave, all its copies do: nothing that
\* arrives or fails later holds it back (ReadFrom serves its queue first).
AllCopiesLeave ==
    \A n \in 1..MaxDatagrams :
        (\E i \in DOMAIN Outgoing : Outgoing[i].seq = n)
        ~> Cardinality(Left(n)) = IF Every(DuplicateEvery, n) THEN 2 ELSE 1

=============================================================================
