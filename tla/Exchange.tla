------------------------------ MODULE Exchange ------------------------------
(***************************************************************************)
(* The message exchange of a product scenario (acceptance/product.py       *)
(* run_product_scenario and wait_for_messages, with the event queue of     *)
(* acceptance/aiortc_endpoint.py): the harness sends the same payloads on  *)
(* one channel after the other and each time polls the peer's only event   *)
(* queue until enough messages of that channel have come back.             *)
(*                                                                         *)
(* baresip echoes what it receives.  Echoes travel on a wire per channel   *)
(* and join the queue whenever they arrive; at most MaxFaults times the    *)
(* echo misbehaves.  Time is not modelled: the deadline of a wait may pass *)
(* at any moment of it.                                                    *)
(***************************************************************************)
EXTENDS Oracle, SequencesExt

CONSTANTS
    Count,     \* how many messages are sent on each channel
    MaxFaults  \* bound: how often the echo misbehaves

\* The channels of a scenario, of which there is at least one, are numbered.
ASSUME ExchangeAssumption ==
    /\ Cardinality(Labels) \in Nat \ {0}
    /\ Labels = 1..Cardinality(Labels)
    /\ Count \in Nat
    /\ MaxFaults \in Nat

VARIABLES
    ordered,   \* whether the channels are ordered
    expected,  \* the values sent on every channel
    active,    \* the channel at hand
    pc,        \* "send", "wait", "judge", "done"
    wire,      \* the echoes under way on each channel
    queue,     \* the peer's event queue
    seen,      \* what the wait under way has drained
    events,    \* what the finished waits have drained: events.ndjson
    actual,    \* the values the harness holds against the sent ones
    verdict,   \* "none", "PASS", "FAIL"
    timedOut,  \* history: whether a deadline passed
    arrived,   \* history: every event, in the order it joined the queue
    faults     \* history: how often the echo misbehaved

harness == <<active, pc, seen, events, actual, verdict, timedOut>>
network == <<wire, arrived, faults>>
scenario == <<ordered, expected>>
vars == <<scenario, harness, queue, network>>

Event == [label : Labels, value : Value]

Init ==
    /\ ordered \in BOOLEAN
    /\ expected \in [1..Count -> Value]
    /\ active = 1
    /\ pc = "send"
    /\ wire = [c \in Labels |-> <<>>]
    /\ queue = <<>>
    /\ seen = <<>>
    /\ events = <<>>
    /\ actual = [c \in Labels |-> <<>>]
    /\ verdict = "none"
    /\ timedOut = FALSE
    /\ arrived = <<>>
    /\ faults = 0

-----------------------------------------------------------------------------
(* The harness.                                                            *)

\* The values of the messages of one channel, in order.
ReceivedValues(log, label) ==
    LET values[n \in 0..Len(log)] ==
            IF n = 0 THEN <<>>
            ELSE IF log[n].label = label
            THEN Append(values[n - 1], log[n].value)
            ELSE values[n - 1]
    IN  values[Len(log)]

\* All payloads go out and baresip sends them back.
Send ==
    /\ pc = "send"
    /\ wire' = [wire EXCEPT ![active] = @ \o expected]
    /\ seen' = <<>>
    /\ pc' = "wait"
    /\ UNCHANGED <<scenario, active, queue, events, actual, verdict, timedOut,
                   arrived, faults>>

\* Faulty variant of Poll: what earlier polls drained is forgotten.
PollForgets ==
    /\ pc = "wait"
    /\ queue' = <<>>
    /\ LET log == queue
           values == ReceivedValues(seen \o log, active)
       IN  IF Len(values) >= Count
           THEN /\ actual' = [actual EXCEPT ![active] = values]
                /\ events' = events \o log
                /\ active' = active + 1
                /\ pc' = IF active < Cardinality(Labels) THEN "send" ELSE "judge"
                /\ UNCHANGED seen
           ELSE /\ seen' = seen \o log
                /\ UNCHANGED <<actual, events, active, pc>>
    /\ UNCHANGED <<scenario, verdict, timedOut, network>>

\* Faulty variant of Poll: one message too few is enough.
PollHasty ==
    /\ pc = "wait"
    /\ queue' = <<>>
    /\ LET log == seen \o queue
           values == ReceivedValues(log, active)
       IN  IF Len(values) + 1 >= Count
           THEN /\ actual' = [actual EXCEPT ![active] = values]
                /\ events' = events \o log
                /\ active' = active + 1
                /\ pc' = IF active < Cardinality(Labels) THEN "send" ELSE "judge"
                /\ UNCHANGED seen
           ELSE /\ seen' = log
                /\ UNCHANGED <<actual, events, active, pc>>
    /\ UNCHANGED <<scenario, verdict, timedOut, network>>

\* One round of wait_for_messages: drain the queue, and stop when enough
\* messages of the channel are there, with whatever else has been drained.
Poll ==
    /\ pc = "wait"
    /\ queue' = <<>>
    /\ LET log == seen \o queue
           values == ReceivedValues(log, active)
       IN  IF Len(values) >= Count
           THEN /\ actual' = [actual EXCEPT ![active] = values]
                /\ events' = events \o log
                /\ active' = active + 1
                /\ pc' = IF active < Cardinality(Labels) THEN "send" ELSE "judge"
                /\ UNCHANGED seen
           ELSE /\ seen' = log
                /\ UNCHANGED <<actual, events, active, pc>>
    /\ UNCHANGED <<scenario, verdict, timedOut, network>>

\* Faulty variant of Timeout: any message restarts the deadline.
TimeoutOnSilence ==
    /\ pc = "wait"
    /\ seen = <<>>
    /\ verdict' = "FAIL"
    /\ timedOut' = TRUE
    /\ pc' = "done"
    /\ UNCHANGED <<scenario, active, queue, seen, events, actual, network>>

\* The deadline of the wait passes: the peers have negotiated, so this is a
\* failure of the product, and the transcript so far is given up.
Timeout ==
    /\ pc = "wait"
    /\ verdict' = "FAIL"
    /\ timedOut' = TRUE
    /\ pc' = "done"
    /\ UNCHANGED <<scenario, active, queue, seen, events, actual, network>>

Transcript(values) ==
    FlattenSeq([c \in 1..Cardinality(Labels) |-> Records(c, values[c])])

Sent == Transcript([c \in Labels |-> expected])
Received == Transcript(actual)

\* Faulty variant of Compare: the wrong oracle judges.
CompareOrderless(sent, received) == CompareUnordered(sent, received)
Compare(sent, received) ==
    IF ordered THEN CompareOrdered(sent, received)
    ELSE CompareUnordered(sent, received)

\* The transcripts of all channels are compared once.
JudgeTranscript ==
    /\ pc = "judge"
    /\ verdict' = Compare(Sent, Received)
    /\ pc' = "done"
    /\ UNCHANGED <<scenario, active, queue, seen, events, actual, timedOut,
                   network>>

-----------------------------------------------------------------------------
(* The echo and the network.                                               *)

\* An echo arrives: in order, or in any order on an unordered channel.
Deliver(c, i) ==
    /\ i \in DOMAIN wire[c]
    /\ ordered => i = 1
    /\ LET event == [label |-> c, value |-> wire[c][i]] IN
       /\ queue' = Append(queue, event)
       /\ arrived' = Append(arrived, event)
    /\ wire' = [wire EXCEPT ![c] = RemoveAt(@, i)]
    /\ UNCHANGED <<scenario, harness, faults>>

Lose(c, i) == wire' = [wire EXCEPT ![c] = RemoveAt(@, i)]

Duplicate(c, i) == wire' = [wire EXCEPT ![c] = Append(@, @[i])]

Corrupt(c, i) ==
    \E v \in Value \ {wire[c][i]} :
        wire' = [wire EXCEPT ![c] = ReplaceAt(@, i, v)]

Reorder(c, i) ==
    /\ i + 1 \in DOMAIN wire[c]
    /\ wire' = [wire EXCEPT ![c] = Swap(@, i, i + 1)]

\* The echo loses, doubles, damages or swaps what it should send back.
Misbehave(c, i) ==
    /\ faults < MaxFaults
    /\ i \in DOMAIN wire[c]
    /\ Lose(c, i) \/ Duplicate(c, i) \/ Corrupt(c, i) \/ Reorder(c, i)
    /\ faults' = faults + 1
    /\ UNCHANGED <<scenario, harness, queue, arrived>>

Positions == 1..(Count + MaxFaults)

Harness == Send \/ Poll \/ Timeout \/ JudgeTranscript

Next ==
    \/ Harness
    \/ pc # "done" /\ \E c \in Labels, i \in Positions :
                          Deliver(c, i) \/ Misbehave(c, i)

Spec == Init /\ [][Next]_vars

\* Deadlines pass: asyncio.wait_for cancels a wait that has run out.
ExchangeFairness ==
    WF_vars(Send) /\ WF_vars(Timeout) /\ WF_vars(JudgeTranscript)

-----------------------------------------------------------------------------
(* What a judged transcript is worth.                                      *)

\* Every variable has its type.
TypeOK ==
    /\ ordered \in BOOLEAN
    /\ expected \in [1..Count -> Value]
    /\ active \in 1..(Cardinality(Labels) + 1)
    /\ pc \in {"send", "wait", "judge", "done"}
    /\ wire \in [Labels -> Seq(Value)]
    /\ queue \in Seq(Event)
    /\ seen \in Seq(Event)
    /\ events \in Seq(Event)
    /\ actual \in [Labels -> Seq(Value)]
    /\ verdict \in {"none", "PASS", "FAIL"}
    /\ timedOut \in BOOLEAN
    /\ arrived \in Seq(Event)
    /\ faults \in 0..MaxFaults

\* The exchange blames nobody without reason: whatever the pace of the echoes
\* and of the polls, a faultless echo that meets the deadlines passes
\* (wait_for_messages, compare_ordered and compare_unordered together).
NoFalseAlarm == verdict = "FAIL" => faults > 0 \/ timedOut

\* The first messages to arrive on a channel, as many as were sent.
First(c) == SubSeq(ReceivedValues(arrived, c), 1, Count)

\* A pass means that on every channel the messages sent came back first and
\* unharmed, in order where the channel is ordered, whatever was drained
\* together with what (wait_for_messages, run_product_scenario).
PassMeansEchoed ==
    verdict = "PASS" => \A c \in Labels :
        IF ordered THEN First(c) = expected
        ELSE ToBag(First(c)) = ToBag(expected)

\* Draining loses no event and repeats none: when the transcript is judged,
\* events.ndjson and the queue hold everything that arrived, in its order.
EventLogComplete == pc = "judge" => events \o queue = arrived

=============================================================================
