------------------------------- MODULE Probes -------------------------------
(***************************************************************************)
(* Two probes of a product scenario with aiortc (acceptance/product.py).   *)
(*                                                                         *)
(* exercise_malformed_inputs sends baresip four inputs it must not accept, *)
(* each on a stream that baresip is to reset, and then a valid message.    *)
(* exercise_partial_reliability sends one message, drops its echo below    *)
(* the peer's SCTP (PartialReliabilityDropper) until baresip gives it up   *)
(* with a FORWARD-TSN chunk, and then sends another one.                   *)
(*                                                                         *)
(* Time is not modelled: a deadline may pass at any moment of its wait.    *)
(* No name is one of module Exchange, the other reader of the peer's       *)
(* queue: one module has the theorems about both.                          *)
(***************************************************************************)
EXTENDS Naturals, Sequences, SequencesExt

CONSTANT MaxRepeats  \* bound: how often a message arrives again

ASSUME RepeatsAssumption == MaxRepeats \in Nat

VARIABLES
    kind,       \* the probe: "malformed" or "partial"
    place,      \* where it is
    stage,      \* the malformed input at hand
    stream,     \* the streams of malformed inputs: "none", "open", "reset" by
                \* baresip or "closed" by the peer
    connected,  \* whether the peer connection is
    given,      \* the inputs and messages baresip has been sent
    pending,    \* the peer's event queue
    drained,    \* the messages that have been drained
    hooked,     \* whether packets pass through the dropper
    dropped,    \* whether it dropped the message
    forwarded,  \* whether it saw a FORWARD-TSN
    inFlight,   \* the packets under way from baresip
    tried,      \* whether it has sent the message back once
    skipped,    \* whether the peer's SCTP has been told to skip the message
    repeats,    \* how many messages have arrived again
    failures,   \* the oracle failures
    outcome,    \* the verdict of the scenario as far as the probe goes
    arrivals,   \* history: what arrived, and if the probe could still tell
    blame       \* history: what could be held against baresip or the network

probe == <<place, stage>>
peer == <<stream, connected, pending>>
dropper == <<hooked, dropped, forwarded>>
transport == <<inFlight, tried, skipped, repeats, arrivals>>
probeVars == <<kind, probe, peer, given, drained, dropper, transport, failures,
               outcome, blame>>

\* A channel opened with a label with an embedded NUL, one whose label is not
\* UTF-8, a text that is not UTF-8 and a message that is too long.
Inputs == <<"embedded-nul", "invalid-dcep-utf8", "control", "oversized">>
Malformed == {Inputs[i] : i \in DOMAIN Inputs}
Messages == Malformed \cup {"marker", "recovery"}
Packets == {"marker", "pieces", "forward", "foreign", "recovery"}

Input == Inputs[stage]

ProbeInit ==
    /\ kind \in {"malformed", "partial"}
    /\ place = "begin" /\ stage = 1
    /\ stream = [s \in Malformed |-> IF s = "control" THEN "open" ELSE "none"]
    /\ connected = TRUE
    /\ given = {} /\ pending = <<>> /\ drained = {}
    /\ hooked = FALSE /\ dropped = FALSE /\ forwarded = FALSE
    /\ inFlight = {} /\ tried = FALSE /\ skipped = FALSE /\ repeats = 0
    /\ failures = {} /\ outcome = "none"
    /\ arrivals = {} /\ blame = {}

Goto(target) == place' = target /\ UNCHANGED stage
Found(F) == failures' = failures \cup F
Blamed(b) == blame' = blame \cup {b}

\* An exception on its way out of the probe: the peers have negotiated.
Raise(e) ==
    /\ place' = "done" /\ UNCHANGED stage
    /\ outcome' = IF e = "timeout" THEN "FAIL" ELSE "INFRA_ERROR"

\* drain_events takes everything that is there.
Drain == drained' = drained \cup ToSet(pending) /\ pending' = <<>>

\* The probe has no stream to work on.
NoStream ==
    /\ place = "begin"
    /\ place' = "done" /\ outcome' = "FAIL"
    /\ Found({"stream"}) /\ Blamed("baresip")
    /\ UNCHANGED <<kind, stage, peer, given, drained, dropper, transport>>

\* The dropper is in place before the message goes out.
Begin ==
    /\ place = "begin"
    /\ IF kind = "malformed"
       THEN Goto("open") /\ UNCHANGED <<hooked, given>>
       ELSE Goto("forward") /\ hooked' = TRUE /\ given' = given \cup {"marker"}
    /\ UNCHANGED <<kind, peer, drained, dropped, forwarded, transport,
                   failures, outcome, blame>>

-----------------------------------------------------------------------------
(* Malformed inputs.                                                       *)

\* Two channels are opened for DCEP messages, the next message goes to the
\* channel of the scenario, and the last one to a channel of its own.
OpenInput ==
    /\ place = "open"
    /\ stream' = [stream EXCEPT ![Input] = "open"]
    /\ Goto("send")
    /\ UNCHANGED <<kind, connected, given, pending, drained, dropper,
                   transport, failures, outcome, blame>>

\* Without an association nothing is sent.
SendInput ==
    /\ place = "send"
    /\ \/ /\ given' = given \cup {Input}
          /\ Goto(IF Input = "oversized" THEN "settle" ELSE "reset")
          /\ UNCHANGED outcome
       \/ /\ ~connected
          /\ Raise("other")
          /\ UNCHANGED given
    /\ UNCHANGED <<kind, peer, drained, dropper, transport, failures, blame>>

\* Faulty variant of Objectionable: only echoes of the input at hand.
ObjectionableOwn(log) == Input \in log

\* Whether a check objects to what has been drained: after the third input to
\* any message (rejected_message_failures), then to one of the last channel.
Objectionable(log) ==
    IF Input = "oversized" THEN Input \in log ELSE log # {}

\* The echo of a message that is too long has half a second to show up.
SettleInput ==
    /\ place = "settle"
    /\ Drain
    /\ Found(IF Objectionable(drained') THEN {"delivered"} ELSE {})
    /\ Goto("reset")
    /\ UNCHANGED <<kind, stream, connected, given, dropper, transport, outcome,
                   blame>>

\* The stream is reset, or the deadline passes.
RequireClosed ==
    /\ place = "reset"
    /\ \/ stream[Input] = "reset" /\ UNCHANGED <<failures, blame>>
       \/ stream[Input] # "reset" /\ Found({"reset"}) /\ Blamed("baresip")
    /\ Goto("check")
    /\ UNCHANGED <<kind, peer, given, drained, dropper, transport, outcome>>

\* What there is to check before the next input, or the valid message.
CheckInput ==
    /\ place = "check"
    /\ IF Input = "oversized" THEN UNCHANGED <<drained, pending>> ELSE Drain
    /\ Found({f \in {"connection", "delivered"} :
          \/ f = "connection" /\ Input \in {"embedded-nul", "invalid-dcep-utf8"}
             /\ ~connected
          \/ f = "delivered" /\ Input = "control" /\ Objectionable(drained')})
    /\ stream' = IF Input = "control" \/ stream[Input] = "reset" THEN stream
                 ELSE [stream EXCEPT ![Input] = "closed"]
    /\ IF Input = "oversized" THEN Goto("recover")
       ELSE /\ stage' = stage + 1
            /\ place' = IF Inputs[stage'] = "control" THEN "send" ELSE "open"
    /\ UNCHANGED <<kind, connected, given, dropper, transport, outcome, blame>>

\* No channel opens before its deadline.
OpenFails ==
    /\ place = "open" \/ (place = "recover" /\ kind = "malformed")
    /\ Raise("timeout")
    /\ Blamed("deadline")
    /\ UNCHANGED <<kind, peer, given, drained, dropper, transport, failures>>

-----------------------------------------------------------------------------
(* Partial reliability.                                                    *)

\* Faulty variant of ProbeFailures: a dropped message is proof enough.
ProbeFailuresOfDrop(gone, forward, delivered) ==
    (IF gone THEN {} ELSE {"dropped"})
    \cup (IF delivered THEN {"delivered"} ELSE {})

\* partial_reliability_failures.
ProbeFailures(gone, forward, delivered) ==
    (IF gone THEN {} ELSE {"dropped"})
    \cup (IF forward THEN {} ELSE {"forward"})
    \cup (IF delivered THEN {"delivered"} ELSE {})

\* A FORWARD-TSN has come, or it has not in time: the dropper is removed.
JudgeProbe ==
    /\ place = "forward"
    /\ hooked' = FALSE
    /\ Drain
    /\ Found(ProbeFailures(dropped, forwarded, "marker" \in drained'))
    /\ blame' = IF forwarded THEN blame ELSE blame \cup {"deadline"}
    /\ Goto("recover")
    /\ UNCHANGED <<kind, stream, connected, given, dropped, forwarded,
                   transport, outcome>>

\* Faulty variant of Takes: once is enough.
TakesOnce(packet) == hooked /\ packet = "marker" /\ ~dropped

\* The dropper takes out the message when it comes in one chunk.
Takes(packet) == hooked /\ packet = "marker"

\* What an arriving message is to the history: once the probe has moved on it
\* does not look for the message any more.
Noticed(message) ==
    CASE message \in {"recovery", "marker"} -> place # "done"
      [] message = "oversized" ->
           stage < 4 \/ place \in {"open", "send", "settle"}
      [] OTHER -> stage <= 3
Arrived(message) == \E noticed \in BOOLEAN : <<message, noticed>> \in arrivals
Arrives(message) ==
    /\ pending' = Append(pending, message)
    /\ arrivals' = arrivals \cup {<<message, Noticed(message)>>}

\* A packet arrives, none before an earlier one that FORWARD-TSN gives up: the
\* dropper notes every FORWARD-TSN and lets all pass but the message, and the
\* peer delivers, once, what was not given up.
Handle(packet) ==
    /\ packet \in inFlight
    /\ packet = "forward" => inFlight \cap {"marker", "pieces"} = {}
    /\ inFlight' = inFlight \ {packet}
    /\ dropped' = (dropped \/ Takes(packet))
    /\ forwarded' = (forwarded \/ (hooked /\ packet \in {"forward", "foreign"}))
    /\ skipped' = (skipped \/ packet = "forward")
    /\ LET message == IF packet = "pieces" THEN "marker" ELSE packet IN
       IF /\ message \in {"marker", "recovery"} /\ ~Takes(packet)
          /\ message = "marker" => ~skipped
          /\ ~Arrived(message)
       THEN Arrives(message)
       ELSE UNCHANGED <<pending, arrivals>>
    /\ UNCHANGED <<kind, probe, stream, connected, given, drained, hooked,
                   tried, repeats, failures, outcome, blame>>

-----------------------------------------------------------------------------
(* The valid message that ends both probes.                                *)

Recover ==
    /\ place = "recover"
    /\ given' = given \cup {"recovery"}
    /\ Goto("await")
    /\ UNCHANGED <<kind, peer, drained, dropper, transport, failures, outcome,
                   blame>>

\* Where the messages of the channel waited on are; a malformed input has
\* another one.
Own(log) == {i \in DOMAIN log : log[i] \notin Malformed}
Recovered(log) == \E i \in Own(log) : Own(log) = {i} /\ log[i] = "recovery"

\* wait_for_messages with one message, which must be the valid one and alone.
Await ==
    /\ place = "await"
    /\ Own(pending) # {}
    /\ Drain
    /\ Goto("done")
    /\ Found({f \in {"recovery", "connection"} :
          \/ f = "recovery" /\ ~Recovered(pending)
          \/ f = "connection" /\ kind = "malformed" /\ ~connected})
    /\ outcome' = IF failures' = {} THEN "PASS" ELSE "FAIL"
    /\ UNCHANGED <<kind, stream, connected, given, dropper, transport, blame>>

\* The deadline passes.
AwaitFails ==
    /\ place = "await"
    /\ Raise("timeout")
    /\ Blamed("deadline")
    /\ UNCHANGED <<kind, peer, given, drained, dropper, transport, failures>>

-----------------------------------------------------------------------------
(* baresip and the network.                                                *)

\* The stream of a malformed input is reset.
Reset(input) ==
    /\ input \in given
    /\ stream[input] = "open"
    /\ stream' = [stream EXCEPT ![input] = "reset"]
    /\ UNCHANGED <<kind, probe, connected, given, pending, drained, dropper,
                   transport, failures, outcome, blame>>

\* What baresip accepts it sends back, early or late.
Echo(message) ==
    /\ kind = "malformed" /\ place # "done"
    /\ message \in given
    /\ ~Arrived(message)
    /\ Arrives(message)
    /\ IF message \in Malformed THEN Blamed("baresip") ELSE UNCHANGED blame
    /\ UNCHANGED <<kind, probe, stream, connected, given, drained, dropper,
                   inFlight, tried, skipped, repeats, failures, outcome>>

\* What has arrived arrives again, because baresip has sent it back twice.
Repeat(message) ==
    /\ place # "done" /\ repeats < MaxRepeats
    /\ Arrived(message)
    /\ Arrives(message)
    /\ repeats' = repeats + 1
    /\ Blamed("baresip")
    /\ UNCHANGED <<kind, probe, stream, connected, given, drained, dropper,
                   inFlight, tried, skipped, failures, outcome>>

\* The peer connection breaks.
Break ==
    /\ kind = "malformed" /\ place # "done" /\ connected
    /\ connected' = FALSE
    /\ Blamed("network")
    /\ UNCHANGED <<kind, probe, stream, given, pending, drained, dropper,
                   transport, failures, outcome>>

\* baresip sends back the message, in one chunk or by a mistake in several,
\* and again until it gives it up with a FORWARD-TSN; it sends back the other
\* message; and it may still have to give up an earlier one.
Transmit(packet) ==
    /\ kind = "partial" /\ place # "done"
    /\ packet \notin inFlight
    /\ packet \in {"marker", "pieces", "forward"} =>
          "marker" \in given /\ ~skipped /\ "forward" \notin inFlight
    /\ packet = "forward" => tried
    /\ packet = "recovery" => packet \in given
    /\ inFlight' = inFlight \cup {packet}
    /\ tried' = (tried \/ packet \in {"marker", "pieces"})
    /\ IF packet \in {"pieces", "foreign"} THEN Blamed(packet) ELSE UNCHANGED blame
    /\ UNCHANGED <<kind, probe, peer, given, drained, dropper, skipped,
                   repeats, arrivals, failures, outcome>>

\* A packet is lost.
LosePacket(packet) ==
    /\ packet \in inFlight
    /\ inFlight' = inFlight \ {packet}
    /\ Blamed("network")
    /\ UNCHANGED <<kind, probe, peer, given, drained, dropper, tried, skipped,
                   repeats, arrivals, failures, outcome>>

-----------------------------------------------------------------------------
Probe ==
    \/ NoStream \/ Begin \/ OpenInput \/ SendInput \/ SettleInput
    \/ RequireClosed \/ CheckInput \/ OpenFails \/ JudgeProbe \/ Recover
    \/ AwaitFails

ProbeNext ==
    \/ Probe \/ Await \/ Break
    \/ \E input \in Malformed : Reset(input) \/ Echo(input)
    \/ Echo("recovery")
    \/ \E message \in Messages : Repeat(message)
    \/ \E packet \in Packets :
          Handle(packet) \/ Transmit(packet) \/ LosePacket(packet)

ProbeSpec == ProbeInit /\ [][ProbeNext]_probeVars

\* The coroutine is scheduled, and each of its waits has a deadline.
ProbeFairness == WF_probeVars(Probe)

-----------------------------------------------------------------------------
(* What a probe establishes.                                               *)

\* Every variable has its type.
ProbeTypeOK ==
    /\ kind \in {"malformed", "partial"}
    /\ place \in {"begin", "open", "send", "settle", "reset", "check",
                  "forward", "recover", "await", "done"}
    /\ stage \in DOMAIN Inputs
    /\ stream \in [Malformed -> {"none", "open", "reset", "closed"}]
    /\ connected \in BOOLEAN
    /\ given \subseteq Messages
    /\ pending \in Seq(Messages) /\ drained \subseteq Messages
    /\ hooked \in BOOLEAN /\ dropped \in BOOLEAN /\ forwarded \in BOOLEAN
    /\ inFlight \subseteq Packets /\ tried \in BOOLEAN /\ skipped \in BOOLEAN
    /\ repeats \in Nat
    /\ outcome \in {"none", "PASS", "FAIL", "INFRA_ERROR"}
    /\ arrivals \subseteq Messages \X BOOLEAN

\* The probe passes only if baresip itself has reset the stream of every
\* malformed input, has handed none of them to its application before the
\* probe stopped to look, and has sent the valid message back.
PassMeansRejected ==
    outcome = "PASS" /\ kind = "malformed" =>
        /\ \A input \in Malformed : stream[input] = "reset"
        /\ \A input \in Malformed : <<input, TRUE>> \notin arrivals
        /\ <<"recovery", TRUE>> \in arrivals

\* The probe passes only if the message was taken out, the peer never got it,
\* and baresip gave it up, or else gave up an earlier message meanwhile.
PassMeansAbandoned ==
    outcome = "PASS" /\ kind = "partial" =>
        /\ dropped
        /\ <<"marker", TRUE>> \notin arrivals
        /\ skipped \/ "foreign" \in blame
        /\ <<"recovery", TRUE>> \in arrivals

\* A baresip that refuses what is malformed, or gives up what is lost, is not
\* blamed, however early or late in the probe it does so, as long as no
\* deadline passes, no packet is lost, no message comes twice and no earlier
\* one is given up.
NoFalseFailure == outcome = "FAIL" => blame # {}

=============================================================================
