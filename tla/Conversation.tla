---------------------------- MODULE Conversation ----------------------------
(***************************************************************************)
(* What a product scenario with aiortc does with its channels once they    *)
(* are open (acceptance/product.py run_product_scenario): the malformed    *)
(* inputs, or else the exchange of messages, and after it, where the       *)
(* channel is partially reliable, the probe of that.  Each of them is      *)
(* taken here from an empty event queue; the one that is not taken is over *)
(* from the start.                                                         *)
(***************************************************************************)
EXTENDS Exchange, Probes

conversation == <<vars, probeVars>>

\* The scenario is one of malformed inputs, or its exchange is behind it.
NoExchange ==
    /\ ordered = TRUE
    /\ expected = [i \in 1..Count |-> CHOOSE v \in Value : TRUE]
    /\ active = 1 /\ pc = "done"
    /\ wire = [c \in Labels |-> <<>>]
    /\ queue = <<>> /\ seen = <<>> /\ events = <<>>
    /\ actual = [c \in Labels |-> <<>>]
    /\ verdict = "none" /\ timedOut = FALSE
    /\ arrived = <<>> /\ faults = 0

\* The scenario has no probe, or it is still to come.
NoProbe ==
    /\ kind = "partial" /\ place = "done" /\ stage = 1
    /\ stream = [s \in Malformed |-> "none"]
    /\ connected = TRUE
    /\ given = {} /\ pending = <<>> /\ drained = {}
    /\ hooked = FALSE /\ dropped = FALSE /\ forwarded = FALSE
    /\ inFlight = {} /\ tried = FALSE /\ skipped = FALSE /\ repeats = 0
    /\ failures = {} /\ outcome = "none"
    /\ arrivals = {} /\ blame = {}

ConversationInit == (Init /\ NoProbe) \/ (NoExchange /\ ProbeInit)

ConversationNext ==
    \/ Next /\ UNCHANGED probeVars
    \/ ProbeNext /\ UNCHANGED vars

FairConversation ==
    /\ ConversationInit /\ [][ConversationNext]_conversation
    /\ ExchangeFairness /\ ProbeFairness

\* The exchange and the probe end, whatever the echo and baresip do: every
\* wait has one deadline, which no message that comes meanwhile postpones
\* (wait_for_messages, exercise_malformed_inputs, exercise_partial_reliability).
Ends == <>(pc = "done" /\ place = "done")

=============================================================================
