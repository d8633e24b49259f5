------------------------------ MODULE Parallel ------------------------------
(***************************************************************************)
(* Parallel sessions (acceptance/product.py run_parallel_sessions): one    *)
(* baresip process serves several peers at once.  The harness negotiates   *)
(* all sessions concurrently, sends every peer's messages, waits for all   *)
(* echoes, and deletes the sessions concurrently.                          *)
(*                                                                         *)
(* asyncio.gather raises the first exception at once and leaves the other  *)
(* tasks running, also past the end of the clause that waits for them.     *)
(* Time is not modelled: the deadline of a wait may pass at any moment of  *)
(* it.  baresip's signaling port and how its process is stopped are the    *)
(* subject of module Scenario.                                             *)
(***************************************************************************)
EXTENDS Naturals, Sequences, SequencesExt

CONSTANTS
    Count,     \* how many peers there are
    Messages,  \* how many messages each of them sends
    MaxFaults  \* bound: how often baresip misbehaves

ASSUME ParallelAssumption ==
    /\ Count \in Nat \ {0}
    /\ Messages \in Nat \ {0}
    /\ MaxFaults \in Nat

VARIABLES
    own,         \* the process: "none", "running", "dead", or "stuck" when it
                 \* is gone and its log was not captured
    session,     \* the session of each peer, as baresip has it
    request,     \* where the task is that negotiates or deletes it
    known,       \* the peers whose sessions the harness has ids of
    peersOpen,   \* whether the peers are still to be closed
    pc,          \* where the harness is
    error,       \* the exception under way
    negotiated,  \* whether all descriptions were exchanged
    next,        \* the peer to collect from
    wire,        \* the echoes under way to each peer
    queue,       \* the event queue of each peer
    seen,        \* what the wait for each peer has drained
    failures,    \* the oracle failures collected so far
    outcome,     \* what result.json will say
    evidence,    \* the files written
    result,      \* the published verdict, "none" when there is none
    arrived,     \* history: what arrived at each peer until collected from
    faults       \* history: how often baresip misbehaved

control == <<pc, error>>
sessions == <<own, session, request>>
harness == <<known, peersOpen, negotiated, next>>
transport == <<wire, queue, seen, arrived, faults>>
judgement == <<failures, outcome>>
files == <<evidence, result>>
vars == <<control, sessions, harness, transport, judgement, files>>

Peer == 1..Count
Errors == {"timeout", "other"}

Identity == {"command.txt", "scenario.json", "versions.json"}
Manifests == {"peer-stats.json", "sent-manifest.json",
              "received-manifest.json", "events.ndjson"}

\* Faulty variant of Payload: every peer sends the same.
PayloadAlone(p, n) == <<0, n>>

\* Payloads tell from which association they are (parallel_payloads).
Payload(p, n) == <<p, n>>

\* An event is a message on the peer's own channel or on another one.  From
\* where it comes is for the properties only.
Message(p, n) == [mine |-> TRUE, payload |-> Payload(p, n), from |-> p, number |-> n]
Sent(p) == [n \in 1..Messages |-> Message(p, n)]

\* The messages of the peer's own channel.
Mine(log) ==
    LET mine[n \in 0..Len(log)] ==
            IF n = 0 THEN <<>>
            ELSE IF log[n].mine THEN Append(mine[n - 1], log[n])
            ELSE mine[n - 1]
    IN  mine[Len(log)]
Payloads(log) == [i \in 1..Len(log) |-> log[i].payload]

Init ==
    /\ own = "none"
    /\ session = [p \in Peer |-> "none"]
    /\ request = [p \in Peer |-> "none"]
    /\ known = {} /\ peersOpen = TRUE
    /\ pc = "start" /\ error = "none"
    /\ negotiated = FALSE /\ next = 1
    /\ wire = [p \in Peer |-> <<>>]
    /\ queue = [p \in Peer |-> <<>>]
    /\ seen = [p \in Peer |-> <<>>]
    /\ failures = {} /\ outcome = "INFRA_ERROR"
    /\ evidence = Identity /\ result = "none"
    /\ arrived = [p \in Peer |-> <<>>]
    /\ faults = 0

Goto(place) == pc' = place /\ UNCHANGED error
Raise(e) == error' = e /\ pc' = "except"

Serves(p) == own = "running" /\ session[p] = "open"
At(p, step) == request' = [request EXCEPT ![p] = step]
Becomes(p, state) == session' = [session EXCEPT ![p] = state]
AllAt(step) == \A p \in Peer : request[p] = step

-----------------------------------------------------------------------------
(* Negotiating.                                                            *)

\* start runs the process, or closes it again and raises.
Start ==
    /\ pc = "start"
    /\ \/ own' = "running" /\ Goto("offer")
       \/ own' \in {"none", "stuck"} /\ \E e \in Errors : Raise(e)
    /\ evidence' = evidence \cup {"baresip.log"}
    /\ UNCHANGED <<session, request, harness, transport, judgement, result>>

\* The peers gather their candidates and make their offers; then a task of
\* each asks baresip for an answer.
Offer ==
    /\ pc = "offer"
    /\ request' = [p \in Peer |-> "create"]
    /\ Goto("negotiate")
    /\ UNCHANGED <<own, session, harness, transport, judgement, files>>

\* The first request of answer_session.  A session is created even when its
\* answer does not arrive, and whether or not anybody still waits for it.
Create(p) ==
    /\ request[p] = "create"
    /\ own = "running"
    /\ Becomes(p, "open")
    /\ At(p, "describe") \/ At(p, "failed")
    /\ UNCHANGED <<control, own, harness, transport, judgement, files>>

\* The second one.
Describe(p) ==
    /\ request[p] = "describe"
    /\ Serves(p)
    /\ At(p, "described")
    /\ UNCHANGED <<control, own, session, harness, transport, judgement, files>>

\* It is refused, not served or not answered.
RequestFails(p) ==
    /\ request[p] \in {"create", "describe", "delete"}
    /\ At(p, "failed")
    /\ UNCHANGED <<control, own, session, harness, transport, judgement, files>>

\* Only when every task has its answer, and every answer has a candidate of
\* the primary host, does the harness learn the session ids.
Answered ==
    /\ pc = "negotiate"
    /\ AllAt("described")
    /\ \/ known' = Peer /\ Goto("accept")
       \/ UNCHANGED known /\ Raise("other")
    /\ UNCHANGED <<sessions, peersOpen, negotiated, next, transport, judgement,
                   files>>

\* The first exception of a task is the gather's.
GatherFails ==
    /\ pc \in {"negotiate", "delete"}
    /\ \E p \in Peer : request[p] = "failed"
    /\ \E e \in Errors : Raise(e)
    /\ UNCHANGED <<sessions, harness, transport, judgement, files>>

Accept ==
    /\ pc = "accept"
    /\ negotiated' = TRUE
    /\ Goto("open")
    /\ UNCHANGED <<sessions, known, peersOpen, next, transport, judgement,
                   files>>

\* A peer raises: gathering candidates has a deadline, too.
PeerFails ==
    /\ pc \in {"offer", "accept", "send", "collect"}
    /\ \/ Raise("other")
       \/ pc \in {"offer", "accept"} /\ Raise("timeout")
    /\ UNCHANGED <<sessions, harness, transport, judgement, files>>

-----------------------------------------------------------------------------
(* Exchanging messages.                                                    *)

\* Every channel opens.
Open ==
    /\ pc = "open"
    /\ \A p \in Peer : Serves(p)
    /\ Goto("send")
    /\ UNCHANGED <<sessions, harness, transport, judgement, files>>

\* baresip is to send back what it gets.
Send ==
    /\ pc = "send"
    /\ wire' = [p \in Peer |-> Sent(p)]
    /\ Goto("wait")
    /\ UNCHANGED <<sessions, harness, queue, seen, arrived, faults, judgement,
                   files>>

\* Faulty variant of Enough: one message too few.
EnoughHasty(p) == Len(Mine(seen[p])) + 1 >= Messages

Enough(p) == Len(Mine(seen[p])) >= Messages

\* One round of wait_for_messages: each task drains the queue of its peer.
Poll(p) ==
    /\ pc = "wait"
    /\ ~Enough(p)
    /\ seen' = [seen EXCEPT ![p] = @ \o queue[p]]
    /\ queue' = [queue EXCEPT ![p] = <<>>]
    /\ UNCHANGED <<control, sessions, harness, wire, arrived, faults, judgement,
                   files>>

\* Faulty variant of WaitFails: messages may take as long as they like.
WaitForever ==
    /\ pc = "open"
    /\ Raise("timeout")
    /\ UNCHANGED <<sessions, harness, transport, judgement, files>>

\* The deadline of a wait passes.
WaitFails ==
    /\ \/ pc = "open"
       \/ pc = "wait" /\ \E p \in Peer : ~Enough(p)
    /\ Raise("timeout")
    /\ UNCHANGED <<sessions, harness, transport, judgement, files>>

\* A quarter of a second is left for what should not come.
Settle ==
    /\ pc = "wait"
    /\ \A p \in Peer : Enough(p)
    /\ Goto("collect")
    /\ UNCHANGED <<sessions, harness, transport, judgement, files>>

\* unexpected_message_failures.
Extras(log) == IF log # <<>> THEN {"extra"} ELSE {}

\* Whatever else a peer has received by now is one message too many, and its
\* transport must be connected.
Collect ==
    /\ pc = "collect"
    /\ next <= Count
    /\ \E F \in SUBSET {"dtls", "sctp"} :
          failures' = failures \cup F \cup Extras(queue[next])
    /\ queue' = [queue EXCEPT ![next] = <<>>]
    /\ next' = next + 1
    /\ UNCHANGED <<control, sessions, known, peersOpen, negotiated, wire, seen,
                   arrived, faults, outcome, files>>

\* The records of all peers, in the order of the peers, are compared once: a
\* record carries its association, so that each peer is compared by itself.
Compare ==
    /\ pc = "collect"
    /\ next > Count
    /\ failures' = failures \cup
          IF \E p \in Peer : Payloads(Mine(seen[p])) # Payloads(Sent(p))
          THEN {"transcript"} ELSE {}
    /\ request' = [p \in Peer |-> "delete"]
    /\ Goto("delete")
    /\ UNCHANGED <<own, session, harness, transport, outcome, files>>

-----------------------------------------------------------------------------
(* Ending the sessions.                                                    *)

\* delete_session_id, whose answer may be lost.
Delete(p) ==
    /\ request[p] = "delete"
    /\ Serves(p)
    /\ Becomes(p, "deleted")
    /\ At(p, "deleted") \/ At(p, "failed")
    /\ UNCHANGED <<control, own, harness, transport, judgement, files>>

Deleted ==
    /\ pc = "delete"
    /\ AllAt("deleted")
    /\ known' = {}
    /\ Goto("close")
    /\ UNCHANGED <<sessions, peersOpen, negotiated, next, transport, judgement,
                   files>>

Ended == [p \in Peer |-> IF session[p] = "open" THEN "ended" ELSE session[p]]

\* endpoint.close stops the process, with which open sessions end, and waits
\* for the task that captures the log: when it has failed, so does each close.
Close ==
    /\ pc \in {"close", "finally"}
    /\ session' = Ended
    /\ \/ /\ own # "stuck"
          /\ own' = "none"
          /\ Goto(IF pc = "close" THEN "write" ELSE "publish")
       \/ /\ own # "none"
          /\ own' = "stuck"
          /\ error' = "other"
          /\ pc' = IF pc = "close" THEN "except" ELSE "raised"
    /\ UNCHANGED <<request, harness, transport, judgement, files>>

\* The log lacks an ICE completion or a DTLS verification, or does not.
Write ==
    /\ pc = "write"
    /\ \E F \in SUBSET {"log"} :
          /\ failures' = failures \cup F
          /\ outcome' = IF failures' = {} THEN "PASS" ELSE "FAIL"
    /\ evidence' = evidence \cup Manifests
    /\ Goto("cleanup")
    /\ UNCHANGED <<sessions, harness, transport, result>>

Except ==
    /\ pc = "except"
    /\ outcome' = IF negotiated /\ error = "timeout" THEN "FAIL"
                  ELSE "INFRA_ERROR"
    /\ Goto("cleanup")
    /\ UNCHANGED <<sessions, harness, transport, failures, files>>

\* The sessions still known are deleted, whatever comes of it, and the peers
\* are closed.
Cleanup ==
    /\ pc = "cleanup"
    /\ \E D \in SUBSET {p \in known : Serves(p)} :
          session' = [p \in Peer |-> IF p \in D THEN "deleted" ELSE session[p]]
    /\ peersOpen' = FALSE
    /\ Goto("finally")
    /\ UNCHANGED <<own, request, known, negotiated, next, transport, judgement,
                   files>>

\* Faulty variant of Publish: the result does not wait for the process.
PublishEarly ==
    /\ pc \in {"finally", "publish"}
    /\ result' = outcome
    /\ evidence' = evidence \cup {"result.json"}
    /\ Goto("done")
    /\ UNCHANGED <<sessions, harness, transport, judgement>>

Publish ==
    /\ pc = "publish"
    /\ result' = outcome
    /\ evidence' = evidence \cup {"result.json"}
    /\ Goto("done")
    /\ UNCHANGED <<sessions, harness, transport, judgement>>

-----------------------------------------------------------------------------
(* baresip.                                                                *)

\* Messages matter until the harness has collected from the peer.
Listening(p) == pc \in {"wait", "collect"} /\ p >= next

\* A message reaches a peer.
Receive(p, event) ==
    /\ Listening(p)
    /\ queue' = [queue EXCEPT ![p] = Append(@, event)]
    /\ arrived' = [arrived EXCEPT ![p] = Append(@, event)]

\* The next echo arrives where it belongs.
Deliver(p) ==
    /\ wire[p] # <<>>
    /\ Serves(p)
    /\ Receive(p, Head(wire[p]))
    /\ wire' = [wire EXCEPT ![p] = Tail(@)]
    /\ UNCHANGED <<control, sessions, harness, seen, faults, judgement, files>>

\* The next echo is lost, comes twice, comes on a channel of its own, or
\* takes the session of another peer.
Misbehave(p) ==
    /\ faults < MaxFaults
    /\ wire[p] # <<>>
    /\ Serves(p)
    /\ LET echo == Head(wire[p]) IN
       \/ /\ Listening(p)
          /\ wire' = [wire EXCEPT ![p] = Tail(@)]
          /\ UNCHANGED <<queue, arrived>>
       \/ Receive(p, echo) /\ UNCHANGED wire
       \/ \E q \in Peer, mine \in BOOLEAN :
             /\ q # p \/ ~mine
             /\ Serves(q)
             /\ Receive(q, [echo EXCEPT !.mine = mine])
             /\ wire' = [wire EXCEPT ![p] = Tail(@)]
    /\ faults' = faults + 1
    /\ UNCHANGED <<control, sessions, harness, seen, judgement, files>>

\* The process exits.
Exit ==
    /\ own = "running"
    /\ own' = "dead"
    /\ session' = Ended
    /\ UNCHANGED <<control, request, harness, transport, judgement, files>>

-----------------------------------------------------------------------------
Task(p) ==
    Create(p) \/ Describe(p) \/ RequestFails(p) \/ Poll(p) \/ Delete(p)

Coroutine ==
    \/ Start \/ Offer \/ Answered \/ GatherFails \/ Accept \/ PeerFails
    \/ Open \/ Send \/ WaitFails \/ Settle \/ Collect \/ Compare
    \/ Deleted \/ Close \/ Write \/ Except \/ Cleanup \/ Publish

Next ==
    \/ Coroutine
    \/ \E p \in Peer : Task(p) \/ Deliver(p) \/ Misbehave(p)
    \/ Exit

Spec == Init /\ [][Next]_vars

\* The event loop runs every coroutine, requests and waits have deadlines.
FairSpec ==
    /\ Spec
    /\ WF_vars(Coroutine)
    /\ \A p \in Peer : WF_vars(RequestFails(p))

-----------------------------------------------------------------------------
(* What the scenario promises.                                             *)

\* Every variable has its type.
TypeOK ==
    /\ own \in {"none", "running", "dead", "stuck"}
    /\ session \in [Peer -> {"none", "open", "deleted", "ended"}]
    /\ request \in [Peer -> {"none", "create", "describe", "described",
                             "delete", "deleted", "failed"}]
    /\ known \in SUBSET Peer /\ peersOpen \in BOOLEAN
    /\ pc \in {"start", "offer", "negotiate", "accept", "open", "send", "wait",
               "collect", "delete", "close", "write", "except", "cleanup",
               "finally", "publish", "done", "raised"}
    /\ error \in {"none"} \cup Errors
    /\ negotiated \in BOOLEAN /\ next \in 1..(Count + 1)
    /\ failures \subseteq {"dtls", "sctp", "extra", "transcript", "log"}
    /\ outcome \in {"PASS", "FAIL", "INFRA_ERROR"}
    /\ result \in {"none", "PASS", "FAIL", "INFRA_ERROR"}
    /\ evidence \subseteq Identity \cup Manifests \cup {"baresip.log", "result.json"}
    /\ faults \in 0..MaxFaults

\* The campaign passes only if every peer got back on its channel exactly what
\* it had sent, in order and nothing of another session, and baresip ended
\* each session when it was asked to (wait_for_messages, parallel_payloads,
\* unexpected_message_failures, compare_ordered, delete_session_id).
PassMeansOwn ==
    result = "PASS" => \A p \in Peer :
        /\ Mine(arrived[p]) = [n \in 1..Messages |-> Message(p, n)]
        /\ arrived[p] = seen[p]
        /\ session[p] = "deleted"

\* A baresip that sends every message back where it belongs and in order is
\* not blamed for a message, whatever the pace of the sessions.
NoFalseAlarm ==
    failures \cap {"extra", "transcript"} # {} => faults > 0

Contract == INSTANCE ScenarioContract WITH
    Evidence <- Identity \cup Manifests \cup {"baresip.log", "result.json"},
    collected <- evidence,
    alive <- own # "none" \/ peersOpen \/ \E p \in Peer : session[p] = "open",
    verdict <- result

\* The scenario implements the contract of the evidence directory: one
\* verdict, published when the process, every session and the peers are gone.
ImplementsContract == Contract!Spec

\* It ends, whatever baresip and the peers do.
Ends == <>(pc \in {"done", "raised"})

=============================================================================
