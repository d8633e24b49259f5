--------------------------- MODULE Parallel_proofs ---------------------------
(***************************************************************************)
(* Parallel sessions, for any number of peers and messages: whatever the   *)
(* tasks that outlive a failure still do, the verdict is published when    *)
(* the process, every session and the peers are gone, a PASS means that    *)
(* every peer got back what it had sent and nothing else, and that baresip *)
(* ended each session when it was asked to, and a baresip without fault is *)
(* not blamed for a message.                                               *)
(***************************************************************************)
EXTENDS Parallel, SequenceTheorems, WellFoundedInduction, TLAPS

\* The types in three groups.
Requests ==
    /\ session \in [Peer -> {"none", "open", "deleted", "ended"}]
    /\ request \in [Peer -> {"none", "create", "describe", "described",
                             "delete", "deleted", "failed"}]
    /\ known \in SUBSET Peer
Places ==
    /\ own \in {"none", "running", "dead", "stuck"}
    /\ pc \in {"start", "offer", "negotiate", "accept", "open", "send", "wait",
               "collect", "delete", "close", "write", "except", "cleanup",
               "finally", "publish", "done", "raised"}
    /\ error \in {"none"} \cup Errors
    /\ next \in 1..(Count + 1)
    /\ failures \subseteq {"dtls", "sctp", "extra", "transcript", "log"}
    /\ outcome \in {"PASS", "FAIL", "INFRA_ERROR"}
    /\ result \in {"none", "PASS", "FAIL", "INFRA_ERROR"}
    /\ evidence \subseteq Identity \cup Manifests \cup {"baresip.log", "result.json"}
    /\ faults \in 0..MaxFaults
Flags == peersOpen \in BOOLEAN /\ negotiated \in BOOLEAN
Types == Requests /\ Places /\ Flags

\* What a step of the negotiation leaves behind: a task that was given up may
\* still create a session, but only in the running process.
Sessions ==
    /\ \A p \in Peer : session[p] = "open" => own = "running"
    /\ \A p \in Peer : request[p] = "deleted" => session[p] = "deleted"
    /\ pc \in {"start", "offer"} => \A p \in Peer : request[p] = "none"
    /\ pc = "start" => \A p \in Peer : session[p] = "none"
    /\ pc \in {"negotiate", "accept", "open", "send", "wait", "collect"} =>
          \A p \in Peer : request[p] \in {"create", "describe", "described", "failed"}
    /\ pc \in {"accept", "open", "send", "wait", "collect"} =>
          \A p \in Peer : request[p] = "described"
    /\ pc = "delete" => \A p \in Peer : request[p] \in {"delete", "deleted", "failed"}
    /\ pc \in {"close", "write"} => \A p \in Peer : request[p] = "deleted"
    /\ outcome = "PASS" => /\ \A p \in Peer : request[p] = "deleted"
                           /\ pc \in {"cleanup", "finally", "publish", "done", "raised"}

\* Nothing is published before everything is gone.
Files ==
    /\ pc = "done" => result = outcome
    /\ pc # "done" => result = "none" /\ "result.json" \notin evidence
    /\ pc \in {"finally", "publish", "done"} => ~peersOpen
    /\ pc \in {"publish", "done"} => own = "none"

IInv == Types /\ Sessions /\ Files

-----------------------------------------------------------------------------
\* The groups are the types.
LEMMA TypesAreTypes == Types <=> TypeOK
  BY DEF Types, Requests, Places, Flags, TypeOK

\* The invariant holds initially.
LEMMA Initially == Init => IInv
  <1> SUFFICES ASSUME Init PROVE IInv
    OBVIOUS
  <1> USE ParallelAssumption DEF ParallelAssumption, Init, Identity, Errors
  <1>1. Requests /\ Flags
    BY DEF Requests, Flags
  <1>2. Places
    BY DEF Places
  <1>3. Sessions /\ Files
    BY DEF Sessions, Files
  <1>. QED
    BY <1>1, <1>2, <1>3 DEF IInv, Types

\* Every step keeps the process, the place and the reports.
LEMMA PlacesStep == Places /\ [Next]_vars => Places'
  <1> SUFFICES ASSUME Places, [Next]_vars PROVE Places'
    OBVIOUS
  <1> USE DEF Places, Errors, Identity, Manifests,
             vars, control, sessions, harness, transport, judgement, files
  <1>1. CASE Start
    BY <1>1 DEF Start, Goto, Raise
  <1>2. CASE Offer
    BY <1>2 DEF Offer, Goto
  <1>3. CASE Answered
    BY <1>3 DEF Answered, Goto, Raise, AllAt
  <1>4. CASE GatherFails
    BY <1>4 DEF GatherFails, Raise
  <1>5. CASE Accept
    BY <1>5 DEF Accept, Goto
  <1>6. CASE PeerFails
    BY <1>6 DEF PeerFails, Raise
  <1>7. CASE Open
    BY <1>7 DEF Open, Goto
  <1>8. CASE Send
    BY <1>8 DEF Send, Goto
  <1>9. CASE WaitFails
    BY <1>9 DEF WaitFails, Raise
  <1>10. CASE Settle
    BY <1>10 DEF Settle, Goto
  <1>11. CASE Collect
    <2>1. next' \in 1..(Count + 1)
      BY <1>11, ParallelAssumption DEF Collect, ParallelAssumption
    <2>2. failures' \subseteq {"dtls", "sctp", "extra", "transcript", "log"}
      BY <1>11 DEF Collect, Extras
    <2>3. UNCHANGED <<own, pc, error, outcome, result, evidence, faults>>
      BY <1>11 DEF Collect
    <2>. QED
      BY <2>1, <2>2, <2>3
  <1>12. CASE Compare
    BY <1>12 DEF Compare, Goto
  <1>13. CASE Deleted
    BY <1>13 DEF Deleted, Goto, AllAt
  <1>14. CASE Close
    BY <1>14 DEF Close, Goto, Ended
  <1>15. CASE Write
    BY <1>15 DEF Write, Goto
  <1>16. CASE Except
    BY <1>16 DEF Except, Goto
  <1>17. CASE Cleanup
    BY <1>17 DEF Cleanup, Goto
  <1>18. CASE Publish
    BY <1>18 DEF Publish, Goto
  <1>19. ASSUME NEW p \in Peer, Create(p) PROVE Places'
    BY <1>19 DEF Create, Becomes, At
  <1>20. ASSUME NEW p \in Peer, Describe(p) PROVE Places'
    BY <1>20 DEF Describe, At
  <1>21. ASSUME NEW p \in Peer, RequestFails(p) PROVE Places'
    BY <1>21 DEF RequestFails, At
  <1>22. ASSUME NEW p \in Peer, Poll(p) PROVE Places'
    BY <1>22 DEF Poll
  <1>23. ASSUME NEW p \in Peer, Delete(p) PROVE Places'
    BY <1>23 DEF Delete, Becomes, At, Serves
  <1>24. ASSUME NEW p \in Peer, Deliver(p) PROVE Places'
    BY <1>24 DEF Deliver
  <1>25. ASSUME NEW p \in Peer, Misbehave(p) PROVE Places'
    <2>1. faults' \in 0..MaxFaults
      BY <1>25, ParallelAssumption DEF Misbehave, ParallelAssumption
    <2>2. UNCHANGED <<own, pc, error, next, failures, outcome, result, evidence>>
      BY <1>25 DEF Misbehave
    <2>. QED
      BY <2>1, <2>2
  <1>26. CASE Exit
    BY <1>26 DEF Exit, Ended
  <1>27. CASE UNCHANGED vars
    BY <1>27 DEF vars
  <1>. QED
    BY <1>1, <1>2, <1>3, <1>4, <1>5, <1>6, <1>7, <1>8, <1>9, <1>10, <1>11,
       <1>12, <1>13, <1>14, <1>15, <1>16, <1>17, <1>18, <1>19, <1>20,
       <1>21, <1>22, <1>23, <1>24, <1>25, <1>26, <1>27
    DEF Next, Coroutine, Task

\* Every step keeps the flags.
LEMMA FlagsStep == Flags /\ [Next]_vars => Flags'
  <1> SUFFICES ASSUME Flags, [Next]_vars PROVE Flags'
    OBVIOUS
  <1> USE DEF Flags, vars, control, sessions, harness, transport, judgement, files
  <1>1. CASE Start
    BY <1>1 DEF Start, Goto, Raise
  <1>2. CASE Offer
    BY <1>2 DEF Offer, Goto
  <1>3. CASE Answered
    BY <1>3 DEF Answered, Goto, Raise, AllAt
  <1>4. CASE GatherFails
    BY <1>4 DEF GatherFails, Raise
  <1>5. CASE Accept
    BY <1>5 DEF Accept, Goto
  <1>6. CASE PeerFails
    BY <1>6 DEF PeerFails, Raise
  <1>7. CASE Open
    BY <1>7 DEF Open, Goto
  <1>8. CASE Send
    BY <1>8 DEF Send, Goto
  <1>9. CASE WaitFails
    BY <1>9 DEF WaitFails, Raise
  <1>10. CASE Settle
    BY <1>10 DEF Settle, Goto
  <1>11. CASE Collect
    BY <1>11 DEF Collect, Extras
  <1>12. CASE Compare
    BY <1>12 DEF Compare, Goto
  <1>13. CASE Deleted
    BY <1>13 DEF Deleted, Goto, AllAt
  <1>14. CASE Close
    BY <1>14 DEF Close, Goto, Ended
  <1>15. CASE Write
    BY <1>15 DEF Write, Goto
  <1>16. CASE Except
    BY <1>16 DEF Except, Goto
  <1>17. CASE Cleanup
    BY <1>17 DEF Cleanup, Goto
  <1>18. CASE Publish
    BY <1>18 DEF Publish, Goto
  <1>19. ASSUME NEW p \in Peer, Create(p) PROVE Flags'
    BY <1>19 DEF Create, Becomes, At
  <1>20. ASSUME NEW p \in Peer, Describe(p) PROVE Flags'
    BY <1>20 DEF Describe, At
  <1>21. ASSUME NEW p \in Peer, RequestFails(p) PROVE Flags'
    BY <1>21 DEF RequestFails, At
  <1>22. ASSUME NEW p \in Peer, Poll(p) PROVE Flags'
    BY <1>22 DEF Poll
  <1>23. ASSUME NEW p \in Peer, Delete(p) PROVE Flags'
    BY <1>23 DEF Delete, Becomes, At, Serves
  <1>24. ASSUME NEW p \in Peer, Deliver(p) PROVE Flags'
    BY <1>24 DEF Deliver
  <1>25. ASSUME NEW p \in Peer, Misbehave(p) PROVE Flags'
    BY <1>25 DEF Misbehave
  <1>26. CASE Exit
    BY <1>26 DEF Exit, Ended
  <1>27. CASE UNCHANGED vars
    BY <1>27 DEF vars
  <1>. QED
    BY <1>1, <1>2, <1>3, <1>4, <1>5, <1>6, <1>7, <1>8, <1>9, <1>10, <1>11,
       <1>12, <1>13, <1>14, <1>15, <1>16, <1>17, <1>18, <1>19, <1>20,
       <1>21, <1>22, <1>23, <1>24, <1>25, <1>26, <1>27
    DEF Next, Coroutine, Task

\* Every step keeps the requests and sessions of each peer.
LEMMA RequestsStep == Requests /\ [Next]_vars => Requests'
  <1> SUFFICES ASSUME Requests, [Next]_vars PROVE Requests'
    OBVIOUS
  <1> USE DEF Requests, vars, control, sessions, harness, transport, judgement, files
  <1>1. CASE Start
    BY <1>1 DEF Start, Goto, Raise
  <1>2. CASE Offer
    BY <1>2 DEF Offer, Goto
  <1>3. CASE Answered
    BY <1>3 DEF Answered, Goto, Raise, AllAt
  <1>4. CASE GatherFails
    BY <1>4 DEF GatherFails, Raise
  <1>5. CASE Accept
    BY <1>5 DEF Accept, Goto
  <1>6. CASE PeerFails
    BY <1>6 DEF PeerFails, Raise
  <1>7. CASE Open
    BY <1>7 DEF Open, Goto
  <1>8. CASE Send
    BY <1>8 DEF Send, Goto
  <1>9. CASE WaitFails
    BY <1>9 DEF WaitFails, Raise
  <1>10. CASE Settle
    BY <1>10 DEF Settle, Goto
  <1>11. CASE Collect
    BY <1>11 DEF Collect, Extras
  <1>12. CASE Compare
    BY <1>12 DEF Compare, Goto
  <1>13. CASE Deleted
    BY <1>13 DEF Deleted, Goto, AllAt
  <1>14. CASE Close
    BY <1>14 DEF Close, Goto, Ended
  <1>15. CASE Write
    BY <1>15 DEF Write, Goto
  <1>16. CASE Except
    BY <1>16 DEF Except, Goto
  <1>17. CASE Cleanup
    BY <1>17 DEF Cleanup, Goto
  <1>18. CASE Publish
    BY <1>18 DEF Publish, Goto
  <1>19. ASSUME NEW p \in Peer, Create(p) PROVE Requests'
    BY <1>19 DEF Create, Becomes, At
  <1>20. ASSUME NEW p \in Peer, Describe(p) PROVE Requests'
    BY <1>20 DEF Describe, At
  <1>21. ASSUME NEW p \in Peer, RequestFails(p) PROVE Requests'
    BY <1>21 DEF RequestFails, At
  <1>22. ASSUME NEW p \in Peer, Poll(p) PROVE Requests'
    BY <1>22 DEF Poll
  <1>23. ASSUME NEW p \in Peer, Delete(p) PROVE Requests'
    BY <1>23 DEF Delete, Becomes, At, Serves
  <1>24. ASSUME NEW p \in Peer, Deliver(p) PROVE Requests'
    BY <1>24 DEF Deliver
  <1>25. ASSUME NEW p \in Peer, Misbehave(p) PROVE Requests'
    BY <1>25 DEF Misbehave
  <1>26. CASE Exit
    BY <1>26 DEF Exit, Ended
  <1>27. CASE UNCHANGED vars
    BY <1>27 DEF vars
  <1>. QED
    BY <1>1, <1>2, <1>3, <1>4, <1>5, <1>6, <1>7, <1>8, <1>9, <1>10, <1>11,
       <1>12, <1>13, <1>14, <1>15, <1>16, <1>17, <1>18, <1>19, <1>20,
       <1>21, <1>22, <1>23, <1>24, <1>25, <1>26, <1>27
    DEF Next, Coroutine, Task

\* A session is open only in the running process, deleted when asked for.
LEMMA SessionsStep == Types /\ Sessions /\ [Next]_vars => Sessions'
  <1> SUFFICES ASSUME Types /\ Sessions, [Next]_vars PROVE Sessions'
    OBVIOUS
  <1> USE DEF Types, Requests, Places, Sessions, vars, control, sessions, harness, transport, judgement, files
  <1>1. CASE Start
    BY <1>1 DEF Start, Goto, Raise
  <1>2. CASE Offer
    BY <1>2 DEF Offer, Goto
  <1>3. CASE Answered
    BY <1>3 DEF Answered, Goto, Raise, AllAt
  <1>4. CASE GatherFails
    BY <1>4 DEF GatherFails, Raise
  <1>5. CASE Accept
    BY <1>5 DEF Accept, Goto
  <1>6. CASE PeerFails
    BY <1>6 DEF PeerFails, Raise
  <1>7. CASE Open
    BY <1>7 DEF Open, Goto
  <1>8. CASE Send
    BY <1>8 DEF Send, Goto
  <1>9. CASE WaitFails
    BY <1>9 DEF WaitFails, Raise
  <1>10. CASE Settle
    BY <1>10 DEF Settle, Goto
  <1>11. CASE Collect
    BY <1>11 DEF Collect, Extras
  <1>12. CASE Compare
    BY <1>12 DEF Compare, Goto
  <1>13. CASE Deleted
    BY <1>13 DEF Deleted, Goto, AllAt
  <1>14. CASE Close
    BY <1>14 DEF Close, Goto, Ended
  <1>15. CASE Write
    BY <1>15 DEF Write, Goto
  <1>16. CASE Except
    BY <1>16 DEF Except, Goto
  <1>17. CASE Cleanup
    BY <1>17 DEF Cleanup, Goto
  <1>18. CASE Publish
    BY <1>18 DEF Publish, Goto
  <1>19. ASSUME NEW p \in Peer, Create(p) PROVE Sessions'
    BY <1>19 DEF Create, Becomes, At
  <1>20. ASSUME NEW p \in Peer, Describe(p) PROVE Sessions'
    BY <1>20 DEF Describe, At
  <1>21. ASSUME NEW p \in Peer, RequestFails(p) PROVE Sessions'
    BY <1>21 DEF RequestFails, At
  <1>22. ASSUME NEW p \in Peer, Poll(p) PROVE Sessions'
    BY <1>22 DEF Poll
  <1>23. ASSUME NEW p \in Peer, Delete(p) PROVE Sessions'
    BY <1>23 DEF Delete, Becomes, At, Serves
  <1>24. ASSUME NEW p \in Peer, Deliver(p) PROVE Sessions'
    BY <1>24 DEF Deliver
  <1>25. ASSUME NEW p \in Peer, Misbehave(p) PROVE Sessions'
    BY <1>25 DEF Misbehave
  <1>26. CASE Exit
    BY <1>26 DEF Exit, Ended
  <1>27. CASE UNCHANGED vars
    BY <1>27 DEF vars
  <1>. QED
    BY <1>1, <1>2, <1>3, <1>4, <1>5, <1>6, <1>7, <1>8, <1>9, <1>10, <1>11,
       <1>12, <1>13, <1>14, <1>15, <1>16, <1>17, <1>18, <1>19, <1>20,
       <1>21, <1>22, <1>23, <1>24, <1>25, <1>26, <1>27
    DEF Next, Coroutine, Task

\* The result is written last.
LEMMA FilesStep == Types /\ Sessions /\ Files /\ [Next]_vars => Files'
  <1> SUFFICES ASSUME Types /\ Sessions /\ Files, [Next]_vars PROVE Files'
    OBVIOUS
  <1> USE DEF Types, Places, Sessions, Files, Identity, Manifests,
             vars, control, sessions, harness, transport, judgement, files
  <1>1. CASE Start
    BY <1>1 DEF Start, Goto, Raise
  <1>2. CASE Offer
    BY <1>2 DEF Offer, Goto
  <1>3. CASE Answered
    BY <1>3 DEF Answered, Goto, Raise, AllAt
  <1>4. CASE GatherFails
    BY <1>4 DEF GatherFails, Raise
  <1>5. CASE Accept
    BY <1>5 DEF Accept, Goto
  <1>6. CASE PeerFails
    BY <1>6 DEF PeerFails, Raise
  <1>7. CASE Open
    BY <1>7 DEF Open, Goto
  <1>8. CASE Send
    BY <1>8 DEF Send, Goto
  <1>9. CASE WaitFails
    BY <1>9 DEF WaitFails, Raise
  <1>10. CASE Settle
    BY <1>10 DEF Settle, Goto
  <1>11. CASE Collect
    BY <1>11 DEF Collect, Extras
  <1>12. CASE Compare
    BY <1>12 DEF Compare, Goto
  <1>13. CASE Deleted
    BY <1>13 DEF Deleted, Goto, AllAt
  <1>14. CASE Close
    BY <1>14 DEF Close, Goto, Ended
  <1>15. CASE Write
    BY <1>15 DEF Write, Goto
  <1>16. CASE Except
    BY <1>16 DEF Except, Goto
  <1>17. CASE Cleanup
    BY <1>17 DEF Cleanup, Goto
  <1>18. CASE Publish
    BY <1>18 DEF Publish, Goto
  <1>19. ASSUME NEW p \in Peer, Create(p) PROVE Files'
    BY <1>19 DEF Create, Becomes, At
  <1>20. ASSUME NEW p \in Peer, Describe(p) PROVE Files'
    BY <1>20 DEF Describe, At
  <1>21. ASSUME NEW p \in Peer, RequestFails(p) PROVE Files'
    BY <1>21 DEF RequestFails, At
  <1>22. ASSUME NEW p \in Peer, Poll(p) PROVE Files'
    BY <1>22 DEF Poll
  <1>23. ASSUME NEW p \in Peer, Delete(p) PROVE Files'
    BY <1>23 DEF Delete, Becomes, At, Serves
  <1>24. ASSUME NEW p \in Peer, Deliver(p) PROVE Files'
    BY <1>24 DEF Deliver
  <1>25. ASSUME NEW p \in Peer, Misbehave(p) PROVE Files'
    BY <1>25 DEF Misbehave
  <1>26. CASE Exit
    BY <1>26 DEF Exit, Ended
  <1>27. CASE UNCHANGED vars
    BY <1>27 DEF vars
  <1>. QED
    BY <1>1, <1>2, <1>3, <1>4, <1>5, <1>6, <1>7, <1>8, <1>9, <1>10, <1>11,
       <1>12, <1>13, <1>14, <1>15, <1>16, <1>17, <1>18, <1>19, <1>20,
       <1>21, <1>22, <1>23, <1>24, <1>25, <1>26, <1>27
    DEF Next, Coroutine, Task

LEMMA InvariantKept == IInv /\ [Next]_vars => IInv'
  BY PlacesStep, FlagsStep, RequestsStep, SessionsStep, FilesStep DEF IInv, Types

\* The invariant holds always.
LEMMA Correct == Spec => []IInv
  BY Initially, InvariantKept, PTL DEF Spec

-----------------------------------------------------------------------------
\* Every variable keeps its type, for any number of peers and messages.
THEOREM TypeCorrect == Spec => []TypeOK
  <1>1. IInv => TypeOK
    BY TypesAreTypes DEF IInv
  <1>. QED
    BY Correct, <1>1, PTL

\* A PASS means that baresip ended each session when it was asked to: the
\* harness waits for every deletion, and neither its own cleanup nor the end
\* of the process does it (delete_session_id, asyncio.gather).
DeletedOnPass == result = "PASS" => \A p \in Peer : session[p] = "deleted"

THEOREM PassIsDeleted == Spec => []DeletedOnPass
  <1>1. IInv => DeletedOnPass
    BY DEF IInv, Sessions, Files, DeletedOnPass
  <1>. QED
    BY Correct, <1>1, PTL

-----------------------------------------------------------------------------
\* The directory starts as its contract says.
LEMMA ContractInit == Init => Contract!Init
  BY DEF Init, Contract!Init, Identity, Manifests

\* A step only adds to the evidence.
LEMMA EvidenceGrows ==
  ASSUME [Next]_vars PROVE evidence \subseteq evidence'
  <1> USE DEF files
  <1>1. CASE Start
    BY <1>1 DEF Start, Goto, Raise
  <1>2. CASE Offer
    BY <1>2 DEF Offer, Goto
  <1>3. CASE Answered
    BY <1>3 DEF Answered, Goto, Raise, AllAt
  <1>4. CASE GatherFails
    BY <1>4 DEF GatherFails, Raise
  <1>5. CASE Accept
    BY <1>5 DEF Accept, Goto
  <1>6. CASE PeerFails
    BY <1>6 DEF PeerFails, Raise
  <1>7. CASE Open
    BY <1>7 DEF Open, Goto
  <1>8. CASE Send
    BY <1>8 DEF Send, Goto
  <1>9. CASE WaitFails
    BY <1>9 DEF WaitFails, Raise
  <1>10. CASE Settle
    BY <1>10 DEF Settle, Goto
  <1>11. CASE Collect
    BY <1>11 DEF Collect, Extras
  <1>12. CASE Compare
    BY <1>12 DEF Compare, Goto
  <1>13. CASE Deleted
    BY <1>13 DEF Deleted, Goto, AllAt
  <1>14. CASE Close
    BY <1>14 DEF Close, Goto, Ended
  <1>15. CASE Write
    BY <1>15 DEF Write, Goto
  <1>16. CASE Except
    BY <1>16 DEF Except, Goto
  <1>17. CASE Cleanup
    BY <1>17 DEF Cleanup, Goto
  <1>18. CASE Publish
    BY <1>18 DEF Publish, Goto
  <1>19. ASSUME NEW p \in Peer, Create(p) PROVE evidence \subseteq evidence'
    BY <1>19 DEF Create, Becomes, At
  <1>20. ASSUME NEW p \in Peer, Describe(p) PROVE evidence \subseteq evidence'
    BY <1>20 DEF Describe, At
  <1>21. ASSUME NEW p \in Peer, RequestFails(p) PROVE evidence \subseteq evidence'
    BY <1>21 DEF RequestFails, At
  <1>22. ASSUME NEW p \in Peer, Poll(p) PROVE evidence \subseteq evidence'
    BY <1>22 DEF Poll
  <1>23. ASSUME NEW p \in Peer, Delete(p) PROVE evidence \subseteq evidence'
    BY <1>23 DEF Delete, Becomes, At, Serves
  <1>24. ASSUME NEW p \in Peer, Deliver(p) PROVE evidence \subseteq evidence'
    BY <1>24 DEF Deliver
  <1>25. ASSUME NEW p \in Peer, Misbehave(p) PROVE evidence \subseteq evidence'
    BY <1>25 DEF Misbehave
  <1>26. CASE Exit
    BY <1>26 DEF Exit, Ended
  <1>27. CASE UNCHANGED vars
    BY <1>27 DEF vars, control, sessions, harness, transport, judgement, files
  <1>. QED
    BY <1>1, <1>2, <1>3, <1>4, <1>5, <1>6, <1>7, <1>8, <1>9, <1>10, <1>11,
       <1>12, <1>13, <1>14, <1>15, <1>16, <1>17, <1>18, <1>19, <1>20,
       <1>21, <1>22, <1>23, <1>24, <1>25, <1>26, <1>27
    DEF Next, Coroutine, Task

\* Every step but publishing leaves the result alone.
LEMMA ResultKept ==
  ASSUME [Next]_vars, ~Publish PROVE result' = result
  <1> USE DEF files
  <1>1. CASE Start
    BY <1>1 DEF Start, Goto, Raise
  <1>2. CASE Offer
    BY <1>2 DEF Offer, Goto
  <1>3. CASE Answered
    BY <1>3 DEF Answered, Goto, Raise, AllAt
  <1>4. CASE GatherFails
    BY <1>4 DEF GatherFails, Raise
  <1>5. CASE Accept
    BY <1>5 DEF Accept, Goto
  <1>6. CASE PeerFails
    BY <1>6 DEF PeerFails, Raise
  <1>7. CASE Open
    BY <1>7 DEF Open, Goto
  <1>8. CASE Send
    BY <1>8 DEF Send, Goto
  <1>9. CASE WaitFails
    BY <1>9 DEF WaitFails, Raise
  <1>10. CASE Settle
    BY <1>10 DEF Settle, Goto
  <1>11. CASE Collect
    BY <1>11 DEF Collect, Extras
  <1>12. CASE Compare
    BY <1>12 DEF Compare, Goto
  <1>13. CASE Deleted
    BY <1>13 DEF Deleted, Goto, AllAt
  <1>14. CASE Close
    BY <1>14 DEF Close, Goto, Ended
  <1>15. CASE Write
    BY <1>15 DEF Write, Goto
  <1>16. CASE Except
    BY <1>16 DEF Except, Goto
  <1>17. CASE Cleanup
    BY <1>17 DEF Cleanup, Goto
  <1>18. ASSUME NEW p \in Peer, Create(p) PROVE result' = result
    BY <1>18 DEF Create, Becomes, At
  <1>19. ASSUME NEW p \in Peer, Describe(p) PROVE result' = result
    BY <1>19 DEF Describe, At
  <1>20. ASSUME NEW p \in Peer, RequestFails(p) PROVE result' = result
    BY <1>20 DEF RequestFails, At
  <1>21. ASSUME NEW p \in Peer, Poll(p) PROVE result' = result
    BY <1>21 DEF Poll
  <1>22. ASSUME NEW p \in Peer, Delete(p) PROVE result' = result
    BY <1>22 DEF Delete, Becomes, At, Serves
  <1>23. ASSUME NEW p \in Peer, Deliver(p) PROVE result' = result
    BY <1>23 DEF Deliver
  <1>24. ASSUME NEW p \in Peer, Misbehave(p) PROVE result' = result
    BY <1>24 DEF Misbehave
  <1>25. CASE Exit
    BY <1>25 DEF Exit, Ended
  <1>26. CASE UNCHANGED vars
    BY <1>26 DEF vars, control, sessions, harness, transport, judgement, files
  <1>. QED
    BY <1>1, <1>2, <1>3, <1>4, <1>5, <1>6, <1>7, <1>8, <1>9, <1>10, <1>11,
       <1>12, <1>13, <1>14, <1>15, <1>16, <1>17, <1>18, <1>19, <1>20,
       <1>21, <1>22, <1>23, <1>24, <1>25, <1>26
    DEF Next, Coroutine, Task

\* Once it is written nothing moves that the contract is about.
LEMMA Finished ==
  ASSUME IInv, [Next]_vars, pc = "done"
  PROVE  UNCHANGED <<evidence, own, peersOpen, session, result>>
  <1> USE DEF IInv, Files, sessions, harness, files, Sessions, Serves
  <1>1. CASE Start
    BY <1>1 DEF Start, Goto, Raise
  <1>2. CASE Offer
    BY <1>2 DEF Offer, Goto
  <1>3. CASE Answered
    BY <1>3 DEF Answered, Goto, Raise, AllAt
  <1>4. CASE GatherFails
    BY <1>4 DEF GatherFails, Raise
  <1>5. CASE Accept
    BY <1>5 DEF Accept, Goto
  <1>6. CASE PeerFails
    BY <1>6 DEF PeerFails, Raise
  <1>7. CASE Open
    BY <1>7 DEF Open, Goto
  <1>8. CASE Send
    BY <1>8 DEF Send, Goto
  <1>9. CASE WaitFails
    BY <1>9 DEF WaitFails, Raise
  <1>10. CASE Settle
    BY <1>10 DEF Settle, Goto
  <1>11. CASE Collect
    BY <1>11 DEF Collect, Extras
  <1>12. CASE Compare
    BY <1>12 DEF Compare, Goto
  <1>13. CASE Deleted
    BY <1>13 DEF Deleted, Goto, AllAt
  <1>14. CASE Close
    BY <1>14 DEF Close, Goto, Ended
  <1>15. CASE Write
    BY <1>15 DEF Write, Goto
  <1>16. CASE Except
    BY <1>16 DEF Except, Goto
  <1>17. CASE Cleanup
    BY <1>17 DEF Cleanup, Goto
  <1>18. CASE Publish
    BY <1>18 DEF Publish, Goto
  <1>19. ASSUME NEW p \in Peer, Create(p) PROVE UNCHANGED <<evidence, own, peersOpen, session, result>>
    BY <1>19 DEF Create,  Becomes, At
  <1>20. ASSUME NEW p \in Peer, Describe(p) PROVE UNCHANGED <<evidence, own, peersOpen, session, result>>
    BY <1>20 DEF Describe, At
  <1>21. ASSUME NEW p \in Peer, RequestFails(p) PROVE UNCHANGED <<evidence, own, peersOpen, session, result>>
    BY <1>21 DEF RequestFails, At
  <1>22. ASSUME NEW p \in Peer, Poll(p) PROVE UNCHANGED <<evidence, own, peersOpen, session, result>>
    BY <1>22 DEF Poll
  <1>23. ASSUME NEW p \in Peer, Delete(p) PROVE UNCHANGED <<evidence, own, peersOpen, session, result>>
    BY <1>23 DEF Delete, Becomes, At, Serves
  <1>24. ASSUME NEW p \in Peer, Deliver(p) PROVE UNCHANGED <<evidence, own, peersOpen, session, result>>
    BY <1>24 DEF Deliver
  <1>25. ASSUME NEW p \in Peer, Misbehave(p) PROVE UNCHANGED <<evidence, own, peersOpen, session, result>>
    BY <1>25 DEF Misbehave
  <1>26. CASE Exit
    BY <1>26 DEF Exit, Ended
  <1>27. CASE UNCHANGED vars
    BY <1>27 DEF vars, control, sessions, harness, transport, judgement, files
  <1>. QED
    BY <1>1, <1>2, <1>3, <1>4, <1>5, <1>6, <1>7, <1>8, <1>9, <1>10, <1>11,
       <1>12, <1>13, <1>14, <1>15, <1>16, <1>17, <1>18, <1>19, <1>20,
       <1>21, <1>22, <1>23, <1>24, <1>25, <1>26, <1>27
    DEF Next, Coroutine, Task

\* Before the result is written, evidence is only collected.
LEMMA CollectStep ==
  ASSUME IInv, IInv', [Next]_vars, result = "none", result' = "none"
  PROVE  Contract!Collect
  <1>1. "result.json" \notin evidence'
    BY DEF IInv, Files, Types, Places
  <1>2. evidence' \in SUBSET (Identity \cup Manifests \cup {"baresip.log", "result.json"})
    BY DEF IInv, Types, Places
  <1>3. (own' # "none" \/ peersOpen' \/ \E p \in Peer : session'[p] = "open") \in BOOLEAN
    OBVIOUS
  <1>. QED
    BY <1>1, <1>2, <1>3, EvidenceGrows DEF Contract!Collect

\* Every step of the scenario is one of its contract, or none.
LEMMA ContractStep == IInv /\ IInv' /\ [Next]_vars => [Contract!Next]_(Contract!vars)
  <1> SUFFICES ASSUME IInv, IInv', [Next]_vars PROVE [Contract!Next]_(Contract!vars)
    OBVIOUS
  <1>1. CASE pc = "done"
    BY <1>1, Finished DEF Contract!vars
  <1>2. CASE pc # "done" /\ Publish
    <2>1. result = "none" /\ result' \in {"PASS", "FAIL", "INFRA_ERROR"}
      BY <1>2 DEF IInv, Types, Places, Files, Publish
    <2>2. ~(own # "none" \/ peersOpen \/ \E p \in Peer : session[p] = "open")
      BY <1>2 DEF IInv, Files, Sessions, Publish
    <2>3. UNCHANGED <<own, peersOpen, session>> /\ evidence' = evidence \cup {"result.json"}
      BY <1>2 DEF Publish, sessions, harness
    <2>. QED
      BY <2>1, <2>2, <2>3 DEF Contract!Next, Contract!Publish
  <1>3. CASE pc # "done" /\ ~Publish
    <2>1. result = "none" /\ result' = "none"
      BY <1>3, ResultKept DEF IInv, Files
    <2>. QED
      BY <2>1, CollectStep DEF Contract!Next
  <1>. QED
    BY <1>1, <1>2, <1>3

\* Parallel sessions implement the contract of the evidence directory
\* (docs/evidence-schema.md), although tasks outlive a failed gather.
THEOREM Refinement == Spec => ImplementsContract
  BY Correct, ContractInit, ContractStep, PTL DEF Spec, ImplementsContract, Contract!Spec

-----------------------------------------------------------------------------
(* Induction, over sets of numbers.                                        *)

\* Every set of numbers that is not empty has a least one.
LEMMA LeastNumber ==
    ASSUME NEW T \in SUBSET Nat, T # {}
    PROVE  \E x \in T : \A y \in T : ~(y < x)
  <1>1. IsWellFoundedOn(OpToRel(<, Nat), Nat)
    BY NatLessThanWellFounded
  <1>2. \E x \in T : \A y \in T : ~(<<y, x>> \in OpToRel(<, Nat))
    BY <1>1, WFMin
  <1>3. \A x, y \in Nat : <<y, x>> \in OpToRel(<, Nat) <=> y < x
    BY DEF OpToRel
  <1>. QED
    BY <1>2, <1>3

\* What holds of zero and of the next number holds up to any number.
LEMMA Induction ==
    ASSUME NEW n \in Nat, NEW T, 0 \in T,
           \A m \in 0..n : m < n /\ m \in T => m + 1 \in T
    PROVE  \A m \in 0..n : m \in T
  <1> DEFINE missing == (0..n) \ T
  <1> SUFFICES ASSUME missing # {} PROVE FALSE
    OBVIOUS
  <1>1. missing \in SUBSET Nat
    OBVIOUS
  <1>2. PICK x \in missing : \A y \in missing : ~(y < x)
    <2> HIDE DEF missing
    <2>. QED
      BY <1>1, LeastNumber
  <1>3. x - 1 \in 0..n /\ x - 1 < x /\ x - 1 < n
    OBVIOUS
  <1>4. x - 1 \in T
    BY <1>2, <1>3
  <1>. QED
    BY <1>3, <1>4

-----------------------------------------------------------------------------
(* Sequences.                                                              *)

\* An event that joins the queue joins whatever the queue is the end of.
LEMMA AppendedAtTheEnd ==
    ASSUME NEW S, NEW s \in Seq(S), NEW t \in Seq(S), NEW e \in S
    PROVE  s \o Append(t, e) = Append(s \o t, e)
  <1>1. <<e>> \in Seq(S) /\ Append(t, e) = t \o <<e>>
    BY AppendProperties, AppendIsConcat
  <1>2. s \o t \in Seq(S)
    BY ConcatProperties
  <1>3. Append(s \o t, e) = (s \o t) \o <<e>>
    BY <1>2, AppendIsConcat
  <1>4. (s \o t) \o <<e>> = s \o (t \o <<e>>)
    BY <1>1, ConcatAssociative
  <1>. QED
    BY <1>1, <1>3, <1>4

\* The elements of two sequences, one after the other.
LEMMA Concatenated ==
    ASSUME NEW S, NEW s \in Seq(S), NEW t \in Seq(S), NEW n \in Nat,
           n = Len(s) + Len(t)
    PROVE  /\ s \o t \in Seq(S)
           /\ Len(s \o t) = n
           /\ \A i \in 1..Len(s) : (s \o t)[i] = s[i]
           /\ \A i \in (Len(s) + 1)..n : (s \o t)[i] = t[i - Len(s)]
  <1>1. Len(s) \in Nat /\ Len(t) \in Nat
    BY LenProperties
  <1>2. /\ s \o t \in Seq(S) /\ Len(s \o t) = Len(s) + Len(t)
        /\ \A i \in 1..(Len(s) + Len(t)) :
              (s \o t)[i] = IF i <= Len(s) THEN s[i] ELSE t[i - Len(s)]
    BY ConcatProperties
  <1>3. \A i \in 1..Len(s) : i \in 1..(Len(s) + Len(t)) /\ i <= Len(s)
    BY <1>1
  <1>4. \A i \in (Len(s) + 1)..n : i \in 1..(Len(s) + Len(t)) /\ ~(i <= Len(s))
    BY <1>1
  <1>. QED
    BY <1>2, <1>3, <1>4

\* The head of what follows may as well end what is before.
LEMMA HeadMoved ==
    ASSUME NEW S, NEW s \in Seq(S), NEW t \in Seq(S), t # <<>>
    PROVE  Append(s, Head(t)) \o Tail(t) = s \o t
  <1> DEFINE h == Head(t)
             r == Tail(t)
             m == <<h>>
  <1>1. h \in S /\ r \in Seq(S) /\ m \in Seq(S)
    BY HeadTailProperties
  <1>2. t = m \o r
    <2>1. /\ Len(t) \in Nat /\ Len(r) = Len(t) - 1
          /\ \A i \in 1..Len(r) : r[i] = t[i + 1]
      BY LenProperties, HeadTailProperties
    <2>2. Len(m) = 1 /\ m[1] = t[1]
      OBVIOUS
    <2> HIDE DEF m, r
    <2>3. Len(t) = Len(m) + Len(r)
      BY <2>1, <2>2
    <2>4. /\ m \o r \in Seq(S) /\ Len(m \o r) = Len(t)
          /\ \A i \in 1..Len(m) : (m \o r)[i] = m[i]
          /\ \A i \in (Len(m) + 1)..Len(t) : (m \o r)[i] = r[i - Len(m)]
      BY <1>1, <2>1, <2>3, Concatenated
    <2>5. ASSUME NEW i \in 1..Len(t) PROVE (m \o r)[i] = t[i]
      <3>1. CASE i = 1
        BY <2>2, <2>4, <3>1
      <3>2. CASE i # 1
        <4>1. /\ i \in (Len(m) + 1)..Len(t) /\ i - Len(m) \in 1..Len(r)
              /\ (i - Len(m)) + 1 = i
          BY <2>1, <2>2, <3>2
        <4>. QED
          BY <2>1, <2>4, <4>1
      <3>. QED
        BY <3>1, <3>2
    <2>. QED
      BY <2>4, <2>5, SeqEqual
  <1>3. Append(s, h) = s \o m
    BY <1>1, AppendIsConcat
  <1> HIDE DEF h, r, m
  <1>4. (s \o m) \o r = s \o (m \o r)
    BY <1>1, ConcatAssociative
  <1>. QED
    BY <1>2, <1>3, <1>4 DEF h, r

-----------------------------------------------------------------------------
(* The messages of a peer's own channel.                                   *)

\* What may reach a peer: a message of some peer, on its own channel or not.
Echoes ==
    {e \in [mine : BOOLEAN, payload : {Payload(p, n) : p \in Peer, n \in 1..Messages},
            from : Peer, number : 1..Messages] :
        e.payload = Payload(e.from, e.number)}

OwnEchoes == {e \in Echoes : e.mine}

\* The recursion of Mine up to the m-th event of a log.
Selection(log, m, mine) ==
    mine = [n \in 0..m |->
        IF n = 0 THEN <<>>
        ELSE IF log[n].mine THEN Append(mine[n - 1], log[n])
        ELSE mine[n - 1]]

\* The recursion has a solution.
LEMMA SelectionSolved ==
    ASSUME NEW log, NEW k \in Nat
    PROVE  \E mine : Selection(log, k, mine)
  <1> DEFINE T == {m \in 0..k : \E mine : Selection(log, m, mine)}
  <1>1. 0 \in T
    <2>1. Selection(log, 0, [n \in 0..0 |-> <<>>])
      BY DEF Selection
    <2>2. 0 \in 0..k
      OBVIOUS
    <2>. QED
      BY <2>1, <2>2
  <1>2. ASSUME NEW m \in 0..k, m < k, m \in T PROVE m + 1 \in T
    <2>1. PICK f : Selection(log, m, f)
      BY <1>2
    <2> DEFINE step(n, h) == IF n = 0 THEN <<>>
                   ELSE IF log[n].mine THEN Append(h[n - 1], log[n])
                   ELSE h[n - 1]
               g == [n \in 0..(m + 1) |-> IF n <= m THEN f[n] ELSE step(n, f)]
    <2>2. \A n \in 0..m : f[n] = step(n, f)
      BY <2>1 DEF Selection
    <2>3. \A n \in 0..m : g[n] = f[n]
      OBVIOUS
    <2>4. g[m + 1] = step(m + 1, f)
      OBVIOUS
    <2>5. \A n \in 0..(m + 1) : step(n, g) = step(n, f)
      <3> SUFFICES ASSUME NEW n \in 0..(m + 1), n # 0 PROVE g[n - 1] = f[n - 1]
        OBVIOUS
      <3>. QED
        BY <2>3
    <2>6. \A n \in 0..(m + 1) : g[n] = step(n, g)
      <3> SUFFICES ASSUME NEW n \in 0..(m + 1) PROVE g[n] = step(n, f)
        BY <2>5
      <3>1. CASE n <= m
        BY <2>2, <2>3, <3>1
      <3>2. CASE n = m + 1
        BY <2>4, <3>2
      <3>. QED
        BY <3>1, <3>2
    <2>7. g = [n \in 0..(m + 1) |-> step(n, g)]
      <3>1. g = [n \in 0..(m + 1) |-> g[n]]
        OBVIOUS
      <3> HIDE DEF g, step
      <3>. QED
        BY <2>6, <3>1
    <2>8. Selection(log, m + 1, g)
      BY <2>7 DEF Selection
    <2>9. m + 1 \in 0..k
      BY <1>2
    <2>. QED
      BY <2>8, <2>9
  <1>3. k \in T
    <2> HIDE DEF T
    <2>1. \A m \in 0..k : m \in T
      BY <1>1, <1>2, Induction
    <2>. QED
      BY <2>1
  <1>. QED
    BY <1>3

\* A selection is of events of the own channel, and no longer than the log; a
\* log of nothing else is selected as it is.
LEMMA MineSelects ==
    ASSUME NEW log \in Seq(Echoes)
    PROVE  /\ Mine(log) \in Seq(OwnEchoes)
           /\ Len(Mine(log)) <= Len(log)
           /\ (\A i \in 1..Len(log) : log[i].mine) => Mine(log) = log
  <1> DEFINE f == CHOOSE f : Selection(log, Len(log), f)
             k == Len(log)
             only == \A i \in 1..Len(log) : log[i].mine
  <1>1. k \in Nat /\ \A i \in 1..k : log[i] \in Echoes
    BY LenProperties, ElementOfSeq
  <1>2. Selection(log, k, f)
    BY <1>1, SelectionSolved
  <1>3. Mine(log) = f[k]
    BY DEF Mine, Selection
  <1> HIDE DEF f
  <1>4. \A n \in 0..k : f[n] = IF n = 0 THEN <<>>
                 ELSE IF log[n].mine THEN Append(f[n - 1], log[n])
                 ELSE f[n - 1]
    BY <1>2 DEF Selection
  <1> DEFINE T == {m \in 0..k :
                     /\ f[m] \in Seq(OwnEchoes)
                     /\ Len(f[m]) <= m
                     /\ only => /\ Len(f[m]) = m
                                /\ \A i \in 1..m : f[m][i] = log[i]}
  <1>5. 0 \in T
    <2>1. f[0] = <<>> /\ 0 \in 0..k
      BY <1>1, <1>4
    <2>2. <<>> \in Seq(OwnEchoes) /\ Len(<<>>) = 0
      BY EmptySeq
    <2>3. /\ f[0] \in Seq(OwnEchoes)
          /\ Len(f[0]) <= 0
          /\ Len(f[0]) = 0 /\ \A i \in 1..0 : f[0][i] = log[i]
      BY <2>1, <2>2
    <2>. QED
      BY <2>1, <2>3
  <1>6. ASSUME NEW m \in 0..k, m < k, m \in T PROVE m + 1 \in T
    <2> DEFINE s == f[m]
               j == m + 1
               e == log[j]
    <2>1. j \in 0..k /\ j \in 1..k /\ j - 1 = m /\ j # 0 /\ m \in Nat /\ j = m + 1
      BY <1>1, <1>6
    <2>2. f[j] = IF e.mine THEN Append(s, e) ELSE s
      BY <1>4, <2>1
    <2>3. /\ s \in Seq(OwnEchoes) /\ Len(s) <= m
          /\ only => Len(s) = m /\ \A i \in 1..m : s[i] = log[i]
      BY <1>6
    <2>4. e \in Echoes /\ (only => e.mine)
      BY <1>1, <2>1
    <2>5. Len(s) \in Nat
      BY <2>3, LenProperties
    <2> HIDE DEF s, j, e
    <2>6. CASE e.mine
      <3>1. e \in OwnEchoes
        BY <2>4, <2>6 DEF OwnEchoes
      <3>2. /\ Append(s, e) \in Seq(OwnEchoes)
            /\ Len(Append(s, e)) = Len(s) + 1
            /\ \A i \in 1..Len(s) : Append(s, e)[i] = s[i]
            /\ Append(s, e)[Len(s) + 1] = e
        BY <2>3, <3>1, AppendProperties
      <3>3. f[j] \in Seq(OwnEchoes) /\ Len(f[j]) <= j
        BY <2>1, <2>2, <2>3, <2>5, <2>6, <3>2
      <3>4. ASSUME only PROVE Len(f[j]) = j /\ \A i \in 1..j : f[j][i] = log[i]
        <4>1. \A i \in 1..j : i \in 1..m \/ i = j
          BY <2>1
        <4>2. f[j][j] = log[j]
          BY <2>1, <2>2, <2>3, <2>6, <3>2, <3>4 DEF e
        <4>3. \A i \in 1..m : f[j][i] = log[i]
          BY <2>2, <2>3, <2>6, <3>2, <3>4
        <4>4. Len(f[j]) = j
          BY <2>1, <2>2, <2>3, <2>6, <3>2, <3>4
        <4>. QED
          BY <4>1, <4>2, <4>3, <4>4
      <3>. QED
        BY <2>1, <3>3, <3>4
    <2>7. CASE ~e.mine
      <3>1. f[j] = s /\ ~only
        BY <2>2, <2>4, <2>7
      <3>2. Len(f[j]) <= j
        BY <2>1, <2>3, <2>5, <3>1
      <3>. QED
        BY <2>1, <2>3, <3>1, <3>2
    <2>. QED
      BY <2>6, <2>7
  <1>7. k \in T
    <2> HIDE DEF T, k
    <2>1. \A m \in 0..k : m \in T
      BY <1>1, <1>5, <1>6, Induction
    <2>. QED
      BY <1>1, <2>1
  <1>8. /\ f[k] \in Seq(OwnEchoes) /\ Len(f[k]) <= k
        /\ only => Len(f[k]) = k /\ \A i \in 1..k : f[k][i] = log[i]
    BY <1>7
  <1>9. ASSUME only PROVE f[k] = log
    <2>1. \A e \in OwnEchoes : e \in Echoes
      BY DEF OwnEchoes
    <2>. QED
      BY <1>8, <1>9, SeqEqual
  <1>. QED
    BY <1>3, <1>8, <1>9

\* Who got the payloads it sent, in order, got its own messages: a payload
\* tells where it comes from.
LEMMA SameMessages ==
    ASSUME NEW p \in Peer, NEW s \in Seq(OwnEchoes), Payloads(s) = Payloads(Sent(p))
    PROVE  s = Sent(p)
  <1>1. Messages \in Nat
    BY ParallelAssumption
  <1>2. Len(s) \in Nat /\ \A i \in 1..Len(s) : s[i] \in OwnEchoes
    BY LenProperties, ElementOfSeq
  <1>3. Len(Sent(p)) = Messages /\ \A i \in 1..Messages : Sent(p)[i] = Message(p, i)
    BY <1>1 DEF Sent
  <1>4. DOMAIN Payloads(s) = 1..Len(s) /\ DOMAIN Payloads(Sent(p)) = 1..Messages
    BY <1>3 DEF Payloads
  <1>5. Len(s) = Messages
    <2>1. 1..Len(s) = 1..Messages
      BY <1>4
    <2>. QED
      BY <1>1, <1>2, <2>1
  <1>6. ASSUME NEW i \in 1..Messages PROVE s[i] = Message(p, i)
    <2>1. s[i].payload = Payload(p, i)
      <3>1. Payloads(s)[i] = s[i].payload
        BY <1>5 DEF Payloads
      <3>2. Payloads(Sent(p))[i] = Message(p, i).payload
        BY <1>3 DEF Payloads
      <3>. QED
        BY <3>1, <3>2 DEF Message
    <2>2. /\ s[i] \in [mine : BOOLEAN,
                       payload : {Payload(q, n) : q \in Peer, n \in 1..Messages},
                       from : Peer, number : 1..Messages]
          /\ s[i].mine /\ s[i].payload = Payload(s[i].from, s[i].number)
      BY <1>2, <1>5 DEF OwnEchoes, Echoes
    <2>3. s[i].from = p /\ s[i].number = i
      BY <2>1, <2>2 DEF Payload
    <2>4. s[i].mine = TRUE
      BY <2>2
    <2> DEFINE e == s[i]
               P == {Payload(q, n) : q \in Peer, n \in 1..Messages}
    <2>5. /\ e \in [mine : BOOLEAN, payload : P, from : Peer, number : 1..Messages]
          /\ e.mine = TRUE /\ e.payload = Payload(p, i)
          /\ e.from = p /\ e.number = i
      BY <2>1, <2>2, <2>3, <2>4
    <2> HIDE DEF e, P
    <2>6. e = [mine |-> e.mine, payload |-> e.payload, from |-> e.from,
               number |-> e.number]
      BY <2>5
    <2>7. e = Message(p, i)
      BY <2>5, <2>6 DEF Message
    <2>. QED
      BY <2>7 DEF e
  <1>7. s = [i \in 1..Messages |-> s[i]]
    BY <1>2, <1>5
  <1>. QED
    BY <1>6, <1>7 DEF Sent

LEMMA SentType ==
    ASSUME NEW p \in Peer
    PROVE  /\ Sent(p) \in Seq(Echoes) /\ Len(Sent(p)) = Messages
           /\ \A i \in 1..Messages : Sent(p)[i].mine
  <1>1. Messages \in Nat
    BY ParallelAssumption
  <1>2. \A n \in 1..Messages : Message(p, n) \in Echoes /\ Message(p, n).mine
    BY DEF Message, Echoes
  <1>3. Sent(p) \in Seq(Echoes) /\ Len(Sent(p)) = Messages
    <2> DEFINE m(n) == Message(p, n)
    <2>1. \A n \in 1..Messages : m(n) \in Echoes
      BY <1>2
    <2> HIDE DEF m
    <2>2. [n \in 1..Messages |-> m(n)] \in Seq(Echoes)
          /\ Len([n \in 1..Messages |-> m(n)]) = Messages
      BY <1>1, <2>1, IsASeq
    <2>. QED
      BY <2>2 DEF Sent, m
  <1>. QED
    BY <1>2, <1>3 DEF Sent

-----------------------------------------------------------------------------
(* Why a verdict is right.                                                 *)

Logs ==
    /\ wire \in [Peer -> Seq(Echoes)]
    /\ queue \in [Peer -> Seq(Echoes)]
    /\ seen \in [Peer -> Seq(Echoes)]
    /\ arrived \in [Peer -> Seq(Echoes)]

Early == {"start", "offer", "negotiate", "accept", "open", "send"}
Late == {"delete", "close", "write"}

\* Nothing arrives before it was sent; the harness collects from every peer,
\* and only when each has enough.
Stages ==
    /\ pc \in Early \cup {"wait"} => next = 1
    /\ pc \in Early =>
          /\ \A p \in Peer : arrived[p] = <<>> /\ wire[p] = <<>>
          /\ failures = {}
    /\ pc \in Late => next = Count + 1
    /\ pc = "collect" => \A p \in Peer : Enough(p)

\* What has arrived is in the hands of a wait or in the queue, until all that
\* is in the queue is too much.
Drained ==
    \A p \in Peer :
        /\ p >= next => seen[p] \o queue[p] = arrived[p]
        /\ p < next => "extra" \in failures \/ seen[p] = arrived[p]

\* A PASS is about what has arrived.
Checked ==
    /\ pc \in Late =>
          \/ "transcript" \in failures
          \/ \A p \in Peer : Mine(seen[p]) = Sent(p)
    /\ outcome = "PASS" =>
          \A p \in Peer : Mine(seen[p]) = Sent(p) /\ seen[p] = arrived[p]

\* A baresip without fault sends back what it got.
Faultless ==
    faults = 0 =>
        /\ failures \cap {"extra", "transcript"} = {}
        /\ pc \in {"wait", "collect"} =>
              \A p \in Peer : arrived[p] \o wire[p] = Sent(p)

OInv == IInv /\ Logs /\ Stages /\ Drained /\ Checked /\ Faultless

\* A step that is not about messages.
Quiet ==
    /\ UNCHANGED <<wire, queue, seen, arrived, faults, next, failures>>
    /\ pc' \in Early => pc \in Early
    /\ pc' \in Late => pc \in Late
    /\ pc' = "wait" => pc = "wait"
    /\ pc' = "collect" => pc = "collect"
    /\ outcome' = "PASS" => outcome = "PASS"

LEMMA QuietOrNot ==
  ASSUME [Next]_vars
  PROVE  \/ Quiet
         \/ Send \/ Settle \/ Collect \/ Compare \/ Write
         \/ \E p \in Peer : Poll(p) \/ Deliver(p) \/ Misbehave(p)
  <1> USE DEF Quiet, Early, Late, harness, transport, judgement, control
  <1>1. CASE Start
    BY <1>1 DEF Start, Goto, Raise
  <1>2. CASE Offer
    BY <1>2 DEF Offer, Goto
  <1>3. CASE Answered
    BY <1>3 DEF Answered, Goto, Raise
  <1>4. CASE GatherFails
    BY <1>4 DEF GatherFails, Raise
  <1>5. CASE Accept
    BY <1>5 DEF Accept, Goto
  <1>6. CASE PeerFails
    BY <1>6 DEF PeerFails, Raise
  <1>7. CASE Open
    BY <1>7 DEF Open, Goto
  <1>8. CASE WaitFails
    BY <1>8 DEF WaitFails, Raise
  <1>9. CASE Deleted
    BY <1>9 DEF Deleted, Goto
  <1>10. CASE Close
    BY <1>10 DEF Close, Goto
  <1>11. CASE Except
    BY <1>11 DEF Except, Goto
  <1>12. CASE Cleanup
    BY <1>12 DEF Cleanup, Goto
  <1>13. CASE Publish
    BY <1>13 DEF Publish, Goto
  <1>14. ASSUME NEW p \in Peer, Create(p) \/ Describe(p) \/ RequestFails(p) \/ Delete(p)
         PROVE  Quiet
    BY <1>14 DEF Create, Describe, RequestFails, Delete
  <1>15. CASE Exit
    BY <1>15 DEF Exit
  <1>16. CASE UNCHANGED vars
    BY <1>16 DEF vars
  <1>. QED
    BY <1>1, <1>2, <1>3, <1>4, <1>5, <1>6, <1>7, <1>8, <1>9, <1>10, <1>11,
       <1>12, <1>13, <1>14, <1>15, <1>16
    DEF Next, Coroutine, Task

LEMMA InitiallyOwn == Init => OInv
  <1> SUFFICES ASSUME Init PROVE OInv
    OBVIOUS
  <1>1. /\ wire = [p \in Peer |-> <<>>] /\ queue = [p \in Peer |-> <<>>]
        /\ seen = [p \in Peer |-> <<>>] /\ arrived = [p \in Peer |-> <<>>]
        /\ pc = "start" /\ next = 1 /\ failures = {} /\ outcome = "INFRA_ERROR"
    BY DEF Init
  <1>2. <<>> \in Seq(Echoes) /\ <<>> \o <<>> = <<>>
    BY EmptySeq, ConcatEmptySeq
  <1>3. Logs
    BY <1>1, <1>2 DEF Logs
  <1>4. Stages
    BY <1>1 DEF Stages, Early, Late
  <1>5. Drained
    <2>1. \A p \in Peer : ~(p < 1)
      BY ParallelAssumption DEF Peer
    <2>. QED
      BY <1>1, <1>2, <2>1 DEF Drained
  <1>6. Checked /\ Faultless
    BY <1>1 DEF Checked, Faultless, Late
  <1>. QED
    BY <1>3, <1>4, <1>5, <1>6, Initially DEF OInv

Messaging == Logs /\ Stages /\ Drained /\ Checked /\ Faultless

LEMMA QuietOwn == OInv /\ Quiet => Messaging'
  <1> SUFFICES ASSUME OInv, Quiet PROVE Messaging'
    OBVIOUS
  <1> USE DEF OInv, Quiet
  <1>1. Logs'
    BY DEF Logs
  <1>2. Stages'
    BY DEF Stages, Enough, Early, Late
  <1>3. Drained'
    BY DEF Drained
  <1>4. Checked'
    BY DEF Checked
  <1>5. Faultless'
    BY DEF Faultless
  <1>. QED
    BY <1>1, <1>2, <1>3, <1>4, <1>5 DEF Messaging

LEMMA SendOwn == OInv /\ Send => Messaging'
  <1> SUFFICES ASSUME OInv, Send PROVE Messaging'
    OBVIOUS
  <1>1. /\ pc = "send" /\ pc' = "wait" /\ wire' = [p \in Peer |-> Sent(p)]
        /\ UNCHANGED <<queue, seen, arrived, faults, next, failures, outcome>>
    BY DEF Send, Goto, harness, judgement
  <1>2. Logs /\ Stages /\ Drained /\ Checked /\ Faultless
    BY DEF OInv
  <1>3. \A p \in Peer : Sent(p) \in Seq(Echoes) /\ <<>> \o Sent(p) = Sent(p)
    BY SentType, ConcatEmptySeq
  <1>4. pc \in Early /\ next = 1 /\ \A p \in Peer : arrived[p] = <<>>
    BY <1>1, <1>2 DEF Early, Stages
  <1>5. Logs'
    BY <1>1, <1>2, <1>3 DEF Logs
  <1>6. Stages'
    BY <1>1, <1>2, <1>4 DEF Stages, Early, Late
  <1>7. Drained'
    BY <1>1, <1>2 DEF Drained
  <1>8. Checked'
    BY <1>1, <1>2 DEF Checked, Late
  <1>9. Faultless'
    BY <1>1, <1>2, <1>3, <1>4 DEF Faultless
  <1>. QED
    BY <1>5, <1>6, <1>7, <1>8, <1>9 DEF Messaging

LEMMA PollOwn == ASSUME OInv, NEW p \in Peer, Poll(p) PROVE Messaging'
  <1>1. /\ pc = "wait"
        /\ seen' = [seen EXCEPT ![p] = @ \o queue[p]]
        /\ queue' = [queue EXCEPT ![p] = <<>>]
        /\ UNCHANGED <<pc, wire, arrived, faults, next, failures, outcome>>
    BY DEF Poll, control, harness, judgement
  <1>2. Logs /\ Stages /\ Drained /\ Checked /\ Faultless
    BY DEF OInv
  <1>3. /\ seen[p] \in Seq(Echoes) /\ queue[p] \in Seq(Echoes)
        /\ <<>> \in Seq(Echoes)
        /\ seen[p] \o queue[p] \in Seq(Echoes)
        /\ (seen[p] \o queue[p]) \o <<>> = seen[p] \o queue[p]
    <2>1. seen[p] \in Seq(Echoes) /\ queue[p] \in Seq(Echoes) /\ <<>> \in Seq(Echoes)
      BY <1>2, EmptySeq DEF Logs
    <2>2. seen[p] \o queue[p] \in Seq(Echoes)
      BY <2>1, ConcatProperties
    <2>. QED
      BY <2>1, <2>2, ConcatEmptySeq
  <1>4. next = 1 /\ \A q \in Peer : q >= next /\ ~(q < next)
    BY <1>1, <1>2, ParallelAssumption DEF Stages, Peer
  <1>5. Logs'
    BY <1>1, <1>2, <1>3 DEF Logs
  <1>6. Stages'
    BY <1>1, <1>2 DEF Stages, Early, Late
  <1>7. Drained'
    <2> SUFFICES ASSUME NEW q \in Peer PROVE seen'[q] \o queue'[q] = arrived[q]
      BY <1>1, <1>4 DEF Drained
    <2>1. seen[q] \o queue[q] = arrived[q]
      BY <1>2, <1>4 DEF Drained
    <2>2. CASE q = p
      BY <1>1, <1>2, <1>3, <2>1, <2>2 DEF Logs
    <2>3. CASE q # p
      BY <1>1, <1>2, <2>1, <2>3 DEF Logs
    <2>. QED
      BY <2>2, <2>3
  <1>8. Checked'
    <2>1. outcome # "PASS"
      BY <1>1 DEF OInv, IInv, Sessions
    <2>. QED
      BY <1>1, <2>1 DEF Checked, Late
  <1>9. Faultless'
    BY <1>1, <1>2 DEF Faultless
  <1>. QED
    BY <1>5, <1>6, <1>7, <1>8, <1>9 DEF Messaging

LEMMA SettleOwn == OInv /\ Settle => Messaging'
  <1> SUFFICES ASSUME OInv, Settle PROVE Messaging'
    OBVIOUS
  <1>1. /\ pc = "wait" /\ pc' = "collect" /\ \A p \in Peer : Enough(p)
        /\ UNCHANGED <<wire, queue, seen, arrived, faults, next, failures, outcome>>
    BY DEF Settle, Goto, harness, transport, judgement
  <1>2. Logs /\ Stages /\ Drained /\ Checked /\ Faultless
    BY DEF OInv
  <1>3. Logs' /\ Drained'
    BY <1>1, <1>2 DEF Logs, Drained
  <1>4. Stages'
    BY <1>1, <1>2 DEF Stages, Early, Late, Enough
  <1>5. Checked' /\ Faultless'
    BY <1>1, <1>2 DEF Checked, Late, Faultless
  <1>. QED
    BY <1>3, <1>4, <1>5 DEF Messaging

\* Of what was sent to a peer nothing is missing behind enough of it.
LEMMA NothingMissing ==
    ASSUME NEW p \in Peer, NEW s \in Seq(Echoes), NEW r \in Seq(Echoes),
           s \o r = Sent(p), Len(Mine(s)) >= Messages
    PROVE  r = <<>> /\ Mine(s) = Sent(p)
  <1>1. Messages \in Nat /\ Len(Sent(p)) = Messages
        /\ \A i \in 1..Messages : Sent(p)[i].mine
    BY SentType, ParallelAssumption
  <1>2. Len(s) \in Nat /\ Len(r) \in Nat /\ Len(s) + Len(r) = Messages
    <2>1. Len(s \o r) = Len(s) + Len(r)
      BY ConcatProperties
    <2>. QED
      BY <1>1, <2>1, LenProperties
  <1>3. Len(Mine(s)) \in Nat /\ Len(Mine(s)) <= Len(s)
    BY MineSelects, LenProperties
  <1>4. Len(r) = 0
    BY <1>1, <1>2, <1>3
  <1>5. r = <<>>
    BY <1>4, EmptySeq
  <1>6. s = Sent(p)
    <2>1. s \o <<>> = s
      BY ConcatEmptySeq
    <2>. QED
      BY <1>5, <2>1
  <1>7. Mine(s) = s
    BY <1>1, <1>6, MineSelects
  <1>. QED
    BY <1>5, <1>6, <1>7

LEMMA CollectOwn == OInv /\ Collect => Messaging'
  <1> SUFFICES ASSUME OInv, Collect PROVE Messaging'
    OBVIOUS
  <1>1. /\ pc = "collect" /\ next <= Count /\ next' = next + 1
        /\ queue' = [queue EXCEPT ![next] = <<>>]
        /\ UNCHANGED <<pc, wire, seen, arrived, faults, outcome>>
    BY DEF Collect, control
  <1>2. PICK F \in SUBSET {"dtls", "sctp"} :
            failures' = failures \cup F \cup Extras(queue[next])
    BY DEF Collect
  <1>3. Logs /\ Stages /\ Drained /\ Checked /\ Faultless
    BY DEF OInv
  <1>4. next \in Peer /\ Count \in Nat /\ Peer = 1..Count
    BY <1>1, ParallelAssumption DEF OInv, IInv, Types, Places, Peer
  <1>5. /\ seen[next] \in Seq(Echoes) /\ queue[next] \in Seq(Echoes)
        /\ wire[next] \in Seq(Echoes) /\ <<>> \in Seq(Echoes)
    BY <1>3, <1>4, EmptySeq DEF Logs
  <1>6. seen[next] \o queue[next] = arrived[next]
    <2>1. next >= next
      BY <1>4
    <2>. QED
      BY <1>3, <1>4, <2>1 DEF Drained
  <1>7. Logs'
    BY <1>1, <1>3, <1>5 DEF Logs
  <1>8. Stages'
    BY <1>1, <1>3 DEF Stages, Early, Late, Enough
  <1>9. Drained'
    <2>1. ASSUME NEW q \in Peer, q >= next'
          PROVE  seen[q] \o queue'[q] = arrived[q]
      <3>1. q # next /\ q >= next
        BY <1>1, <1>4, <2>1
      <3>2. queue'[q] = queue[q]
        BY <1>1, <1>3, <3>1 DEF Logs
      <3>. QED
        BY <1>3, <3>1, <3>2 DEF Drained
    <2>2. ASSUME NEW q \in Peer, q < next'
          PROVE  "extra" \in failures' \/ seen[q] = arrived[q]
      <3>1. CASE q < next
        BY <1>2, <1>3, <3>1 DEF Drained
      <3>2. CASE q = next /\ queue[next] # <<>>
        BY <1>2, <3>2 DEF Extras
      <3>3. CASE q = next /\ queue[next] = <<>>
        BY <1>5, <1>6, <3>3, ConcatEmptySeq
      <3>4. q < next \/ q = next
        BY <1>1, <1>4, <2>2
      <3>. QED
        BY <3>1, <3>2, <3>3, <3>4
    <2>. QED
      BY <1>1, <2>1, <2>2 DEF Drained
  <1>10. Checked'
    <2>1. outcome # "PASS"
      BY <1>1 DEF OInv, IInv, Sessions
    <2>. QED
      BY <1>1, <2>1 DEF Checked, Late
  <1>11. Faultless'
    <2> SUFFICES ASSUME faults = 0
                 PROVE  /\ failures' \cap {"extra", "transcript"} = {}
                        /\ \A p \in Peer : arrived[p] \o wire[p] = Sent(p)
      BY <1>1 DEF Faultless
    <2>1. /\ failures \cap {"extra", "transcript"} = {}
          /\ \A p \in Peer : arrived[p] \o wire[p] = Sent(p)
      BY <1>1, <1>3 DEF Faultless
    <2> DEFINE s == seen[next]
               t == queue[next]
               w == wire[next]
    <2>2. s \in Seq(Echoes) /\ t \in Seq(Echoes) /\ w \in Seq(Echoes)
      BY <1>5
    <2>3. (s \o t) \o w = Sent(next)
      BY <1>4, <1>6, <2>1
    <2>4. Len(Mine(s)) >= Messages
      BY <1>1, <1>3, <1>4 DEF Stages, Enough
    <2> HIDE DEF s, t, w
    <2>5. s \o (t \o w) = Sent(next) /\ t \o w \in Seq(Echoes)
      <3>1. (s \o t) \o w = s \o (t \o w)
        BY <2>2, ConcatAssociative
      <3>2. t \o w \in Seq(Echoes)
        BY <2>2, ConcatProperties
      <3>. QED
        BY <2>3, <3>1, <3>2
    <2>6. t \o w = <<>>
      BY <1>4, <2>2, <2>4, <2>5, NothingMissing
    <2>7. t = <<>>
      <3>1. Len(t \o w) = Len(t) + Len(w) /\ Len(<<>>) = 0
        BY <2>2, ConcatProperties, EmptySeq
      <3>2. Len(t) \in Nat /\ Len(w) \in Nat
        BY <2>2, LenProperties
      <3>3. Len(t) = 0
        BY <2>6, <3>1, <3>2
      <3>. QED
        BY <2>2, <3>3, EmptySeq
    <2>8. Extras(queue[next]) = {}
      BY <2>7 DEF Extras, t
    <2>. QED
      BY <1>2, <2>1, <2>8
  <1>. QED
    BY <1>7, <1>8, <1>9, <1>10, <1>11 DEF Messaging

LEMMA CompareOwn == OInv /\ Compare => Messaging'
  <1> SUFFICES ASSUME OInv, Compare PROVE Messaging'
    OBVIOUS
  <1> DEFINE differs == \E p \in Peer : Payloads(Mine(seen[p])) # Payloads(Sent(p))
  <1>1. /\ pc = "collect" /\ next > Count /\ pc' = "delete"
        /\ failures' = failures \cup IF differs THEN {"transcript"} ELSE {}
        /\ UNCHANGED <<wire, queue, seen, arrived, faults, next, outcome>>
    BY DEF Compare, Goto, harness, transport
  <1>2. Logs /\ Stages /\ Drained /\ Checked /\ Faultless
    BY DEF OInv
  <1>3. next = Count + 1 /\ \A p \in Peer : p < next
    <2>1. next \in 1..(Count + 1) /\ Count \in Nat /\ Peer = 1..Count
      BY ParallelAssumption DEF OInv, IInv, Types, Places, Peer
    <2>. QED
      BY <1>1, <2>1
  <1>4. outcome # "PASS"
    BY <1>1 DEF OInv, IInv, Sessions
  <1>5. Logs' /\ Stages'
    BY <1>1, <1>2, <1>3 DEF Logs, Stages, Early, Late
  <1>6. Drained'
    BY <1>1, <1>2 DEF Drained
  <1>7. Checked'
    <2>1. ASSUME ~differs, NEW p \in Peer PROVE Mine(seen[p]) = Sent(p)
      <3>1. Mine(seen[p]) \in Seq(OwnEchoes)
        BY <1>2, MineSelects DEF Logs
      <3>2. Payloads(Mine(seen[p])) = Payloads(Sent(p))
        BY <2>1
      <3>. QED
        BY <3>1, <3>2, SameMessages
    <2>2. "transcript" \in failures' \/ \A p \in Peer : Mine(seen[p]) = Sent(p)
      BY <1>1, <2>1
    <2>. QED
      BY <1>1, <1>4, <2>2 DEF Checked
  <1>8. Faultless'
    <2> SUFFICES ASSUME faults = 0
                 PROVE  failures' \cap {"extra", "transcript"} = {}
      BY <1>1 DEF Faultless
    <2>1. /\ failures \cap {"extra", "transcript"} = {}
          /\ \A p \in Peer : arrived[p] \o wire[p] = Sent(p)
      BY <1>1, <1>2 DEF Faultless
    <2>2. ASSUME NEW p \in Peer PROVE Mine(seen[p]) = Sent(p)
      <3>1. seen[p] \in Seq(Echoes) /\ wire[p] \in Seq(Echoes)
        BY <1>2 DEF Logs
      <3>2. seen[p] = arrived[p]
        BY <1>2, <1>3, <2>1 DEF Drained
      <3>3. seen[p] \o wire[p] = Sent(p)
        BY <2>1, <3>2
      <3>4. Len(Mine(seen[p])) >= Messages
        BY <1>1, <1>2 DEF Stages, Enough
      <3>. QED
        BY <3>1, <3>3, <3>4, NothingMissing
    <2>3. ~differs
      BY <2>2
    <2>. QED
      BY <1>1, <2>1, <2>3
  <1>. QED
    BY <1>5, <1>6, <1>7, <1>8 DEF Messaging

LEMMA WriteOwn == OInv /\ Write => Messaging'
  <1> SUFFICES ASSUME OInv, Write PROVE Messaging'
    OBVIOUS
  <1>1. /\ pc = "write" /\ pc' = "cleanup"
        /\ UNCHANGED <<wire, queue, seen, arrived, faults, next>>
    BY DEF Write, Goto, harness, transport
  <1>2. PICK F \in SUBSET {"log"} :
          /\ failures' = failures \cup F
          /\ outcome' = IF failures' = {} THEN "PASS" ELSE "FAIL"
    BY DEF Write
  <1>3. Logs /\ Stages /\ Drained /\ Checked /\ Faultless
    BY DEF OInv
  <1>4. next = Count + 1 /\ \A p \in Peer : p < next
    <2>1. next = Count + 1
      BY <1>1, <1>3 DEF Stages, Late
    <2>. QED
      BY <2>1, ParallelAssumption DEF Peer
  <1>5. Logs' /\ Stages'
    BY <1>1, <1>3 DEF Logs, Stages, Early, Late
  <1>6. Drained'
    BY <1>1, <1>2, <1>3 DEF Drained
  <1>7. Checked'
    <2>1. ASSUME outcome' = "PASS", NEW p \in Peer
          PROVE  Mine(seen[p]) = Sent(p) /\ seen[p] = arrived[p]
      <3>1. failures = {}
        BY <1>2, <2>1
      <3>. QED
        BY <1>1, <1>3, <1>4, <3>1 DEF Checked, Late, Drained
    <2>. QED
      BY <1>1, <2>1 DEF Checked, Late
  <1>8. Faultless'
    BY <1>1, <1>2, <1>3 DEF Faultless
  <1>. QED
    BY <1>5, <1>6, <1>7, <1>8 DEF Messaging

\* An event that arrives is the next in the hands of the wait.
LEMMA Received ==
    ASSUME OInv, NEW p \in Peer, NEW e \in Echoes, Receive(p, e),
           UNCHANGED <<pc, seen, next, failures>>
    PROVE  /\ queue' \in [Peer -> Seq(Echoes)] /\ arrived' \in [Peer -> Seq(Echoes)]
           /\ Drained'
           /\ arrived' = [arrived EXCEPT ![p] = Append(@, e)]
           /\ pc \in {"wait", "collect"}
  <1>1. Logs /\ Drained
    BY DEF OInv
  <1>2. /\ pc \in {"wait", "collect"} /\ p >= next
        /\ queue' = [queue EXCEPT ![p] = Append(@, e)]
        /\ arrived' = [arrived EXCEPT ![p] = Append(@, e)]
    BY DEF Receive, Listening
  <1>3. queue[p] \in Seq(Echoes) /\ seen[p] \in Seq(Echoes) /\ arrived[p] \in Seq(Echoes)
    BY <1>1 DEF Logs
  <1>4. Append(queue[p], e) \in Seq(Echoes) /\ Append(arrived[p], e) \in Seq(Echoes)
    BY <1>3, AppendProperties
  <1>5. seen[p] \o Append(queue[p], e) = Append(seen[p] \o queue[p], e)
    <2> DEFINE s == seen[p]
               t == queue[p]
    <2>1. s \in Seq(Echoes) /\ t \in Seq(Echoes)
      BY <1>3
    <2> HIDE DEF s, t
    <2>2. s \o Append(t, e) = Append(s \o t, e)
      BY <2>1, AppendedAtTheEnd
    <2>. QED
      BY <2>2 DEF s, t
  <1>6. seen[p] \o queue[p] = arrived[p]
    BY <1>1, <1>2 DEF Drained
  <1>7. ~(p < next)
    BY <1>2, ParallelAssumption DEF OInv, IInv, Types, Places, Peer
  <1>8. Drained'
    <2> SUFFICES ASSUME NEW q \in Peer
                 PROVE  /\ q >= next => seen[q] \o queue'[q] = arrived'[q]
                        /\ q < next => "extra" \in failures \/ seen[q] = arrived'[q]
      BY DEF Drained
    <2>1. CASE q = p
      BY <1>1, <1>2, <1>5, <1>6, <1>7, <2>1 DEF Logs
    <2>2. CASE q # p
      <3>1. queue'[q] = queue[q] /\ arrived'[q] = arrived[q]
        BY <1>1, <1>2, <2>2 DEF Logs
      <3>. QED
        BY <1>1, <3>1 DEF Drained
    <2>. QED
      BY <2>1, <2>2
  <1>. QED
    BY <1>1, <1>2, <1>4, <1>8 DEF Logs

\* The rest of the steps that move messages, between the collected pieces.
LEMMA Moved ==
    ASSUME OInv, UNCHANGED <<pc, seen, next, failures, outcome>>,
           pc \in {"wait", "collect"}
    PROVE  Stages' /\ Checked'
  <1>1. Stages
    BY DEF OInv
  <1>2. outcome # "PASS"
    BY DEF OInv, IInv, Sessions
  <1>3. Stages'
    BY <1>1 DEF Stages, Early, Late, Enough
  <1>4. Checked'
    BY <1>2 DEF Checked, Late
  <1>. QED
    BY <1>3, <1>4

LEMMA DeliverOwn == ASSUME OInv, NEW p \in Peer, Deliver(p) PROVE Messaging'
  <1> DEFINE e == Head(wire[p])
  <1>1. /\ wire[p] # <<>> /\ Receive(p, e)
        /\ wire' = [wire EXCEPT ![p] = Tail(@)]
        /\ UNCHANGED <<pc, seen, next, faults, failures, outcome>>
    BY DEF Deliver, control, harness, judgement
  <1>2. Logs /\ Faultless
    BY DEF OInv
  <1>3. wire[p] \in Seq(Echoes) /\ arrived[p] \in Seq(Echoes)
    BY <1>2 DEF Logs
  <1>4. e \in Echoes /\ Tail(wire[p]) \in Seq(Echoes)
    BY <1>1, <1>3, HeadTailProperties
  <1>5. /\ queue' \in [Peer -> Seq(Echoes)] /\ arrived' \in [Peer -> Seq(Echoes)]
        /\ Drained'
        /\ arrived' = [arrived EXCEPT ![p] = Append(@, e)]
        /\ pc \in {"wait", "collect"}
    <2> HIDE DEF e
    <2>. QED
      BY <1>1, <1>4, Received
  <1>6. Logs'
    BY <1>1, <1>2, <1>4, <1>5 DEF Logs
  <1>7. Stages' /\ Checked'
    BY <1>1, <1>5, Moved
  <1>8. Append(arrived[p], e) \o Tail(wire[p]) = arrived[p] \o wire[p]
    BY <1>1, <1>3, HeadMoved
  <1>9. Faultless'
    <2> SUFFICES ASSUME faults = 0, NEW q \in Peer
                 PROVE  arrived'[q] \o wire'[q] = Sent(q)
      BY <1>1, <1>2 DEF Faultless
    <2>1. arrived[q] \o wire[q] = Sent(q)
      BY <1>2, <1>5 DEF Faultless
    <2>2. CASE q = p
      BY <1>1, <1>2, <1>5, <1>8, <2>1, <2>2 DEF Logs
    <2>3. CASE q # p
      BY <1>1, <1>2, <1>5, <2>1, <2>3 DEF Logs
    <2>. QED
      BY <2>2, <2>3
  <1>. QED
    BY <1>5, <1>6, <1>7, <1>9 DEF Messaging

LEMMA MisbehaveOwn == ASSUME OInv, NEW p \in Peer, Misbehave(p) PROVE Messaging'
  <1> DEFINE e == Head(wire[p])
  <1>1. /\ wire[p] # <<>> /\ faults' = faults + 1
        /\ UNCHANGED <<pc, seen, next, failures, outcome>>
        /\ wire' = [wire EXCEPT ![p] = Tail(@)] \/ wire' = wire
    BY DEF Misbehave, control, harness, judgement
  <1>2. \/ Listening(p) /\ UNCHANGED <<queue, arrived>>
        \/ Receive(p, e)
        \/ \E q \in Peer, mine \in BOOLEAN : Receive(q, [e EXCEPT !.mine = mine])
    BY DEF Misbehave
  <1>3. Logs /\ Drained
    BY DEF OInv
  <1>4. e \in Echoes /\ Tail(wire[p]) \in Seq(Echoes)
    BY <1>1, <1>3, HeadTailProperties DEF Logs
  <1>5. \A mine \in BOOLEAN : [e EXCEPT !.mine = mine] \in Echoes
    <2> HIDE DEF e
    <2>. QED
      BY <1>4 DEF Echoes
  <1> HIDE DEF e
  <1>6. wire' \in [Peer -> Seq(Echoes)]
    BY <1>1, <1>3, <1>4 DEF Logs
  <1>7. /\ queue' \in [Peer -> Seq(Echoes)] /\ arrived' \in [Peer -> Seq(Echoes)]
        /\ Drained' /\ pc \in {"wait", "collect"}
    <2>1. CASE Listening(p) /\ UNCHANGED <<queue, arrived>>
      BY <1>1, <1>3, <2>1 DEF Listening, Logs, Drained
    <2>2. CASE Receive(p, e)
      BY <1>1, <1>4, <2>2, Received
    <2>3. CASE \E q \in Peer, mine \in BOOLEAN : Receive(q, [e EXCEPT !.mine = mine])
      <3>1. PICK q \in Peer, mine \in BOOLEAN : Receive(q, [e EXCEPT !.mine = mine])
        BY <2>3
      <3> DEFINE f == [e EXCEPT !.mine = mine]
      <3>2. f \in Echoes /\ Receive(q, f)
        BY <1>5, <3>1
      <3> HIDE DEF f
      <3>. QED
        BY <1>1, <3>2, Received
    <2>. QED
      BY <1>2, <2>1, <2>2, <2>3
  <1>8. Logs'
    BY <1>1, <1>3, <1>6, <1>7 DEF Logs
  <1>9. Stages' /\ Checked'
    BY <1>1, <1>7, Moved
  <1>10. Faultless'
    <2>1. faults \in 0..MaxFaults
      BY DEF OInv, IInv, Types, Places
    <2>2. faults' # 0
      BY <1>1, <2>1, ParallelAssumption
    <2>. QED
      BY <2>2 DEF Faultless
  <1>. QED
    BY <1>7, <1>8, <1>9, <1>10 DEF Messaging

LEMMA OwnAlways == Spec => []OInv
  <1>1. OInv /\ [Next]_vars => OInv'
    <2> SUFFICES ASSUME OInv, [Next]_vars PROVE IInv' /\ Messaging'
      BY DEF OInv, Messaging
    <2>1. IInv'
      BY InvariantKept DEF OInv
    <2>2. Messaging'
      BY QuietOrNot, QuietOwn, SendOwn, SettleOwn, CollectOwn, CompareOwn,
         WriteOwn, PollOwn, DeliverOwn, MisbehaveOwn
    <2>. QED
      BY <2>1, <2>2
  <1>. QED
    BY <1>1, InitiallyOwn, PTL DEF Spec

\* For any number of peers and messages, and whatever baresip loses, doubles,
\* misdirects or mistakes: when the campaign has passed, every peer got back
\* on its channel exactly what it had sent, in order and nothing else, and its
\* session was ended when baresip was asked to (wait_for_messages,
\* unexpected_message_failures, compare_ordered, delete_session_id).
THEOREM PassIsOwn == Spec => []PassMeansOwn
  <1>1. OInv => PassMeansOwn
    <2> SUFFICES ASSUME OInv, result = "PASS", NEW p \in Peer
                 PROVE  /\ Mine(arrived[p]) = [n \in 1..Messages |-> Message(p, n)]
                        /\ arrived[p] = seen[p]
                        /\ session[p] = "deleted"
      BY DEF PassMeansOwn
    <2>1. outcome = "PASS"
      BY DEF OInv, IInv, Files
    <2>2. Mine(seen[p]) = Sent(p) /\ seen[p] = arrived[p]
      BY <2>1 DEF OInv, Checked
    <2>3. session[p] = "deleted"
      BY <2>1 DEF OInv, IInv, Sessions
    <2>. QED
      BY <2>2, <2>3 DEF Sent
  <1>. QED
    BY <1>1, OwnAlways, PTL

\* And a baresip without fault is not blamed for a message, whatever the pace
\* of the sessions (wait_for_messages, unexpected_message_failures).
THEOREM NobodyBlamed == Spec => []NoFalseAlarm
  <1>1. OInv => NoFalseAlarm
    <2>1. OInv => faults \in 0..MaxFaults
      BY DEF OInv, IInv, Types, Places
    <2>2. OInv => (faults = 0 => failures \cap {"extra", "transcript"} = {})
      BY DEF OInv, Faultless
    <2>. QED
      BY <2>1, <2>2, ParallelAssumption DEF NoFalseAlarm
  <1>. QED
    BY <1>1, OwnAlways, PTL

=============================================================================
