-------------------------- MODULE ScenarioContract --------------------------
(***************************************************************************)
(* What every scenario promises of its evidence directory                  *)
(* (docs/evidence-schema.md): evidence is collected while the scenario     *)
(* lives, nothing collected is taken back, one verdict is published when   *)
(* everything the scenario started is gone, and from then on the directory *)
(* is immutable.                                                           *)
(***************************************************************************)
CONSTANT Evidence  \* what can be found in the directory, "result.json" in it

VARIABLES
    collected,  \* what is in the directory
    alive,      \* whether an endpoint, a process or a log writer is left
    verdict     \* the published verdict, "none" before

vars == <<collected, alive, verdict>>

Init ==
    /\ collected \in SUBSET (Evidence \ {"result.json"})
    /\ alive \in BOOLEAN
    /\ verdict = "none"

Collect ==
    /\ verdict = "none"
    /\ collected' \in SUBSET (Evidence \ {"result.json"})
    /\ collected \subseteq collected'
    /\ alive' \in BOOLEAN
    /\ UNCHANGED verdict

Publish ==
    /\ verdict = "none"
    /\ ~alive
    /\ verdict' \in {"PASS", "FAIL", "INFRA_ERROR"}
    /\ collected' = collected \cup {"result.json"}
    /\ UNCHANGED alive

Next == Collect \/ Publish

Spec == Init /\ [][Next]_vars

=============================================================================
