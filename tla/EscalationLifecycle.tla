-------------------------- MODULE EscalationLifecycle --------------------------
(***************************************************************************)
(* What cloud-backend promises of an escalation: it is raised, then        *)
(* acknowledged, then resolved, each once and in that order, and the audit *)
(* trail the funnel report aggregates gains its one row in the same        *)
(* instant.  A dismissal is noted in the trail of an escalation that was   *)
(* raised, and moves nothing.                                              *)
(***************************************************************************)
EXTENDS Sequences

CONSTANT Escalation

VARIABLES status, trail

Init ==
    /\ status = [e \in Escalation |-> "absent"]
    /\ trail = [e \in Escalation |-> <<>>]

Move(e, from, to, row) ==
    /\ status[e] = from
    /\ status' = [status EXCEPT ![e] = to]
    /\ trail' = [trail EXCEPT ![e] = Append(@, row)]

Raise(e) == Move(e, "absent", "unacknowledged", "raised")
Acknowledge(e) == Move(e, "unacknowledged", "acknowledged", "acknowledged")
Resolve(e) == Move(e, "acknowledged", "resolved", "resolved")

Dismiss(e) ==
    /\ status[e] # "absent"
    /\ trail' = [trail EXCEPT ![e] = Append(@, "silently_dismissed")]
    /\ UNCHANGED status

Next == \E e \in Escalation : Raise(e) \/ Acknowledge(e) \/ Resolve(e) \/ Dismiss(e)

Spec == Init /\ [][Next]_<<status, trail>>
=============================================================================
