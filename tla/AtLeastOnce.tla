------------------------------ MODULE AtLeastOnce -----------------------------
(***************************************************************************)
(* What a store-and-forward hop promises: a message it has taken over is   *)
(* held until the receiver has it.  Messages may be received repeatedly    *)
(* and taken over again after release.                                     *)
(***************************************************************************)
CONSTANT Message

VARIABLES
    held,      \* messages in the hop's custody
    received   \* messages the receiver has

vars == <<held, received>>

Init == held = {} /\ received = {}

Accept(S) ==
    /\ held' = held \cup S
    /\ UNCHANGED received

Deliver(m) ==
    /\ m \in held
    /\ received' = received \cup {m}
    /\ UNCHANGED held

Release(S) ==
    /\ S \subseteq received
    /\ held' = held \ S
    /\ UNCHANGED received

Next ==
    \/ \E S \in SUBSET Message : Accept(S) \/ Release(S)
    \/ \E m \in Message : Deliver(m)

Spec == Init /\ [][Next]_vars

=============================================================================
