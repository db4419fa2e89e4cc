------------------------------- MODULE MCFusion --------------------------------
(* Fusion for TLC: the suppression flags of the pushes. *)
EXTENDS Fusion

MCFlags == {{}, {"gps_invalid"}, {"maintenance", "depot"}}
=============================================================================
