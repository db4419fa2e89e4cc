----------------------------- MODULE MCInference ------------------------------
(* One coach with a door camera and an interior camera that may be throttled. *)
EXTENDS Inference

MCCarOf == [m \in Camera |-> "car1"]
MCPriority == [m \in Camera |-> IF m = "door" THEN "P1" ELSE "P2"]
MCZone == [m \in Camera |-> IF m = "door" THEN "door" ELSE "interior"]

\* An empty coach, one person standing, the same one fallen beside another.
MCViews == {NoOne, [NoOne EXCEPT !["p1"] = "upright"],
            [NoOne EXCEPT !["p1"] = "low", !["p2"] = "upright"]}
=============================================================================
