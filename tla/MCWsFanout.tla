------------------------------ MODULE MCWsFanout ------------------------------
(* Small instances of WsFanout for TLC. *)
EXTENDS WsFanout

\* Event 2 has no car, event 3 has a type and a car only the first client wants.
MCTypeOf == [e \in Event |-> IF e = 3 THEN "heartbeat" ELSE "alert"]
MCSeverityOf == [e \in Event |-> IF e = 1 THEN 2 ELSE 1]
MCCarOf == [e \in Event |-> CASE e = 2 -> NoCar [] e = 3 -> "coach2" [] OTHER -> "coach1"]

\* "all" sees every coach, "one" only coach1 and critical or warning.
MCSub == {"all", "one"}
MCEventTypes == [s \in Sub |-> IF s = "all" THEN {"alert", "heartbeat"} ELSE {"alert"}]
MCMinSeverity == [s \in Sub |-> IF s = "all" THEN 0 ELSE 1]
MCCoachIds == [s \in Sub |-> IF s = "all" THEN AllCoaches ELSE {"coach1"}]
MCDepth == [s \in Sub |-> IF s = "all" THEN 1 ELSE 2]
=============================================================================
