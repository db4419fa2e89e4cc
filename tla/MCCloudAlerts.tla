---------------------------- MODULE MCCloudAlerts -----------------------------
(* Two ALERT_RAISED, one of them of the class that is switched off, another  *)
(* alert with its timestamp, and an event that is no alert; batches that     *)
(* meet in both orders.                                                      *)
EXTENDS CloudAlerts

MCReader == Request \cup Client
MCStamp == [e \in Event |-> IF e = 3 THEN 1 ELSE 2]
MCBatches == {<<1, 2>>, <<2, 1>>, <<4, 3>>}

=============================================================================
