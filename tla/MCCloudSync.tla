----------------------------- MODULE MCCloudSync ------------------------------
(* Small instances of CloudSync for TLC. *)
EXTENDS CloudSync

\* Two events per journey; each journey's last event ties with the next one's
\* first in no case, events 2 and 3 share a timestamp across journeys.
MCJourneyOf == [e \in Event |-> (e + 1) \div 2]
MCTimestampOf == [e \in Event |-> IF e <= 2 THEN e ELSE e - 1]
=============================================================================
