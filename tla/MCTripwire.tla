------------------------------- MODULE MCTripwire -----------------------------
EXTENDS Tripwire
CONSTANTS fwd, aft, t1
MCZone == [c \in Gangway |-> IF c = fwd THEN "gangway-fwd" ELSE "gangway-aft"]
MCSeen == [c \in Gangway |-> IF c = fwd THEN {t1} ELSE TrackId]
\* A vertical wire at x = 1; centroids on it and right of it.
MCWire == << <<1, 0>>, <<1, 2>> >>
MCCentroid == {<<1, 1>>, <<2, 1>>}
=============================================================================
