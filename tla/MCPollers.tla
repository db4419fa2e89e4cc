------------------------------ MODULE MCPollers -------------------------------
EXTENDS Pollers
CONSTANTS t1, t2, s1, brake
\* A train with an active alarm, whose schedule will not parse; one that waits for
\* its trip number, close to its next station; one under way to it.
MCWorlds ==
    {[trip |-> t1, table |-> [a \in Alarm |-> "active"], pis |-> Empty,
      arrival |-> [s \in Schedule |-> "unreadable"]],
     [trip |-> None, table |-> [a \in Alarm |-> "inactive"], pis |-> s1,
      arrival |-> [s \in Schedule |-> "within"]],
     [trip |-> t1, table |-> [a \in Alarm |-> "absent"], pis |-> s1,
      arrival |-> [s \in Schedule |-> "before"]]}
=============================================================================
