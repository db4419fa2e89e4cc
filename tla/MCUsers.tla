-------------------------------- MODULE MCUsers -------------------------------
EXTENDS Users
CONSTANTS ann, bob, cid
\* Two admins, one of whom may have been deactivated; cid is yet to be created.
MCTables ==
    {[u \in User |-> CASE u = ann -> [role |-> "admin", active |-> active]
                       [] u = bob -> [role |-> "admin", active |-> TRUE]
                       [] u = cid -> None] : active \in BOOLEAN}
MCBodies == {[role |-> None, active |-> FALSE], [role |-> "operator", active |-> None],
             [role |-> "admin", active |-> TRUE], [role |-> "operator", active |-> FALSE]}
=============================================================================
