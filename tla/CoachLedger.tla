------------------------------ MODULE CoachLedger -----------------------------
(***************************************************************************)
(* fusion's closed ledger of passengers per coach (CoachLedger): WAGON_EXIT *)
(* and WAGON_ENTRY events move the counts, an exit waits a bounded time for *)
(* its entry, and camera counts correct a ledger that has drifted.          *)
(*                                                                         *)
(* The methods contain no await, so each is one step; a kill finds either  *)
(* all or nothing of it in SQLite, except that unreconciled_exits may be   *)
(* one behind, which a restart zeroes anyway.  A timer is two steps: the   *)
(* call_later callback only creates the task that handles the timeout.     *)
(* Every coach has its row from the start (_row adds one on first use).    *)
(***************************************************************************)
EXTENDS Integers, FiniteSets

CONSTANTS
    Coach, Track,
    Timer,        \* timer handles; a bound on how many exist at once
    DriftThreshold, \* ledger_drift_threshold
    BucketSize,   \* ledger_drift_bucket_size
    CameraCount,  \* camera counts an OCCUPANCY_UPDATE may carry
    MaxMoves,     \* bound on WAGON_EXIT and WAGON_ENTRY events
    MaxLedgerFaults \* bound on failed writes and restarts

ASSUME LedgerAssumption ==
    /\ DriftThreshold \in Nat /\ BucketSize \in Nat \ {0}
    /\ CameraCount \subseteq Nat
    /\ MaxMoves \in Nat /\ MaxLedgerFaults \in Nat

VARIABLES
    count,       \* ledger_count of every coach
    unreconciled,\* unreconciled_exits of every coach
    saved,       \* ledger_count in SQLite
    seen,        \* _seen_wagon
    bucket,      \* _last_drift_bucket
    pending,     \* _pending_exits: a set of exits, one per track
    timers,      \* armed call_later handles, with the track they are for
    fired,       \* _handle_pending_timeout tasks that have yet to run
    unpaired,    \* history: exits given up on since the start
    moves, ledgerFaults

rowVars == <<count, unreconciled, saved, seen, bucket>>
timerVars == <<pending, timers, fired>>
ledgerVars == <<rowVars, timerVars, unpaired, moves, ledgerFaults>>

Exit == [track : Track, from : Coach, timer : Timer]
Alarm == [track : Track, timer : Timer]

LedgerTypeOK ==
    /\ count \in [Coach -> Int] /\ saved \in [Coach -> Int]
    /\ unreconciled \in [Coach -> Nat] /\ unpaired \in [Coach -> Nat]
    /\ seen \subseteq Coach
    /\ bucket \in [Coach -> Int]
    /\ pending \subseteq Exit /\ timers \subseteq Alarm /\ fired \subseteq Alarm
    /\ \A p, q \in pending : p.track = q.track => p = q
    /\ moves \in 0..MaxMoves /\ ledgerFaults \in 0..MaxLedgerFaults

LedgerInit ==
    /\ count = [c \in Coach |-> 0] /\ saved = [c \in Coach |-> 0]
    /\ unreconciled = [c \in Coach |-> 0] /\ unpaired = [c \in Coach |-> 0]
    /\ seen = {}
    /\ bucket = [c \in Coach |-> 0]
    /\ pending = {} /\ timers = {} /\ fired = {}
    /\ moves = 0 /\ ledgerFaults = 0

PendingOf(t) == {p \in pending : p.track = t}
Idle == Timer \ {a.timer : a \in timers \cup fired}
Move == moves < MaxMoves /\ moves' = moves + 1
Fault == ledgerFaults < MaxLedgerFaults /\ ledgerFaults' = ledgerFaults + 1

-----------------------------------------------------------------------------
(* on_wagon_exit.                                                            *)

\* A second EXIT of a track that is still pending.
DuplicateExit(t, a, b) ==
    /\ Move
    /\ PendingOf(t) # {}
    /\ seen' = seen \cup {a, b}
    /\ UNCHANGED <<count, unreconciled, saved, bucket, timerVars, unpaired, ledgerFaults>>

\* expect_orphan: the count drops and nothing is awaited.  The write may raise.
OrphanExit(t, a, b) ==
    /\ Move
    /\ seen' = seen \cup {a, b}
    /\ count' = [count EXCEPT ![a] = @ - 1]
    /\ \/ saved' = [saved EXCEPT ![a] = count'[a]] /\ UNCHANGED ledgerFaults
       \/ UNCHANGED saved /\ Fault
    /\ UNCHANGED <<unreconciled, bucket, timerVars, unpaired>>

WagonExit(t, a, b) ==
    /\ Move
    /\ PendingOf(t) = {}
    /\ seen' = seen \cup {a, b}
    /\ count' = [count EXCEPT ![a] = @ - 1]
    /\ saved' = [saved EXCEPT ![a] = count'[a]]
    /\ unreconciled' = [unreconciled EXCEPT ![a] = @ + 1]
    /\ \E k \in Idle :
          /\ timers' = timers \cup {[track |-> t, timer |-> k]}
          /\ pending' = pending \cup {[track |-> t, from |-> a, timer |-> k]}
    /\ UNCHANGED <<bucket, fired, unpaired, ledgerFaults>>

\* The write raises: the counts in memory have changed, no exit is awaited.
WagonExitUnsaved(t, a, b) ==
    /\ Move /\ Fault
    /\ PendingOf(t) = {}
    /\ seen' = seen \cup {a, b}
    /\ count' = [count EXCEPT ![a] = @ - 1]
    /\ unreconciled' = [unreconciled EXCEPT ![a] = @ + 1]
    /\ unpaired' = [unpaired EXCEPT ![a] = @ + 1]
    /\ UNCHANGED <<saved, bucket, timerVars>>

-----------------------------------------------------------------------------
(* on_wagon_entry.  The pending exit is removed and its timer cancelled --   *)
(* which does nothing to a timer that has fired.                             *)

TakePending(t) ==
    /\ pending' = pending \ PendingOf(t)
    /\ timers' = {a \in timers : \A p \in PendingOf(t) : a.timer # p.timer}
    /\ UNCHANGED fired

WagonEntry(t, a, b) ==
    /\ Move
    /\ TakePending(t)
    /\ seen' = seen \cup {a, b}
    /\ count' = [count EXCEPT ![b] = @ + 1]
    /\ saved' = [saved EXCEPT ![b] = count'[b]]
    /\ unreconciled' = [c \in Coach |->
          IF (\E p \in PendingOf(t) : p.from = c) /\ unreconciled[c] > 0
          THEN unreconciled[c] - 1 ELSE unreconciled[c]]
    /\ UNCHANGED <<bucket, unpaired, ledgerFaults>>

\* The first write raises: the exit is no longer awaited, nor reconciled.
WagonEntryUnsaved(t, a, b) ==
    /\ Move /\ Fault
    /\ TakePending(t)
    /\ seen' = seen \cup {a, b}
    /\ count' = [count EXCEPT ![b] = @ + 1]
    /\ unpaired' = [c \in Coach |->
          IF \E p \in PendingOf(t) : p.from = c THEN unpaired[c] + 1 ELSE unpaired[c]]
    /\ UNCHANGED <<unreconciled, saved, bucket>>

-----------------------------------------------------------------------------
(* The reconciliation window.                                                *)

TimerFires(a) ==
    /\ a \in timers
    /\ timers' = timers \ {a}
    /\ fired' = fired \cup {a}
    /\ UNCHANGED <<rowVars, pending, unpaired, moves, ledgerFaults>>

BadPendingTimeout(a) ==
    /\ a \in fired
    /\ fired' = fired \ {a}
    /\ UNCHANGED <<rowVars, pending, timers, unpaired, moves, ledgerFaults>>

\* The task knows the track only: it drops whatever exit of the track is
\* pending now.
PendingTimeout(a) ==
    /\ a \in fired
    /\ fired' = fired \ {a}
    /\ pending' = pending \ PendingOf(a.track)
    /\ unpaired' = [c \in Coach |->
          IF \E p \in PendingOf(a.track) : p.from = c THEN unpaired[c] + 1 ELSE unpaired[c]]
    /\ UNCHANGED <<rowVars, timers, moves, ledgerFaults>>

-----------------------------------------------------------------------------
(* check_drift.                                                              *)

\* Sign(delta) * (|delta| // bucket_size), and 0 within the threshold.
DriftBucket(delta) ==
    LET size == IF delta < 0 THEN -delta ELSE delta
    IN  IF size <= DriftThreshold THEN 0
        ELSE IF delta < 0 THEN -(size \div BucketSize) ELSE size \div BucketSize

\* Only a change of bucket corrects the ledger; the write may raise.
CheckDrift(c, n) ==
    /\ c \in seen
    /\ DriftBucket(count[c] - n) # bucket[c]
    /\ bucket' = [bucket EXCEPT ![c] = DriftBucket(count[c] - n)]
    /\ count' = [count EXCEPT ![c] = n]
    /\ \/ saved' = [saved EXCEPT ![c] = IF count[c] # n THEN n ELSE @] /\ UNCHANGED ledgerFaults
       \/ count[c] # n /\ UNCHANGED saved /\ Fault
    /\ UNCHANGED <<unreconciled, seen, timerVars, unpaired, moves>>

BadRestart ==
    /\ Fault
    /\ count' = saved
    /\ UNCHANGED <<saved, unreconciled, moves>>
    /\ unpaired' = [c \in Coach |-> 0]
    /\ seen' = {} /\ bucket' = [c \in Coach |-> 0]
    /\ pending' = {} /\ timers' = {} /\ fired' = {}

\* Shutdown or kill, and _load_rows_and_clean_stale_pendings.
Restart ==
    /\ Fault
    /\ count' = saved
    /\ unreconciled' = [c \in Coach |-> 0] /\ unpaired' = [c \in Coach |-> 0]
    /\ seen' = {} /\ bucket' = [c \in Coach |-> 0]
    /\ pending' = {} /\ timers' = {} /\ fired' = {}
    /\ UNCHANGED <<saved, moves>>

-----------------------------------------------------------------------------
Crossing(t, a, b) ==
    \/ DuplicateExit(t, a, b) \/ OrphanExit(t, a, b)
    \/ WagonExit(t, a, b) \/ WagonExitUnsaved(t, a, b)
    \/ WagonEntry(t, a, b) \/ WagonEntryUnsaved(t, a, b)

LedgerNext ==
    \/ \E t \in Track, a, b \in Coach : a # b /\ Crossing(t, a, b)
    \/ \E a \in Alarm : TimerFires(a) \/ PendingTimeout(a)
    \/ \E c \in Coach, n \in CameraCount : CheckDrift(c, n)
    \/ Restart

LedgerSpec == LedgerInit /\ [][LedgerNext]_ledgerVars

\* Timers expire and tasks run; nothing else need happen.
LedgerFairSpec ==
    /\ LedgerSpec
    /\ \A a \in Alarm : WF_ledgerVars(TimerFires(a)) /\ WF_ledgerVars(PendingTimeout(a))

-----------------------------------------------------------------------------
(* Properties.                                                               *)

(* The counter means what its name says: an unreconciled exit is either      *)
(* still awaited or was given up on, through timeouts, stale timers, failed  *)
(* writes and restarts (review P4).                                          *)
ExitsAccounted ==
    \A c \in Coach :
        unreconciled[c] = Cardinality({p \in pending : p.from = c}) + unpaired[c]

(* Every exit awaited has a timer that will end the wait: a stuck one would  *)
(* swallow all later exits of its track as duplicates.                       *)
PendingWatched ==
    \A p \in pending : [track |-> p.track, timer |-> p.timer] \in timers \cup fired

(* Both, and one pending exit per track: no exit is forgotten or stuck,      *)
(* whatever fails between the change in memory and the write.                *)
ExitsTracked == LedgerTypeOK /\ ExitsAccounted /\ PendingWatched

(* ... so that no exit is awaited forever.                                   *)
PendingEventuallyResolved ==
    \A x \in Exit : x \in pending ~> x \notin pending

=============================================================================
