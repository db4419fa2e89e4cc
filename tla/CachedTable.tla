----------------------------- MODULE CachedTable ------------------------------
(***************************************************************************)
(* The read-through cache cloud-backend keeps over a small table that      *)
(* admins edit: AlertClassFilter over alert_class_state and, line for line *)
(* the same, ThresholdStore over confidence_thresholds.  A map is trusted  *)
(* for a minute, loaded by one coroutine at a time under an asyncio.Lock,  *)
(* and given up by invalidate(), which an admin endpoint calls after its   *)
(* commit.  A table state is the number of writes committed to it.         *)
(***************************************************************************)
EXTENDS Integers

CONSTANTS Reader, NoReader, MaxWrites  \* MaxWrites is a bound

ASSUME CachedTableAssumption == NoReader \notin Reader /\ MaxWrites \in Nat

VARIABLES
    table,       \* writes committed
    untold,      \* those whose invalidate() is still to come
    told,        \* history: the latest write invalidate() was called for
    cache,       \* the state of the table the map was read from
    fresh,       \* _loaded_at is set and not a minute ago
    generation,  \* _generation
    holder,      \* who has _lock
    at,          \* where a reader stands in load
    gen,         \* its gen_at_start
    snap,        \* what its query returned
    began,       \* history: told when it called
    used         \* history: began and the table state of the last answer

cacheVars == <<table, untold, told, cache, fresh, generation, holder, at, gen, snap, began, used>>

CacheTypeOK ==
    /\ table \in 0..MaxWrites /\ told \in 0..MaxWrites /\ cache \in 0..MaxWrites
    /\ untold \subseteq 1..MaxWrites
    /\ fresh \in BOOLEAN /\ generation \in Nat
    /\ holder \in Reader \cup {NoReader}
    /\ at \in [Reader -> {"out", "waiting", "query", "rows"}]
    /\ gen \in [Reader -> Nat]
    /\ snap \in [Reader -> 0..MaxWrites] /\ began \in [Reader -> 0..MaxWrites]
    /\ used \in [began : 0..MaxWrites, version : 0..MaxWrites]

CacheInit ==
    /\ table = 0 /\ untold = {} /\ told = 0
    /\ cache = 0 /\ fresh = FALSE /\ generation = 0
    /\ holder = NoReader
    /\ at = [r \in Reader |-> "out"]
    /\ gen = [r \in Reader |-> 0] /\ snap = [r \in Reader |-> 0] /\ began = [r \in Reader |-> 0]
    /\ used = [began |-> 0, version |-> 0]

-----------------------------------------------------------------------------
(* load.  The answer is read off the map with no await after it.             *)

\* The map is fresh.
CacheHit(r) ==
    /\ at[r] = "out" /\ fresh
    /\ began' = [began EXCEPT ![r] = told]
    /\ used' = [began |-> told, version |-> cache]
    /\ UNCHANGED <<table, untold, told, cache, fresh, generation, holder, at, gen, snap>>

BadLoadStart(r) ==
    /\ at[r] = "out" /\ ~fresh
    /\ began' = [began EXCEPT ![r] = told]
    /\ holder' = r
    /\ gen' = [gen EXCEPT ![r] = generation]
    /\ at' = [at EXCEPT ![r] = "query"]
    /\ UNCHANGED <<table, untold, told, cache, fresh, generation, snap, used>>

\* It is not, and the lock is free: note the generation, send the query.
LoadStart(r) ==
    /\ at[r] = "out" /\ ~fresh /\ holder = NoReader
    /\ began' = [began EXCEPT ![r] = told]
    /\ holder' = r
    /\ gen' = [gen EXCEPT ![r] = generation]
    /\ at' = [at EXCEPT ![r] = "query"]
    /\ UNCHANGED <<table, untold, told, cache, fresh, generation, snap, used>>

LoadWait(r) ==
    /\ at[r] = "out" /\ ~fresh /\ holder # NoReader
    /\ began' = [began EXCEPT ![r] = told]
    /\ at' = [at EXCEPT ![r] = "waiting"]
    /\ UNCHANGED <<table, untold, told, cache, fresh, generation, holder, gen, snap, used>>

\* The second look at the map, under the lock.
WaitHit(r) ==
    /\ at[r] = "waiting" /\ holder = NoReader /\ fresh
    /\ at' = [at EXCEPT ![r] = "out"]
    /\ used' = [began |-> began[r], version |-> cache]
    /\ UNCHANGED <<table, untold, told, cache, fresh, generation, holder, gen, snap, began>>

WaitLoad(r) ==
    /\ at[r] = "waiting" /\ holder = NoReader /\ ~fresh
    /\ holder' = r
    /\ gen' = [gen EXCEPT ![r] = generation]
    /\ at' = [at EXCEPT ![r] = "query"]
    /\ UNCHANGED <<table, untold, told, cache, fresh, generation, snap, began, used>>

QueryRuns(r) ==
    /\ at[r] = "query"
    /\ snap' = [snap EXCEPT ![r] = table]
    /\ at' = [at EXCEPT ![r] = "rows"]
    /\ UNCHANGED <<table, untold, told, cache, fresh, generation, holder, gen, began, used>>

BadLoadReturns(r) ==
    /\ at[r] = "rows"
    /\ cache' = snap[r]
    /\ fresh' = TRUE
    /\ holder' = NoReader
    /\ at' = [at EXCEPT ![r] = "out"]
    /\ used' = [began |-> began[r], version |-> snap[r]]
    /\ UNCHANGED <<table, untold, told, generation, gen, snap, began>>

\* A map read while an admin wrote is used once and not kept.
LoadReturns(r) ==
    /\ at[r] = "rows"
    /\ cache' = snap[r]
    /\ fresh' = (generation = gen[r])
    /\ holder' = NoReader
    /\ at' = [at EXCEPT ![r] = "out"]
    /\ used' = [began |-> began[r], version |-> snap[r]]
    /\ UNCHANGED <<table, untold, told, generation, gen, snap, began>>

BadLoadFails(r) ==
    /\ at[r] # "out"
    /\ at' = [at EXCEPT ![r] = "out"]
    /\ UNCHANGED <<table, untold, told, cache, fresh, generation, holder, gen, snap, began, used>>

\* The query raises, or the client has gone: the lock is released.
LoadFails(r) ==
    /\ at[r] # "out"
    /\ at' = [at EXCEPT ![r] = "out"]
    /\ holder' = IF holder = r THEN NoReader ELSE holder
    /\ UNCHANGED <<table, untold, told, cache, fresh, generation, gen, snap, began, used>>

\* The minute is over.
Expire ==
    /\ fresh /\ fresh' = FALSE
    /\ UNCHANGED <<table, untold, told, cache, generation, holder, at, gen, snap, began, used>>

-----------------------------------------------------------------------------
(* An admin endpoint: commit, then invalidate().                             *)

AdminCommit ==
    /\ table < MaxWrites
    /\ table' = table + 1
    /\ untold' = untold \cup {table + 1}
    /\ UNCHANGED <<told, cache, fresh, generation, holder, at, gen, snap, began, used>>

Invalidate(n) ==
    /\ n \in untold
    /\ untold' = untold \ {n}
    /\ told' = IF n > told THEN n ELSE told
    /\ fresh' = FALSE
    /\ generation' = generation + 1
    /\ UNCHANGED <<table, cache, holder, at, gen, snap, began, used>>

Answered(r) == CacheHit(r) \/ WaitHit(r) \/ LoadReturns(r)

Loading(r) == LoadStart(r) \/ LoadWait(r) \/ WaitLoad(r) \/ QueryRuns(r)

CacheNext ==
    \/ \E r \in Reader : Answered(r) \/ Loading(r) \/ LoadFails(r)
    \/ Expire \/ AdminCommit
    \/ \E n \in 1..MaxWrites : Invalidate(n)

CacheSpec == CacheInit /\ [][CacheNext]_cacheVars

-----------------------------------------------------------------------------
(* "A kill-switch takes effect on the next fan-out" (fanout_filter.py:8-9):  *)
(* an answer asked for after invalidate() was called for a write is read     *)
(* from a map that has the write, whatever load was under way at the time.   *)
FreshAfterInvalidate == used.version >= used.began

(* The lock is held by a coroutine that is loading, and by one only.         *)
LoadsOneAtATime == \A r \in Reader : at[r] \in {"query", "rows"} <=> holder = r

=============================================================================
