---------------------------- MODULE SharedCache -----------------------------
(***************************************************************************)
(* src/shared_cache.c: the cache in a PostgreSQL shared-memory segment,    *)
(* its lock, and the one condition variable (refresh_cv) on which the      *)
(* backends that wait for somebody else's refresh sleep, whatever key they *)
(* wait for.  An operation under the LWLock is one step; releasing the     *)
(* lock, broadcasting and every stage of a wait are steps of their own.    *)
(* The segment is attached: configured capacity, magic and version match.  *)
(***************************************************************************)
EXTENDS CacheState

CONSTANTS
    Backends,     \* PostgreSQL backend processes
    WaitTimeout,  \* refresh_wait_timeout_ms; 0 switches waiting off
    Horizon       \* last instant of the modelled time

ASSUME SharedAssumption ==
    /\ WaitTimeout \in Nat
    /\ Horizon \in Time

VARIABLES
    clock,      \* CLOCK_MONOTONIC, the same for all backends
    cv,         \* backends queued on refresh_cv
    wait,       \* stage of each backend's pg_oauth_shared_cache_wait_refresh
    elapsed,    \* the elapsed_ms it reports
    asleep_at   \* when it called ConditionVariableTimedSleep

waitVars == <<cv, wait, elapsed, asleep_at>>
sharedVars == <<entries, next_serial, clock, cv, wait, elapsed, asleep_at>>

WaitStages ==
    {"none", "prepare", "check", "sleep", "recheck", "released", "failed"}

SharedInit ==
    /\ CacheInit
    /\ clock = 0
    /\ cv = {}
    /\ wait = [b \in Backends |-> "none"]
    /\ elapsed = [b \in Backends |-> 0]
    /\ asleep_at = [b \in Backends |-> 0]

-----------------------------------------------------------------------------
(* The condition variable (PostgreSQL) *)

PrepareToSleep(b) == cv' = cv \cup {b}
CancelSleep(b) == cv' = cv \ {b}

\* ConditionVariableBroadcast takes every backend off the queue.
Broadcast == cv' = {}

Signalled(b) == b \notin cv

\* The horizon stands for all later instants: every timeout has expired there.
TimedOut(b) == clock >= asleep_at[b] + WaitTimeout \/ clock = Horizon

-----------------------------------------------------------------------------
(* pg_oauth_shared_cache_wait_refresh(k, WaitTimeout) *)

\* The caller enters the function.
WaitCall(b) ==
    /\ wait' = [wait EXCEPT ![b] = "prepare"]
    /\ elapsed' = [elapsed EXCEPT ![b] = 0]
    /\ UNCHANGED <<cv, asleep_at>>

WaitPrepare(b) ==
    /\ wait[b] = "prepare"
    /\ PrepareToSleep(b)
    /\ wait' = [wait EXCEPT ![b] = "check"]
    /\ UNCHANGED <<entries, next_serial, clock, elapsed, asleep_at>>

WaitCheck_Blind(b, k) ==
    /\ wait[b] = "check"
    /\ wait' = [wait EXCEPT ![b] = "sleep"]
    /\ asleep_at' = [asleep_at EXCEPT ![b] = clock]
    /\ UNCHANGED <<entries, next_serial, clock, cv, elapsed>>

WaitCheck(b, k) ==
    /\ wait[b] = "check"
    /\ IF is_refreshing(k)
       THEN /\ wait' = [wait EXCEPT ![b] = "sleep"]
            /\ asleep_at' = [asleep_at EXCEPT ![b] = clock]
            /\ UNCHANGED cv
       ELSE /\ wait' = [wait EXCEPT ![b] = "released"]
            /\ CancelSleep(b)
            /\ UNCHANGED asleep_at
    /\ UNCHANGED <<entries, next_serial, clock, elapsed>>

\* ConditionVariableTimedSleep returns; the lock is taken again later.
WaitWake(b) ==
    /\ wait[b] = "sleep"
    /\ Signalled(b) \/ TimedOut(b)
    /\ wait' = [wait EXCEPT ![b] = "recheck"]
    /\ UNCHANGED <<entries, next_serial, clock, cv, elapsed, asleep_at>>

WaitRecheck_Again(b, k) ==
    /\ wait[b] = "recheck"
    /\ wait' = [wait EXCEPT ![b] =
                    IF is_refreshing(k) THEN "prepare" ELSE "released"]
    /\ CancelSleep(b)
    /\ elapsed' = [elapsed EXCEPT ![b] = WaitTimeout]
    /\ asleep_at' = [asleep_at EXCEPT ![b] = 0]
    /\ UNCHANGED <<entries, next_serial, clock>>

WaitRecheck(b, k) ==
    /\ wait[b] = "recheck"
    /\ wait' = [wait EXCEPT ![b] =
                    IF is_refreshing(k) THEN "failed" ELSE "released"]
    /\ CancelSleep(b)
    /\ elapsed' = [elapsed EXCEPT ![b] = WaitTimeout]
    /\ asleep_at' = [asleep_at EXCEPT ![b] = 0]
    /\ UNCHANGED <<entries, next_serial, clock>>

\* The caller takes the result, or the backend exits.
WaitReturn(b) ==
    /\ wait' = [wait EXCEPT ![b] = "none"]
    /\ elapsed' = [elapsed EXCEPT ![b] = 0]
    /\ asleep_at' = [asleep_at EXCEPT ![b] = 0]
    /\ CancelSleep(b)

-----------------------------------------------------------------------------
(* Types of the segment, the condition variable and the waits on it.       *)
SharedTypeOK ==
    /\ CacheTypeOK
    /\ clock \in 0 .. Horizon
    /\ cv \subseteq Backends
    /\ wait \in [Backends -> WaitStages]
    /\ elapsed \in [Backends -> {0, WaitTimeout}]
    /\ asleep_at \in [Backends -> 0 .. Horizon]
=============================================================================
