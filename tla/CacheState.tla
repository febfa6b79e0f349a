----------------------------- MODULE CacheState -----------------------------
(***************************************************************************)
(* The shared-memory cache of src/cache_state.c: a fixed array of entries  *)
(* and the serial counter of its control block.  Every operation runs      *)
(* under the lock its caller holds, so each one is a single step.          *)
(*                                                                         *)
(* Operators named after the C functions compute results from an array of  *)
(* entries; the actions at the end apply them to the variables.  The seven *)
(* statistics counters are left out: no operation reads them.              *)
(*                                                                         *)
(* An operator X_Y stands before some operators X: the same code with a    *)
(* plausible mistake Y.  The specification never uses it; it shows that    *)
(* the properties below tell the code from its near misses.                *)
(***************************************************************************)
EXTENDS Integers

CONSTANTS
    Keys,       \* canonical cache keys (cache_key.c)
    Payloads,   \* documents that may be stored
    NoKey,      \* the zeroed key of an unoccupied entry
    NoPayload,  \* no document: NULL, empty or larger than an entry's buffer
    Capacity,   \* number of entries in the segment
    TimeMax,    \* INT64_MAX, the largest monotonic millisecond
    SerialMax   \* UINT64_MAX, the largest refresh serial

ASSUME CacheAssumption ==
    /\ NoKey \notin Keys
    /\ NoPayload \notin Payloads
    /\ Capacity \in Nat \ {0}
    /\ TimeMax \in Nat
    /\ SerialMax \in Nat \ {0}

VARIABLES
    entries,     \* PgOAuthCacheEntry[capacity]
    next_serial  \* control->next_refresh_serial

cacheVars == <<entries, next_serial>>

Slots == 1 .. Capacity
Time == 0 .. TimeMax
Serials == 1 .. SerialMax

Entry ==
    [occupied: BOOLEAN, key: Keys \cup {NoKey},
     has_value: BOOLEAN, payload: Payloads \cup {NoPayload},
     fresh_until: Time, stale_until: Time, last_used: Time,
     refreshing: BOOLEAN, refresh_serial: Serials \cup {0},
     has_unknown_kid_refresh: BOOLEAN, last_unknown_kid_refresh: Time]

\* memset(entry, 0, sizeof(*entry))
ZeroEntry ==
    [occupied |-> FALSE, key |-> NoKey,
     has_value |-> FALSE, payload |-> NoPayload,
     fresh_until |-> 0, stale_until |-> 0, last_used |-> 0,
     refreshing |-> FALSE, refresh_serial |-> 0,
     has_unknown_kid_refresh |-> FALSE, last_unknown_kid_refresh |-> 0]

\* PgOAuthCacheRefresh, the token a refresh owner holds.
Refresh == [entry_index: Slots, serial: Serials]
NoRefresh == [entry_index |-> 0, serial |-> 0]

CacheInit ==
    /\ entries = [i \in Slots |-> ZeroEntry]
    /\ next_serial = 1

-----------------------------------------------------------------------------
same_key(e, k) == e.occupied /\ e.key = k

bounded_add_Unbounded(value, duration) == value + duration

bounded_add(value, duration) ==
    IF duration > TimeMax - value THEN TimeMax ELSE value + duration

\* The entry a scan from index 0 stops at, for a set of matching entries.
First(S) == CHOOSE i \in S : \A j \in S : i <= j

-----------------------------------------------------------------------------
(* pg_oauth_cache_lookup and pg_oauth_cache_copy_payload *)

Valued(k) == {i \in Slots : same_key(entries[i], k) /\ entries[i].has_value}

freshness(k, now, allow_stale) ==
    IF Valued(k) = {} THEN "miss"
    ELSE LET e == entries[First(Valued(k))]
         IN  IF now < e.fresh_until THEN "fresh"
             ELSE IF allow_stale /\ now < e.stale_until THEN "stale"
             ELSE "miss"

copy_payload(k) == entries[First(Valued(k))].payload

Lookup(k, now, allow_stale) ==
    /\ entries' = IF freshness(k, now, allow_stale) = "miss" THEN entries
                  ELSE [entries EXCEPT ![First(Valued(k))].last_used = now]
    /\ UNCHANGED next_serial

-----------------------------------------------------------------------------
(* find_refresh_slot and pg_oauth_cache_begin_refresh *)

Existing(k) == {i \in Slots : same_key(entries[i], k)}

Empty == {i \in Slots : ~entries[i].occupied}

Evictable_InProgress(now) ==
    {i \in Slots : entries[i].occupied /\ now >= entries[i].stale_until}

Evictable_Unexpired(now) ==
    {i \in Slots : entries[i].occupied /\ ~entries[i].refreshing}

Evictable(now) ==
    {i \in Slots : /\ entries[i].occupied
                   /\ ~entries[i].refreshing
                   /\ now >= entries[i].stale_until}

\* The least recently used evictable entries; a scan keeps the first of them.
Victims(now) ==
    {i \in Evictable(now) :
        \A j \in Evictable(now) : entries[i].last_used <= entries[j].last_used}

\* 0 stands for SIZE_MAX, no slot.
find_refresh_slot(k, now) ==
    IF Existing(k) # {} THEN First(Existing(k))
    ELSE IF Empty # {} THEN First(Empty)
    ELSE IF Victims(now) # {} THEN First(Victims(now))
    ELSE 0

begin_result_NotSingle(k, now, unknown_kid, cooldown) ==
    IF find_refresh_slot(k, now) = 0 THEN "capacity" ELSE "started"

begin_result_AnyAge(k, now, unknown_kid, cooldown) ==
    LET i == find_refresh_slot(k, now)
    IN  IF i = 0 THEN "capacity"
        ELSE IF Existing(k) # {} /\ entries[i].refreshing THEN "in_progress"
        ELSE IF /\ Existing(k) # {}
                /\ unknown_kid
                /\ entries[i].has_unknown_kid_refresh
                /\ now - entries[i].last_unknown_kid_refresh \in 0 .. cooldown - 1
             THEN "suppressed"
        ELSE "started"

begin_result(k, now, unknown_kid, cooldown) ==
    LET i == find_refresh_slot(k, now)
    IN  IF i = 0 THEN "capacity"
        ELSE IF Existing(k) # {} /\ entries[i].refreshing THEN "in_progress"
        ELSE IF /\ Existing(k) # {}
                /\ unknown_kid
                /\ entries[i].has_unknown_kid_refresh
                /\ now - entries[i].last_unknown_kid_refresh < cooldown
             THEN "suppressed"
        ELSE "started"

started_entry_OldSerial(e, k, now, unknown_kid, serial) ==
    LET base == IF same_key(e, k) THEN e
                ELSE [ZeroEntry EXCEPT !.key = k, !.occupied = TRUE,
                                       !.last_used = now]
    IN  [base EXCEPT !.refreshing = TRUE]

\* The entry a started refresh leaves: the existing one, or a cleared slot.
started_entry(e, k, now, unknown_kid, serial) ==
    LET base == IF same_key(e, k) THEN e
                ELSE [ZeroEntry EXCEPT !.key = k, !.occupied = TRUE,
                                       !.last_used = now]
        marked == IF unknown_kid
                  THEN [base EXCEPT !.has_unknown_kid_refresh = TRUE,
                                    !.last_unknown_kid_refresh = now]
                  ELSE base
    IN  [marked EXCEPT !.refreshing = TRUE, !.refresh_serial = serial]

serial_after(s) == IF s = SerialMax THEN 1 ELSE s + 1

begin_token(k, now) ==
    [entry_index |-> find_refresh_slot(k, now), serial |-> next_serial]

BeginRefresh(k, now, unknown_kid, cooldown) ==
    IF begin_result(k, now, unknown_kid, cooldown) = "started"
    THEN LET i == find_refresh_slot(k, now)
         IN  /\ entries' = [entries EXCEPT ![i] =
                    started_entry(entries[i], k, now, unknown_kid, next_serial)]
             /\ next_serial' = serial_after(next_serial)
    ELSE UNCHANGED cacheVars

is_refreshing(k) ==
    Existing(k) # {} /\ entries[First(Existing(k))].refreshing

-----------------------------------------------------------------------------
(* pg_oauth_cache_complete_refresh *)

owns_AnySerial(refresh) ==
    /\ refresh.entry_index \in Slots
    /\ entries[refresh.entry_index].occupied
    /\ entries[refresh.entry_index].refreshing

\* The token is the current owner's: the entry is still in this very refresh.
owns(refresh) ==
    /\ refresh.entry_index \in Slots
    /\ refresh.serial # 0
    /\ entries[refresh.entry_index].occupied
    /\ entries[refresh.entry_index].refreshing
    /\ entries[refresh.entry_index].refresh_serial = refresh.serial

released_entry(e) ==
    IF e.has_value THEN [e EXCEPT !.refreshing = FALSE] ELSE ZeroEntry

published_entry_AlwaysGrace(e, now, revalidation_required, ttl, grace, payload) ==
    [e EXCEPT !.refreshing = FALSE, !.has_value = TRUE,
              !.payload = payload, !.last_used = now,
              !.fresh_until = bounded_add(now, ttl),
              !.stale_until = bounded_add(bounded_add(now, ttl), grace)]

published_entry_FreshGrace(e, now, revalidation_required, ttl, grace, payload) ==
    LET until == IF revalidation_required THEN bounded_add(now, ttl)
                 ELSE bounded_add(bounded_add(now, ttl), grace)
    IN  [e EXCEPT !.refreshing = FALSE, !.has_value = TRUE,
                  !.payload = payload, !.last_used = now,
                  !.fresh_until = until, !.stale_until = until]

published_entry(e, now, revalidation_required, ttl, grace, payload) ==
    LET until == bounded_add(now, ttl)
    IN  [e EXCEPT !.refreshing = FALSE, !.has_value = TRUE,
                  !.payload = payload, !.last_used = now,
                  !.fresh_until = until,
                  !.stale_until = IF revalidation_required THEN until
                                  ELSE bounded_add(until, grace)]

\* outcome: [success, cacheable, revalidation_required, ttl, payload]
acceptable(outcome) ==
    outcome.success /\ outcome.cacheable => outcome.payload # NoPayload

completed_entry_StoreAll(e, now, outcome, grace) ==
    IF ~acceptable(outcome) \/ ~outcome.success THEN released_entry(e)
    ELSE published_entry(e, now, outcome.revalidation_required,
                         outcome.ttl, grace, outcome.payload)

completed_entry(e, now, outcome, grace) ==
    IF ~acceptable(outcome) \/ ~outcome.success THEN released_entry(e)
    ELSE IF ~outcome.cacheable THEN ZeroEntry
    ELSE published_entry(e, now, outcome.revalidation_required,
                         outcome.ttl, grace, outcome.payload)

complete_result(refresh, outcome) == owns(refresh) /\ acceptable(outcome)

CompleteRefresh(refresh, now, outcome, grace) ==
    /\ entries' = IF owns(refresh)
                  THEN [entries EXCEPT ![refresh.entry_index] =
                            completed_entry(@, now, outcome, grace)]
                  ELSE entries
    /\ UNCHANGED next_serial

-----------------------------------------------------------------------------
(* Every entry and the serial counter keep their types: a started or       *)
(* completed refresh never leaves a deadline or serial out of its width.   *)
CacheTypeOK ==
    /\ entries \in [Slots -> Entry]
    /\ next_serial \in Serials

(* pg_oauth_cache_lookup and is_refreshing stop at the first entry of a    *)
(* key; they would miss the value or the owner of a second one.  At most   *)
(* one entry is occupied by each key.                                      *)
UniqueKeys ==
    \A i, j \in Slots :
        /\ entries[i].occupied
        /\ entries[j].occupied
        /\ entries[i].key = entries[j].key
        => i = j

(* An occupied entry without a value is being refreshed: whatever way a    *)
(* first refresh ends, its slot holds a document or returns to the pool.   *)
NoValuelessResidue ==
    \A i \in Slots :
        entries[i].occupied => entries[i].has_value \/ entries[i].refreshing
=============================================================================
