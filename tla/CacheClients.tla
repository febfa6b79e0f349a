---------------------------- MODULE CacheClients ----------------------------
(***************************************************************************)
(* The cache under arbitrary callers.  complete_refresh checks the serial  *)
(* of the token it gets against owners that are late or complete twice, so *)
(* here a caller may complete with any token ever issued, at any time and  *)
(* in any order, and may use any timestamp it captured in the past, as a   *)
(* backend does that reads its clock once, at the start of its callback.   *)
(***************************************************************************)
EXTENDS CacheState

CONSTANTS
    Ttls,          \* freshness lifetimes of published documents
    Grace,         \* stale_grace_ms
    Cooldown,      \* unknown_kid_cooldown_ms
    MaxRefreshes   \* bound on the refreshes one segment lifetime starts

ASSUME ClientAssumption ==
    /\ Ttls \subseteq Nat
    /\ Grace \in Nat
    /\ Cooldown \in Nat
    /\ MaxRefreshes \in 1 .. SerialMax

VARIABLES
    clock,    \* CLOCK_MONOTONIC
    issued,   \* tokens of all started refreshes, each with the key it is for
    settled   \* the issued tokens whose completion was carried out

vars == <<entries, next_serial, clock, issued, settled>>

Issued == [key: Keys, refresh: Refresh]

Outcomes ==
    [success: BOOLEAN, cacheable: BOOLEAN, revalidation_required: BOOLEAN,
     ttl: Ttls, payload: Payloads \cup {NoPayload}]

Init ==
    /\ CacheInit
    /\ clock = 0
    /\ issued = {}
    /\ settled = {}

LookupStep(k, now, allow_stale) ==
    /\ Lookup(k, now, allow_stale)
    /\ UNCHANGED <<clock, issued, settled>>

\* The bound on refreshes keeps the serial from wrapping: 2^64 in the code.
BeginStep(k, now, unknown_kid) ==
    /\ next_serial < MaxRefreshes
    /\ BeginRefresh(k, now, unknown_kid, Cooldown)
    /\ issued' = IF begin_result(k, now, unknown_kid, Cooldown) = "started"
                 THEN issued \cup {[key |-> k, refresh |-> begin_token(k, now)]}
                 ELSE issued
    /\ UNCHANGED <<clock, settled>>

CompleteStep(t, now, outcome) ==
    /\ CompleteRefresh(t.refresh, now, outcome, Grace)
    /\ settled' = IF owns(t.refresh) THEN settled \cup {t} ELSE settled
    /\ UNCHANGED <<clock, issued>>

\* The postmaster reinitialises shared memory; every token dies with its backend.
RestartStep ==
    /\ entries' = [i \in Slots |-> ZeroEntry]
    /\ next_serial' = 1
    /\ issued' = {}
    /\ settled' = {}
    /\ UNCHANGED clock

Tick ==
    /\ clock < TimeMax
    /\ clock' = clock + 1
    /\ UNCHANGED <<entries, next_serial, issued, settled>>

Next ==
    \/ \E k \in Keys, now \in 0 .. clock, allow_stale \in BOOLEAN :
            LookupStep(k, now, allow_stale)
    \/ \E k \in Keys, now \in 0 .. clock, unknown_kid \in BOOLEAN :
            BeginStep(k, now, unknown_kid)
    \/ \E t \in issued, now \in 0 .. clock, outcome \in Outcomes :
            CompleteStep(t, now, outcome)
    \/ RestartStep
    \/ Tick

Spec == Init /\ [][Next]_vars

-----------------------------------------------------------------------------
(* The cache keeps its types under any callers: deadlines saturate at      *)
(* INT64_MAX (bounded_add), and a completion that is carried out is one of *)
(* a token that was issued.                                                *)
TypeOK ==
    /\ CacheTypeOK
    /\ clock \in Time
    /\ issued \subseteq Issued
    /\ settled \subseteq issued

(* A refresh that has not been completed is never lost: its entry still    *)
(* holds its key, its serial and the refreshing flag, whatever lookups,    *)
(* refreshes of other keys, evictions and late completions came between    *)
(* begin_refresh and complete_refresh.                                     *)
PendingKept ==
    \A t \in issued \ settled :
        /\ owns(t.refresh)
        /\ entries[t.refresh.entry_index].key = t.key

(* A token is good for one completion: once carried out, complete_refresh  *)
(* refuses it for ever, also after its slot was reused.                    *)
SettledIsObsolete == \A t \in settled : ~owns(t.refresh)

(* Every entry in progress belongs to a token that was issued and has not  *)
(* been completed; no entry waits for an owner that does not exist.        *)
RefreshingHasOwner ==
    \A i \in Slots : entries[i].refreshing =>
        \E t \in issued \ settled :
            t.refresh = [entry_index |-> i, serial |-> entries[i].refresh_serial]

\* The document the cache holds for k, while it may still be used at `now`.
Live(k, now) ==
    {i \in Slots : /\ same_key(entries[i], k)
                   /\ entries[i].has_value
                   /\ now < entries[i].stale_until}

\* The step publishes or drops a document of k for a successful refresh of k.
Replaces(k) ==
    \E t \in issued \ settled, now \in 0 .. clock, o \in Outcomes :
        /\ t.key = k
        /\ o.success
        /\ CompleteStep(t, now, o)

KeepsLiveValues ==
    \A k \in Keys : \A i \in Live(k, clock) :
        \/ i \in Live(k, clock)' /\ entries'[i].payload = entries[i].payload
        \/ clock' >= entries[i].stale_until
        \/ RestartStep
        \/ Replaces(k)

(* Only its own key's successful refresh takes an unexpired document away: *)
(* it survives every lookup, every refresh of another key, also one that   *)
(* finds the cache full (find_refresh_slot), and every completion that     *)
(* fails, is rejected or comes too late (complete_refresh).                *)
LiveValueStable == [][KeepsLiveValues]_vars

SpacesUnknownKids ==
    \A i \in Slots :
        /\ entries[i].has_unknown_kid_refresh
        /\ entries'[i].has_unknown_kid_refresh
        /\ entries'[i].key = entries[i].key
        => \/ entries'[i].last_unknown_kid_refresh =
                entries[i].last_unknown_kid_refresh
           \/ entries'[i].last_unknown_kid_refresh >=
                entries[i].last_unknown_kid_refresh + Cooldown

(* Refreshes of one entry for unknown key identifiers are a cooldown       *)
(* apart, and their record never moves back, although callers come with    *)
(* timestamps older than it (the subtraction in begin_refresh is signed).  *)
CooldownSpaced == [][SpacesUnknownKids]_vars

-----------------------------------------------------------------------------
Documented == {i \in Slots : entries[i].occupied /\ entries[i].has_value}

document(e) ==
    [key |-> e.key, payload |-> e.payload,
     fresh_until |-> e.fresh_until, stale_until |-> e.stale_until]

Promise ==
    INSTANCE SingleFlight WITH held <- {document(entries[i]) : i \in Documented},
                               flights <- issued \ settled

(* The array of entries with its serials, flags and evictions implements   *)
(* the cache the callers rely on: a lookup changes no document,            *)
(* begin_refresh starts one flight per key, and complete_refresh lands the *)
(* flight of its token, and nothing else with any other token.             *)
ImplementsSingleFlight == Promise!Spec
=============================================================================
