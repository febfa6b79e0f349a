-------------------------- MODULE CacheStateProofs --------------------------
(***************************************************************************)
(* Facts about the operators and actions of CacheState, for every capacity *)
(* and every set of keys and payloads.  The proofs about the modules that  *)
(* use the cache cite them.                                                *)
(***************************************************************************)
EXTENDS CacheState, WellFoundedInduction, TLAPS

(* A scan over a nonempty set of indices stops at one of them: the least   *)
(* element that First chooses exists.                                      *)
LEMMA FirstIn ==
    ASSUME NEW S, S \subseteq Nat, S # {}
    PROVE  First(S) \in S
<1> DEFINE Below == {ss \in Nat \X Nat : ss[1] < ss[2]}
<1>1. IsWellFoundedOn(Below, Nat)
  BY NatLessThanWellFounded, Zenon DEF OpToRel
<1>2. \A x, y \in Nat : y < x => <<y, x>> \in Below
  OBVIOUS
<1> HIDE DEF Below
<1>3. PICK x \in S : \A y \in S : ~(<<y, x>> \in Below)
  BY <1>1, WFMin, Zenon
<1>4. ASSUME NEW y \in S
      PROVE  x <= y
  <2>1. x \in Nat /\ y \in Nat
    OBVIOUS
  <2>2. ~(y < x)
    BY <2>1, <1>2, <1>3, Zenon
  <2> QED
    BY <2>1, <2>2
<1> QED
  BY <1>4, Zenon DEF First

(* bounded_add stays within the width of a timestamp.                      *)
LEMMA BoundedAddType ==
    ASSUME NEW t \in Time, NEW d \in Nat
    PROVE  bounded_add(t, d) \in Time
BY CacheAssumption DEF bounded_add, Time

(* The cleared entry is an entry.                                          *)
LEMMA ZeroEntryType == ZeroEntry \in Entry
BY CacheAssumption DEF ZeroEntry, Entry, Time

(* find_refresh_slot returns the entry of the key if there is one, and     *)
(* otherwise a free entry or an expired one that is not being refreshed.   *)
LEMMA FindRefreshSlot ==
    ASSUME CacheTypeOK, NEW k, NEW now, find_refresh_slot(k, now) # 0
    PROVE  LET i == find_refresh_slot(k, now)
           IN  /\ i \in Slots
               /\ \/ same_key(entries[i], k) /\ i \in Existing(k)
                  \/ /\ Existing(k) = {}
                     /\ ~entries[i].occupied \/ i \in Evictable(now)
<1> DEFINE i == find_refresh_slot(k, now)
<1>0. /\ Existing(k) \subseteq Nat
      /\ Empty \subseteq Nat
      /\ Victims(now) \subseteq Nat
  BY CacheAssumption DEF Existing, Empty, Victims, Evictable, Slots
<1>1. CASE Existing(k) # {}
  <2>1. i \in Existing(k)
    BY <1>0, <1>1, FirstIn DEF find_refresh_slot
  <2> QED
    BY <2>1 DEF Existing
<1>2. CASE Existing(k) = {} /\ Empty # {}
  <2>1. i \in Empty
    BY <1>0, <1>2, FirstIn, Zenon DEF find_refresh_slot
  <2> QED
    BY <2>1, <1>2 DEF Empty
<1>3. CASE Existing(k) = {} /\ Empty = {} /\ Victims(now) # {}
  <2>1. i \in Victims(now)
    BY <1>0, <1>3, FirstIn DEF find_refresh_slot
  <2> QED
    BY <2>1, <1>3 DEF Victims, Evictable
<1>4. CASE Existing(k) = {} /\ Empty = {} /\ Victims(now) = {}
  BY <1>4 DEF find_refresh_slot
<1> QED
  BY <1>1, <1>2, <1>3, <1>4

-----------------------------------------------------------------------------
(* Types *)

(* The entry that begin_refresh leaves is an entry, is in progress with    *)
(* the new serial and belongs to the key.                                  *)
LEMMA StartedEntry ==
    ASSUME NEW e \in Entry, NEW k \in Keys, NEW now \in Time,
           NEW unknown_kid \in BOOLEAN, NEW serial \in Serials
    PROVE  LET f == started_entry(e, k, now, unknown_kid, serial)
           IN  /\ f \in Entry
               /\ f.occupied /\ f.refreshing
               /\ f.key = k
               /\ f.refresh_serial = serial
<1> DEFINE base == IF same_key(e, k) THEN e
                   ELSE [ZeroEntry EXCEPT !.key = k, !.occupied = TRUE,
                                          !.last_used = now]
           marked == IF unknown_kid
                     THEN [base EXCEPT !.has_unknown_kid_refresh = TRUE,
                                       !.last_unknown_kid_refresh = now]
                     ELSE base
           f == [marked EXCEPT !.refreshing = TRUE, !.refresh_serial = serial]
<1>1. base \in Entry /\ base.occupied /\ base.key = k
  <2>1. CASE same_key(e, k)
    BY <2>1 DEF same_key
  <2>2. CASE ~same_key(e, k)
    <3>1. /\ base = [ZeroEntry EXCEPT !.key = k, !.occupied = TRUE,
                                       !.last_used = now]
          /\ ZeroEntry \in Entry
      BY <2>2, ZeroEntryType
    <3> QED
      BY <3>1, Zenon DEF Entry
  <2> QED
    BY <2>1, <2>2
<1> HIDE DEF base
<1>2. marked \in Entry /\ marked.occupied /\ marked.key = k
  <2>1. CASE unknown_kid
    BY <1>1, <2>1, Zenon DEF Entry
  <2>2. CASE ~unknown_kid
    BY <1>1, <2>2
  <2> QED
    BY <2>1, <2>2
<1> HIDE DEF marked
<1>3. f \in Entry /\ f.occupied /\ f.refreshing /\ f.key = k /\ f.refresh_serial = serial
  BY <1>2, Zenon DEF Entry
<1>4. f = started_entry(e, k, now, unknown_kid, serial)
  BY DEF started_entry, marked, base
<1> QED
  BY <1>3, <1>4, Zenon

(* A started refresh of an existing entry keeps the document and its       *)
(* deadlines, and moves the record of unknown key identifiers only for     *)
(* one.                                                                    *)
LEMMA RestartedEntry ==
    ASSUME NEW e \in Entry, NEW k, NEW now \in Time,
           NEW unknown_kid \in BOOLEAN, NEW serial, same_key(e, k),
           NEW f, f = started_entry(e, k, now, unknown_kid, serial)
    PROVE  /\ f.occupied /\ f.key = k
           /\ f.has_value = e.has_value
           /\ f.payload = e.payload
           /\ f.fresh_until = e.fresh_until
           /\ f.stale_until = e.stale_until
           /\ f.last_unknown_kid_refresh =
                    IF unknown_kid THEN now ELSE e.last_unknown_kid_refresh
BY DEF started_entry, same_key, Entry

(* A started refresh has a document only if the key had it before.         *)
LEMMA StartedValue ==
    ASSUME NEW e \in Entry, NEW k, NEW now, NEW unknown_kid \in BOOLEAN,
           NEW serial, NEW f, f = started_entry(e, k, now, unknown_kid, serial),
           f.has_value
    PROVE  same_key(e, k) /\ e.has_value /\ f.payload = e.payload
<1>1. CASE same_key(e, k)
  BY <1>1 DEF started_entry, Entry
<1>2. CASE ~same_key(e, k)
  BY <1>2 DEF started_entry, ZeroEntry
<1> QED
  BY <1>1, <1>2

(* The entry that complete_refresh leaves is an entry, not in progress,    *)
(* and either still its key's and with a document, or cleared.             *)
LEMMA CompletedEntry ==
    ASSUME NEW e \in Entry, NEW now \in Time, NEW grace \in Nat,
           NEW outcome,
           outcome.ttl \in Nat,
           outcome.payload \in Payloads \cup {NoPayload}
    PROVE  LET f == completed_entry(e, now, outcome, grace)
           IN  /\ f \in Entry
               /\ ~f.refreshing
               /\ f.occupied => f.key = e.key /\ e.occupied
               /\ f.occupied => f.has_value
               /\ e.occupied /\ ~f.occupied => f = ZeroEntry
<1>1. /\ released_entry(e) \in Entry
      /\ ~released_entry(e).refreshing
      /\ released_entry(e).occupied => released_entry(e).key = e.key /\ e.occupied
      /\ released_entry(e).occupied => released_entry(e).has_value
      /\ e.occupied /\ ~released_entry(e).occupied => released_entry(e) = ZeroEntry
  BY ZeroEntryType, Zenon DEF released_entry, Entry, ZeroEntry
<1>2. /\ ZeroEntry \in Entry
      /\ ~ZeroEntry.refreshing
      /\ ~ZeroEntry.occupied
  BY ZeroEntryType DEF ZeroEntry
<1>3. ASSUME NEW r
      PROVE  LET f == published_entry(e, now, r, outcome.ttl, grace, outcome.payload)
             IN  /\ f \in Entry
                 /\ ~f.refreshing
                 /\ f.key = e.key
                 /\ f.occupied = e.occupied
                 /\ f.has_value
  <2>1. bounded_add(now, outcome.ttl) \in Time
    BY BoundedAddType
  <2>2. bounded_add(bounded_add(now, outcome.ttl), grace) \in Time
    BY <2>1, BoundedAddType
  <2> QED
    BY <2>1, <2>2, Zenon DEF published_entry, Entry
<1> QED
  BY <1>1, <1>2, <1>3 DEF completed_entry

(* A completed refresh has the document it had before, or, if it was a     *)
(* success that may be cached, the document it brought.                    *)
LEMMA CompletedValue ==
    ASSUME NEW e \in Entry, NEW now, NEW grace, NEW outcome,
           NEW f, f = completed_entry(e, now, outcome, grace), f.has_value
    PROVE  /\ f.key = e.key
           /\ \/ e.has_value /\ f.payload = e.payload
              \/ /\ outcome.success /\ outcome.cacheable
                 /\ f.payload = outcome.payload
<1>1. CASE ~acceptable(outcome) \/ ~outcome.success
  <2>1. f = released_entry(e)
    BY <1>1 DEF completed_entry
  <2> QED
    BY <2>1 DEF released_entry, ZeroEntry, Entry
<1>2. CASE acceptable(outcome) /\ outcome.success /\ ~outcome.cacheable
  BY <1>2 DEF completed_entry, ZeroEntry
<1>3. CASE acceptable(outcome) /\ outcome.success /\ outcome.cacheable
  BY <1>3 DEF completed_entry, published_entry, Entry
<1> QED
  BY <1>1, <1>2, <1>3

(* The serial counter wraps to 1 and skips 0.                              *)
LEMMA SerialAfterType ==
    ASSUME NEW s \in Serials
    PROVE  serial_after(s) \in Serials
BY CacheAssumption DEF serial_after, Serials

-----------------------------------------------------------------------------
(* What each operation does to the array *)

(* A lookup changes at most the time of last use of one entry.             *)
LEMMA LookupEffect ==
    ASSUME CacheTypeOK, NEW k, NEW now \in Time, NEW allow_stale,
           Lookup(k, now, allow_stale)
    PROVE  /\ CacheTypeOK'
           /\ next_serial' = next_serial
           /\ \A i \in Slots : entries'[i] = [entries[i] EXCEPT
                                        !.last_used = entries'[i].last_used]
<1>1. CASE freshness(k, now, allow_stale) = "miss"
  BY <1>1 DEF Lookup, CacheTypeOK, Entry
<1>2. CASE freshness(k, now, allow_stale) # "miss"
  <2>1. Valued(k) # {} /\ Valued(k) \subseteq Nat
    BY <1>2, CacheAssumption DEF freshness, Valued, Slots
  <2>2. First(Valued(k)) \in Slots
    BY <2>1, FirstIn DEF Valued
  <2> QED
    BY <1>2, <2>2 DEF Lookup, CacheTypeOK, Entry
<1> QED
  BY <1>1, <1>2

(* begin_refresh changes nothing, or puts one entry that was not in        *)
(* progress into progress for the key, with the serial of the token.       *)
LEMMA BeginEffect ==
    ASSUME CacheTypeOK, NEW k \in Keys, NEW now \in Time,
           NEW unknown_kid \in BOOLEAN, NEW cooldown,
           begin_result(k, now, unknown_kid, cooldown) = "started",
           BeginRefresh(k, now, unknown_kid, cooldown)
    PROVE  LET i == find_refresh_slot(k, now)
           IN  /\ CacheTypeOK'
               /\ i \in Slots
               /\ \/ same_key(entries[i], k) /\ ~entries[i].refreshing
                  \/ /\ Existing(k) = {}
                     /\ ~entries[i].occupied \/ i \in Evictable(now)
               /\ \A j \in Slots \ {i} : entries'[j] = entries[j]
               /\ entries'[i] = started_entry(entries[i], k, now, unknown_kid,
                                              next_serial)
               /\ next_serial' = serial_after(next_serial)
<1> DEFINE i == find_refresh_slot(k, now)
<1>1. i # 0
  BY DEF begin_result
<1>2. /\ i \in Slots
      /\ \/ same_key(entries[i], k) /\ i \in Existing(k)
         \/ /\ Existing(k) = {}
            /\ ~entries[i].occupied \/ i \in Evictable(now)
  BY <1>1, FindRefreshSlot
<1>3. Existing(k) # {} => ~entries[i].refreshing
  BY <1>1 DEF begin_result
<1>4. /\ entries' = [entries EXCEPT ![i] =
                started_entry(entries[i], k, now, unknown_kid, next_serial)]
      /\ next_serial' = serial_after(next_serial)
  BY DEF BeginRefresh
<1>5. started_entry(entries[i], k, now, unknown_kid, next_serial) \in Entry
  BY <1>2, StartedEntry DEF CacheTypeOK
<1>6. CacheTypeOK'
  BY <1>2, <1>4, <1>5, SerialAfterType DEF CacheTypeOK
<1> HIDE DEF i
<1> QED
  BY <1>2, <1>3, <1>4, <1>6 DEF CacheTypeOK, i

(* complete_refresh changes at most the entry of the token, and only if    *)
(* the token is the current one.                                           *)
LEMMA CompleteEffect ==
    ASSUME CacheTypeOK, NEW refresh, NEW now \in Time, NEW grace \in Nat,
           NEW outcome,
           outcome.ttl \in Nat,
           outcome.payload \in Payloads \cup {NoPayload},
           CompleteRefresh(refresh, now, outcome, grace)
    PROVE  LET i == refresh.entry_index
           IN  /\ CacheTypeOK'
               /\ next_serial' = next_serial
               /\ ~owns(refresh) => entries' = entries
               /\ owns(refresh) =>
                    /\ i \in Slots
                    /\ \A j \in Slots \ {i} : entries'[j] = entries[j]
                    /\ entries'[i] =
                            completed_entry(entries[i], now, outcome, grace)
<1>1. CASE ~owns(refresh)
  BY <1>1 DEF CompleteRefresh, CacheTypeOK
<1>2. CASE owns(refresh)
  <2>1. refresh.entry_index \in Slots
    BY <1>2 DEF owns
  <2>2. completed_entry(entries[refresh.entry_index], now, outcome, grace) \in Entry
    BY <2>1, CompletedEntry DEF CacheTypeOK
  <2> QED
    BY <1>2, <2>1, <2>2 DEF CompleteRefresh, CacheTypeOK
<1> QED
  BY <1>1, <1>2
=============================================================================
