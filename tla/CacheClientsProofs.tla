------------------------- MODULE CacheClientsProofs -------------------------
(***************************************************************************)
(* The cache keeps its promises to arbitrary callers: proofs of the        *)
(* invariants of CacheClients for every number of slots, keys, payloads    *)
(* and refreshes.                                                          *)
(***************************************************************************)
EXTENDS CacheClients, CacheStateProofs, FiniteSetTheorems

\* Serials are handed out in order, none twice.
SerialsInOrder ==
    /\ next_serial <= MaxRefreshes
    /\ \A t \in issued : t.refresh.serial < next_serial
    /\ \A s, t \in issued : s.refresh.serial = t.refresh.serial => s = t

\* A free entry has no record of a refresh for an unknown key identifier.
FreeHasNoRecord ==
    \A i \in Slots : entries[i].occupied \/ ~entries[i].has_unknown_kid_refresh

\* The inductive invariant.
IInv ==
    /\ TypeOK
    /\ SerialsInOrder
    /\ PendingKept
    /\ SettledIsObsolete
    /\ RefreshingHasOwner
    /\ UniqueKeys
    /\ NoValuelessResidue
    /\ FreeHasNoRecord

(* The empty segment satisfies the invariant.                              *)
LEMMA ClientInit == Init => IInv
<1> SUFFICES ASSUME Init PROVE IInv
  BY Zenon
<1> USE CacheAssumption, ClientAssumption
<1>1. /\ entries = [i \in Slots |-> ZeroEntry]
      /\ next_serial = 1
      /\ clock = 0
      /\ issued = {}
      /\ settled = {}
  BY Zenon DEF Init, CacheInit
<1>2. TypeOK
  BY <1>1, ZeroEntryType DEF TypeOK, CacheTypeOK, Time, Serials
<1>3. \A i \in Slots : /\ ~entries[i].occupied /\ ~entries[i].refreshing
                        /\ ~entries[i].has_unknown_kid_refresh
  BY <1>1, Zenon DEF ZeroEntry
<1> QED
  BY <1>1, <1>2, <1>3
     DEF IInv, SerialsInOrder, PendingKept, SettledIsObsolete,
         RefreshingHasOwner, UniqueKeys, NoValuelessResidue, FreeHasNoRecord

\* owns reads four fields of one entry.
LEMMA OwnsDependsOn ==
    ASSUME NEW r, r.entry_index \in Slots,
           entries'[r.entry_index].occupied = entries[r.entry_index].occupied,
           entries'[r.entry_index].refreshing = entries[r.entry_index].refreshing,
           entries'[r.entry_index].refresh_serial =
                entries[r.entry_index].refresh_serial
    PROVE  owns(r)' <=> owns(r)
BY Zenon DEF owns

(* A step that leaves the tokens alone and of each entry at most the time  *)
(* of last use preserves the invariant.                                    *)
LEMMA QuietStep ==
    ASSUME IInv, TypeOK',
           next_serial' = next_serial, issued' = issued, settled' = settled,
           \A i \in Slots :
                /\ entries'[i].occupied = entries[i].occupied
                /\ entries'[i].key = entries[i].key
                /\ entries'[i].has_value = entries[i].has_value
                /\ entries'[i].refreshing = entries[i].refreshing
                /\ entries'[i].refresh_serial = entries[i].refresh_serial
                /\ entries'[i].has_unknown_kid_refresh =
                        entries[i].has_unknown_kid_refresh
    PROVE  IInv'
<1>1. \A t \in issued : t.refresh.entry_index \in Slots
  BY Zenon DEF IInv, TypeOK, Issued, Refresh
<1>2. \A t \in issued : owns(t.refresh)' <=> owns(t.refresh)
  BY <1>1, OwnsDependsOn, Zenon
<1>3. SerialsInOrder'
  BY Zenon DEF IInv, SerialsInOrder
<1>4. PendingKept'
  BY <1>1, <1>2, Zenon DEF IInv, PendingKept
<1>5. SettledIsObsolete'
  BY <1>2, Zenon DEF IInv, TypeOK, SettledIsObsolete
<1>6. RefreshingHasOwner'
  BY Zenon DEF IInv, RefreshingHasOwner
<1>7. UniqueKeys'
  BY DEF IInv, UniqueKeys
<1>8. NoValuelessResidue'
  BY Zenon DEF IInv, NoValuelessResidue
<1>9. FreeHasNoRecord'
  BY Zenon DEF IInv, FreeHasNoRecord
<1> QED
  BY <1>3, <1>4, <1>5, <1>6, <1>7, <1>8, <1>9, Zenon DEF IInv

(* A token in issued names a slot and a serial; past time is time.         *)
LEMMA TokenTypes ==
    ASSUME TypeOK
    PROVE  /\ \A t \in issued : /\ t.refresh.entry_index \in Slots
                               /\ t.refresh.serial \in Serials
                               /\ t.key \in Keys
           /\ \A now \in 0 .. clock : now \in Time
           /\ settled \subseteq issued
BY CacheAssumption DEF TypeOK, Issued, Refresh, Time

(* Lookups preserve the invariant.                                         *)
LEMMA LookupKeepsInv ==
    ASSUME IInv, NEW k \in Keys, NEW now \in 0 .. clock,
           NEW allow_stale \in BOOLEAN, LookupStep(k, now, allow_stale)
    PROVE  IInv'
<1>1. TypeOK /\ now \in Time
  BY TokenTypes, Zenon DEF IInv
<1>2. /\ CacheTypeOK'
      /\ next_serial' = next_serial
      /\ \A i \in Slots : entries'[i] = [entries[i] EXCEPT
                                    !.last_used = entries'[i].last_used]
  BY <1>1, LookupEffect, Zenon DEF TypeOK, LookupStep
<1>3. TypeOK' /\ issued' = issued /\ settled' = settled
  BY <1>1, <1>2, Zenon DEF TypeOK, LookupStep
<1>4. \A i \in Slots : entries[i] \in Entry
  BY <1>1, Zenon DEF TypeOK, CacheTypeOK
<1>5. \A i \in Slots :
            /\ entries'[i].occupied = entries[i].occupied
            /\ entries'[i].key = entries[i].key
            /\ entries'[i].has_value = entries[i].has_value
            /\ entries'[i].refreshing = entries[i].refreshing
            /\ entries'[i].refresh_serial = entries[i].refresh_serial
            /\ entries'[i].has_unknown_kid_refresh =
                    entries[i].has_unknown_kid_refresh
  BY <1>2, <1>4, ZenonT(60) DEF Entry
<1> QED
  BY <1>2, <1>3, <1>5, QuietStep, Zenon

(* begin_refresh preserves the invariant: the entry it takes over belongs  *)
(* to no pending refresh, and its new serial is larger than all before.    *)
LEMMA BeginKeepsInv ==
    ASSUME IInv, NEW k \in Keys, NEW now \in 0 .. clock,
           NEW unknown_kid \in BOOLEAN, BeginStep(k, now, unknown_kid)
    PROVE  IInv'
<1> DEFINE i == find_refresh_slot(k, now)
<1>0. TypeOK /\ now \in Time
  BY TokenTypes, Zenon DEF IInv
<1>1. CASE begin_result(k, now, unknown_kid, Cooldown) # "started"
  <2>1. UNCHANGED vars
    BY <1>1, Zenon DEF BeginStep, BeginRefresh, cacheVars, vars
  <2> QED
    BY <2>1, <1>0, QuietStep, Zenon DEF vars, TypeOK, CacheTypeOK
<1>2. CASE begin_result(k, now, unknown_kid, Cooldown) = "started"
  <2>1. /\ CacheTypeOK'
        /\ i \in Slots
        /\ \/ same_key(entries[i], k) /\ ~entries[i].refreshing
           \/ /\ Existing(k) = {}
              /\ ~entries[i].occupied \/ i \in Evictable(now)
        /\ \A j \in Slots \ {i} : entries'[j] = entries[j]
        /\ entries'[i] = started_entry(entries[i], k, now, unknown_kid,
                                       next_serial)
        /\ next_serial' = serial_after(next_serial)
    BY <1>0, <1>2, BeginEffect, Zenon DEF TypeOK, BeginStep
  <2>0. PICK t : t = [key |-> k, refresh |-> begin_token(k, now)]
    BY Zenon
  <2>2. /\ issued' = issued \cup {t}
        /\ settled' = settled
        /\ clock' = clock
        /\ next_serial < MaxRefreshes
    BY <1>2, <2>0, Zenon DEF BeginStep
  <2>3. /\ next_serial \in Serials
        /\ next_serial' = next_serial + 1
        /\ next_serial' <= MaxRefreshes
    BY <1>0, <2>1, <2>2, ClientAssumption, CacheAssumption, SMTT(30)
       DEF TypeOK, CacheTypeOK, serial_after, Serials
  <2>4. t \in Issued /\ t.refresh.serial = next_serial /\ t.refresh.entry_index = i
    BY <2>0, <2>1, <2>3, Zenon DEF Issued, Refresh, begin_token
  <2>5. /\ entries'[i].occupied /\ entries'[i].refreshing
        /\ entries'[i].key = k
        /\ entries'[i].refresh_serial = next_serial
    BY <1>0, <2>1, <2>3, StartedEntry DEF TypeOK, CacheTypeOK
  <2> HIDE DEF i
  <2>6. ~(entries[i].occupied /\ entries[i].refreshing)
    BY <2>1, Zenon DEF Evictable
  <2>7. TypeOK'
    BY <1>0, <2>1, <2>2, <2>4, Zenon DEF TypeOK
  <2>8. t \notin issued
    BY <2>3, <2>4, TokenTypes DEF IInv, SerialsInOrder, Serials
  <2>9. SerialsInOrder'
    <3>1. \A u \in issued : u.refresh.serial \in Nat /\ u.refresh.serial < next_serial
      BY <1>0, TokenTypes, CacheAssumption DEF IInv, SerialsInOrder, Serials
    <3> QED
      BY <2>2, <2>3, <2>4, <3>1 DEF IInv, SerialsInOrder, Serials
  <2>10. ASSUME NEW u \in issued \ settled
         PROVE  /\ owns(u.refresh)'
                /\ u.refresh.entry_index # i
                /\ entries'[u.refresh.entry_index].key = u.key
    <3>1. owns(u.refresh) /\ entries[u.refresh.entry_index].key = u.key
      BY Zenon DEF IInv, PendingKept
    <3>2. u.refresh.entry_index \in Slots \ {i}
      BY <3>1, <2>6, Zenon DEF owns
    <3>3. entries'[u.refresh.entry_index] = entries[u.refresh.entry_index]
      BY <3>2, <2>1, Zenon
    <3> QED
      BY <3>1, <3>2, <3>3, Zenon DEF owns
  <2>11. PendingKept'
    <3>1. owns(t.refresh)' /\ entries'[t.refresh.entry_index].key = t.key
      BY <2>0, <2>1, <2>3, <2>4, <2>5 DEF owns, Serials
    <3> SUFFICES ASSUME NEW u \in (issued \ settled)'
                 PROVE  /\ owns(u.refresh)'
                        /\ entries'[u.refresh.entry_index].key = u.key
      BY Zenon DEF PendingKept
    <3>2. u = t \/ u \in issued \ settled
      BY <2>2, Zenon
    <3> QED
      BY <2>10, <3>1, <3>2, Zenon
  <2>12. SettledIsObsolete'
    <3> SUFFICES ASSUME NEW u \in settled PROVE ~owns(u.refresh)'
      BY <2>2, Zenon DEF SettledIsObsolete
    <3>1. u.refresh.entry_index \in Slots /\ u.refresh.serial < next_serial
      BY <1>0, TokenTypes, Zenon DEF IInv, SerialsInOrder
    <3>2. ~owns(u.refresh)
      BY Zenon DEF IInv, SettledIsObsolete
    <3>3. CASE u.refresh.entry_index = i
      BY <3>1, <3>3, <2>5, <2>3, <1>0, TokenTypes DEF owns, Serials
    <3>4. CASE u.refresh.entry_index # i
      BY <3>1, <3>2, <3>4, <2>1, Zenon DEF owns
    <3> QED
      BY <3>3, <3>4, Zenon
  <2>13. RefreshingHasOwner'
    <3> SUFFICES ASSUME NEW j \in Slots, entries'[j].refreshing
                 PROVE  \E u \in (issued \ settled)' :
                            u.refresh = [entry_index |-> j,
                                         serial |-> entries'[j].refresh_serial]
      BY Zenon DEF RefreshingHasOwner
    <3>1. CASE j = i
      <4>1. t \in (issued \ settled)'
        BY <1>0, <2>2, <2>8, TokenTypes, Zenon
      <4>2. t.refresh = [entry_index |-> j, serial |-> entries'[j].refresh_serial]
        BY <3>1, <2>0, <2>5, Zenon DEF begin_token, i
      <4> QED
        BY <4>1, <4>2, Zenon
    <3>2. CASE j # i
      <4>1. entries'[j] = entries[j]
        BY <3>2, <2>1, Zenon
      <4>2. PICK u \in issued \ settled :
                u.refresh = [entry_index |-> j, serial |-> entries[j].refresh_serial]
        BY <4>1, Zenon DEF IInv, RefreshingHasOwner
      <4> QED
        BY <4>1, <4>2, <2>2, Zenon
    <3> QED
      BY <3>1, <3>2, Zenon
  <2>14. UniqueKeys'
    <3>1. \A j \in Slots \ {i} : ~(entries[j].occupied /\ entries[j].key = k)
      BY <2>1, Zenon DEF IInv, UniqueKeys, same_key, Existing
    <3> QED
      BY <3>1, <2>1, <2>5, ZenonT(60) DEF IInv, UniqueKeys
  <2>15. NoValuelessResidue'
    BY <2>1, <2>5, Zenon DEF IInv, NoValuelessResidue
  <2>16. FreeHasNoRecord'
    BY <2>1, <2>5, Zenon DEF IInv, FreeHasNoRecord
  <2> QED
    BY <2>7, <2>9, <2>11, <2>12, <2>13, <2>14, <2>15, <2>16, Zenon DEF IInv
<1> QED
  BY <1>1, <1>2, Zenon

(* complete_refresh preserves the invariant: a current token settles its   *)
(* own entry and no other token is current for that entry; any other token *)
(* changes nothing.                                                        *)
LEMMA CompleteKeepsInv ==
    ASSUME IInv, NEW t \in issued, NEW now \in 0 .. clock,
           NEW outcome \in Outcomes, CompleteStep(t, now, outcome)
    PROVE  IInv'
<1> DEFINE i == t.refresh.entry_index
<1>0. /\ TypeOK
      /\ now \in Time
      /\ i \in Slots
      /\ outcome.ttl \in Nat
      /\ outcome.payload \in Payloads \cup {NoPayload}
  BY TokenTypes, ClientAssumption, Zenon DEF IInv, Outcomes
<1>1. /\ CacheTypeOK'
      /\ next_serial' = next_serial
      /\ ~owns(t.refresh) => entries' = entries
      /\ owns(t.refresh) =>
            /\ \A j \in Slots \ {i} : entries'[j] = entries[j]
            /\ entries'[i] = completed_entry(entries[i], now, outcome, Grace)
  BY <1>0, CompleteEffect, ClientAssumption DEF TypeOK, CompleteStep
<1>2. /\ issued' = issued
      /\ clock' = clock
      /\ settled' = IF owns(t.refresh) THEN settled \cup {t} ELSE settled
  BY Zenon DEF CompleteStep
<1>3. TypeOK'
  BY <1>0, <1>1, <1>2, Zenon DEF TypeOK
<1>4. CASE ~owns(t.refresh)
  BY <1>1, <1>2, <1>3, <1>4, QuietStep, Zenon
<1>5. CASE owns(t.refresh)
  <2>1. /\ \A j \in Slots \ {i} : entries'[j] = entries[j]
        /\ settled' = settled \cup {t}
    BY <1>1, <1>2, <1>5, Zenon
  <2>2. /\ ~entries'[i].refreshing
        /\ entries'[i].occupied =>
                entries'[i].key = entries[i].key /\ entries[i].occupied
        /\ entries'[i].occupied => entries'[i].has_value
        /\ entries'[i].occupied \/ ~entries'[i].has_unknown_kid_refresh
    <3>1. entries[i] \in Entry /\ Grace \in Nat
      BY <1>0, ClientAssumption, Zenon DEF TypeOK, CacheTypeOK
    <3>2. entries'[i] = completed_entry(entries[i], now, outcome, Grace)
      BY <1>1, <1>5, Zenon
    <3> HIDE DEF i
    <3> QED
      BY <1>0, <1>5, <3>1, <3>2, CompletedEntry, SMTT(30) DEF owns, i, ZeroEntry
  <2> HIDE DEF i
  <2>3. SerialsInOrder'
    BY <1>1, <1>2, Zenon DEF IInv, SerialsInOrder
  <2>4. PendingKept'
    <3> SUFFICES ASSUME NEW u \in issued \ settled, u # t
                 PROVE  /\ owns(u.refresh)'
                        /\ entries'[u.refresh.entry_index].key = u.key
      BY <1>2, <2>1, Zenon DEF PendingKept
    <3>1. owns(u.refresh) /\ entries[u.refresh.entry_index].key = u.key
      BY Zenon DEF IInv, PendingKept
    <3>2. u.refresh.entry_index # i
      BY <3>1, <1>5, Zenon DEF IInv, SerialsInOrder, owns, i
    <3>3. entries'[u.refresh.entry_index] = entries[u.refresh.entry_index]
      BY <3>1, <3>2, <2>1, Zenon DEF owns
    <3> QED
      BY <3>1, <3>3, Zenon DEF owns
  <2>5. SettledIsObsolete'
    <3> SUFFICES ASSUME NEW u \in settled \cup {t} PROVE ~owns(u.refresh)'
      BY <2>1, Zenon DEF SettledIsObsolete
    <3>1. CASE u.refresh.entry_index = i
      BY <3>1, <2>2, Zenon DEF owns
    <3>2. CASE u.refresh.entry_index # i
      <4>1. u \in settled /\ ~owns(u.refresh)
        BY <3>2, Zenon DEF IInv, SettledIsObsolete, i
      <4>2. u.refresh.entry_index \in Slots
        BY <1>0, <4>1, TokenTypes, Zenon
      <4> QED
        BY <3>2, <4>1, <4>2, <2>1, Zenon DEF owns
    <3> QED
      BY <3>1, <3>2, Zenon
  <2>6. RefreshingHasOwner'
    <3> SUFFICES ASSUME NEW j \in Slots, entries'[j].refreshing
                 PROVE  \E u \in (issued \ settled)' :
                            u.refresh = [entry_index |-> j,
                                         serial |-> entries'[j].refresh_serial]
      BY Zenon DEF RefreshingHasOwner
    <3>1. j # i /\ entries'[j] = entries[j]
      BY <2>1, <2>2, Zenon
    <3>2. PICK u \in issued \ settled :
                u.refresh = [entry_index |-> j, serial |-> entries[j].refresh_serial]
      BY <3>1, Zenon DEF IInv, RefreshingHasOwner
    <3>3. u # t
      BY <3>1, <3>2 DEF i
    <3> QED
      BY <3>1, <3>2, <3>3, <1>2, <2>1, Zenon
  <2>7. UniqueKeys'
    BY <2>1, <2>2, <1>0 DEF IInv, UniqueKeys
  <2>8. NoValuelessResidue'
    BY <2>1, <2>2, Zenon DEF IInv, NoValuelessResidue
  <2>9. FreeHasNoRecord'
    BY <2>1, <2>2, Zenon DEF IInv, FreeHasNoRecord
  <2> QED
    BY <1>3, <2>3, <2>4, <2>5, <2>6, <2>7, <2>8, <2>9, Zenon DEF IInv
<1> QED
  BY <1>4, <1>5, Zenon

(* Every step preserves the invariant.                                     *)
LEMMA ClientNext == IInv /\ [Next]_vars => IInv'
<1> SUFFICES ASSUME IInv, [Next]_vars PROVE IInv'
  BY Zenon
<1>1. ASSUME NEW k \in Keys, NEW now \in 0 .. clock, NEW allow_stale \in BOOLEAN,
             LookupStep(k, now, allow_stale)
      PROVE  IInv'
  BY <1>1, LookupKeepsInv, Zenon
<1>2. ASSUME NEW k \in Keys, NEW now \in 0 .. clock, NEW unknown_kid \in BOOLEAN,
             BeginStep(k, now, unknown_kid)
      PROVE  IInv'
  BY <1>2, BeginKeepsInv, Zenon
<1>3. ASSUME NEW t \in issued, NEW now \in 0 .. clock, NEW outcome \in Outcomes,
             CompleteStep(t, now, outcome)
      PROVE  IInv'
  BY <1>3, CompleteKeepsInv, Zenon
<1>4. CASE RestartStep
  <2>1. /\ entries' = [i \in Slots |-> ZeroEntry]
        /\ next_serial' = 1
        /\ clock' = clock
        /\ issued' = {}
        /\ settled' = {}
    BY <1>4, Zenon DEF RestartStep
  <2>2. TypeOK'
    BY <2>1, ZeroEntryType, CacheAssumption DEF IInv, TypeOK, CacheTypeOK, Serials
  <2>3. \A i \in Slots : /\ ~entries'[i].occupied /\ ~entries'[i].refreshing
                          /\ ~entries'[i].has_unknown_kid_refresh
    BY <2>1, Zenon DEF ZeroEntry
  <2> QED
    BY <2>1, <2>2, <2>3, ClientAssumption, CacheAssumption
       DEF IInv, SerialsInOrder, PendingKept, SettledIsObsolete,
           RefreshingHasOwner, UniqueKeys, NoValuelessResidue, FreeHasNoRecord
<1>5. CASE Tick
  <2>1. TypeOK'
    BY <1>5, CacheAssumption DEF Tick, IInv, TypeOK, CacheTypeOK, Time
  <2> QED
    BY <1>5, <2>1, QuietStep, Zenon DEF Tick
<1>6. CASE UNCHANGED vars
  <2>1. TypeOK'
    BY <1>6, Zenon DEF vars, IInv, TypeOK, CacheTypeOK
  <2> QED
    BY <1>6, <2>1, QuietStep, Zenon DEF vars
<1> QED
  BY <1>1, <1>2, <1>3, <1>4, <1>5, <1>6, Zenon DEF Next

(* The cache under arbitrary callers always satisfies the invariant.       *)
THEOREM ClientInvariant == Spec => []IInv
BY ClientInit, ClientNext, PTL DEF Spec

(* Deadlines, serials and tokens keep their widths: bounded_add and the    *)
(* serial counter never leave them.                                        *)
THEOREM ClientTypes == Spec => []TypeOK
<1>1. IInv => TypeOK
  BY Zenon DEF IInv
<1> QED
  BY <1>1, ClientInvariant, PTL

(* A refresh that was started and not yet completed keeps its entry: no    *)
(* sequence of lookups, refreshes, evictions and late or repeated          *)
(* completions takes it away (begin_refresh, complete_refresh).            *)
THEOREM ClientPendingKept == Spec => []PendingKept
<1>1. IInv => PendingKept
  BY Zenon DEF IInv
<1> QED
  BY <1>1, ClientInvariant, PTL

(* No token is accepted by complete_refresh a second time.                 *)
THEOREM ClientSettledIsObsolete == Spec => []SettledIsObsolete
<1>1. IInv => SettledIsObsolete
  BY Zenon DEF IInv
<1> QED
  BY <1>1, ClientInvariant, PTL

(* An entry in progress always has the pending token that will end it.     *)
THEOREM ClientRefreshingHasOwner == Spec => []RefreshingHasOwner
<1>1. IInv => RefreshingHasOwner
  BY Zenon DEF IInv
<1> QED
  BY <1>1, ClientInvariant, PTL

(* No key ever occupies two entries, so that the scans of lookup and       *)
(* is_refreshing may stop at the first.                                    *)
THEOREM ClientUniqueKeys == Spec => []UniqueKeys
<1>1. IInv => UniqueKeys
  BY Zenon DEF IInv
<1> QED
  BY <1>1, ClientInvariant, PTL

(* However a refresh ends, no entry stays occupied without a document.     *)
THEOREM ClientNoValuelessResidue == Spec => []NoValuelessResidue
<1>1. IInv => NoValuelessResidue
  BY Zenon DEF IInv
<1> QED
  BY <1>1, ClientInvariant, PTL

-----------------------------------------------------------------------------
(* Action properties *)

(* Every step keeps the unexpired documents of other keys and, unless it   *)
(* is their own successful refresh, those of its own key.                  *)
LEMMA StepKeepsLiveValues == IInv /\ Next => KeepsLiveValues
<1> SUFFICES ASSUME IInv, Next PROVE KeepsLiveValues
  BY Zenon
<1> SUFFICES ASSUME NEW k \in Keys, NEW i \in Live(k, clock),
                    ~RestartStep, clock' < entries[i].stale_until
             PROVE  \/ i \in Live(k, clock)' /\ entries'[i].payload = entries[i].payload
                    \/ Replaces(k)
  <2>1. \A i \in Slots : entries[i].stale_until \in Int
    BY DEF IInv, TypeOK, CacheTypeOK, Entry, Time
  <2>2. clock' \in Int
    BY DEF IInv, TypeOK, Next, LookupStep, BeginStep, CompleteStep, RestartStep,
           Tick, Time
  <2> QED
    BY <2>1, <2>2 DEF KeepsLiveValues, Live
<1>0. /\ TypeOK
      /\ i \in Slots
      /\ entries[i] \in Entry
      /\ same_key(entries[i], k)
      /\ entries[i].has_value
  BY Zenon DEF IInv, TypeOK, CacheTypeOK, Live
<1> DEFINE Same == /\ entries'[i].occupied
                   /\ entries'[i].key = entries[i].key
                   /\ entries'[i].has_value = entries[i].has_value
                   /\ entries'[i].payload = entries[i].payload
                   /\ entries'[i].stale_until = entries[i].stale_until
<1>s. Same => i \in Live(k, clock)' /\ entries'[i].payload = entries[i].payload
  BY <1>0, Zenon DEF Live, same_key
<1>u. entries'[i] = entries[i] => Same
  BY <1>0, Zenon DEF same_key
<1> HIDE DEF Same
<1>1. ASSUME NEW q \in Keys, NEW now \in 0 .. clock, NEW allow_stale \in BOOLEAN,
             LookupStep(q, now, allow_stale)
      PROVE  Same
  <2>1. entries'[i] = [entries[i] EXCEPT !.last_used = entries'[i].last_used]
    BY <1>0, <1>1, TokenTypes, LookupEffect, Zenon DEF TypeOK, LookupStep
  <2>2. /\ entries'[i].occupied = entries[i].occupied
        /\ entries'[i].key = entries[i].key
        /\ entries'[i].has_value = entries[i].has_value
        /\ entries'[i].payload = entries[i].payload
        /\ entries'[i].stale_until = entries[i].stale_until
    BY <1>0, <2>1, ZenonT(60) DEF Entry
  <2> QED
    BY <1>0, <2>2, Zenon DEF Same, same_key
<1>2. ASSUME NEW q \in Keys, NEW now \in 0 .. clock, NEW unknown_kid \in BOOLEAN,
             BeginStep(q, now, unknown_kid)
      PROVE  Same
  <2> DEFINE j == find_refresh_slot(q, now)
  <2>0. now \in Time
    BY <1>0, TokenTypes, Zenon
  <2>1. CASE begin_result(q, now, unknown_kid, Cooldown) # "started"
    BY <1>2, <2>1, <1>u, Zenon DEF BeginStep, BeginRefresh, cacheVars
  <2>2. CASE begin_result(q, now, unknown_kid, Cooldown) = "started"
    <3>1. /\ \/ same_key(entries[j], q)
             \/ ~entries[j].occupied \/ j \in Evictable(now)
          /\ \A l \in Slots \ {j} : entries'[l] = entries[l]
          /\ entries'[j] = started_entry(entries[j], q, now, unknown_kid,
                                         next_serial)
      BY <1>0, <1>2, <2>0, <2>2, BeginEffect, ZenonT(60) DEF TypeOK, BeginStep
    <3> HIDE DEF j
    <3>2. CASE i # j
      BY <1>0, <1>u, <3>1, <3>2, Zenon
    <3>3. CASE i = j
      <4>1. i \notin Evictable(now)
        <5>1. clock' = clock /\ now <= clock /\ clock \in Int /\ now \in Int
          BY <1>0, <1>2 DEF BeginStep, TypeOK, Time
        <5>2. entries[i].stale_until \in Int
          BY <1>0 DEF Entry, Time
        <5> QED
          BY <5>1, <5>2 DEF Evictable
      <4>2. same_key(entries[i], q)
        BY <1>0, <3>1, <3>3, <4>1, Zenon DEF same_key
      <4>3. entries'[i] = started_entry(entries[i], q, now, unknown_kid,
                                        next_serial)
        BY <3>1, <3>3, Zenon
      <4>4. /\ entries'[i].occupied /\ entries'[i].key = q
            /\ entries'[i].has_value = entries[i].has_value
            /\ entries'[i].payload = entries[i].payload
            /\ entries'[i].stale_until = entries[i].stale_until
        <5>1. entries[i] \in Entry
          BY <1>0, Zenon
        <5> QED
          BY <2>0, <4>2, <4>3, <5>1, RestartedEntry
      <4> QED
        BY <4>2, <4>4, Zenon DEF Same, same_key
    <3> QED
      BY <3>2, <3>3, Zenon
  <2> QED
    BY <2>1, <2>2, Zenon
<1>3. ASSUME NEW t \in issued, NEW now \in 0 .. clock, NEW outcome \in Outcomes,
             CompleteStep(t, now, outcome)
      PROVE  Same \/ Replaces(k)
  <2> DEFINE j == t.refresh.entry_index
  <2>0. /\ now \in Time
        /\ outcome.ttl \in Nat
        /\ outcome.payload \in Payloads \cup {NoPayload}
    BY <1>0, TokenTypes, ClientAssumption, Zenon DEF Outcomes
  <2>1. /\ ~owns(t.refresh) => entries' = entries
        /\ owns(t.refresh) =>
            /\ \A l \in Slots \ {j} : entries'[l] = entries[l]
            /\ entries'[j] = completed_entry(entries[j], now, outcome, Grace)
    BY <1>0, <1>3, <2>0, CompleteEffect, ClientAssumption DEF TypeOK, CompleteStep
  <2>2. CASE ~owns(t.refresh) \/ i # j
    BY <1>0, <1>u, <2>1, <2>2, Zenon
  <2>3. CASE owns(t.refresh) /\ i = j /\ outcome.success
    <3>1. t \in issued \ settled
      BY <2>3, Zenon DEF IInv, SettledIsObsolete
    <3>2. t.key = k
      BY <1>0, <2>3, <3>1, Zenon DEF IInv, PendingKept, same_key
    <3> QED
      BY <1>3, <2>3, <3>1, <3>2, Zenon DEF Replaces
  <2>4. CASE owns(t.refresh) /\ i = j /\ ~outcome.success
    <3>1. entries'[i] = [entries[i] EXCEPT !.refreshing = FALSE]
      BY <1>0, <2>1, <2>4, Zenon DEF completed_entry, released_entry
    <3> QED
      BY <1>0, <3>1, ZenonT(60) DEF Same, Entry, same_key
  <2> QED
    BY <2>2, <2>3, <2>4, Zenon
<1>4. CASE Tick
  BY <1>4, <1>s, <1>u, Zenon DEF Tick
<1> QED
  BY <1>1, <1>2, <1>3, <1>4, <1>s, Zenon DEF Next

(* An unexpired document is taken away only by its own key's successful    *)
(* refresh or a restart, whatever capacity pressure, failures and late     *)
(* completions the callers produce.                                        *)
THEOREM ClientLiveValueStable == Spec => LiveValueStable
<1>1. IInv /\ [Next]_vars => [KeepsLiveValues]_vars
  BY StepKeepsLiveValues, Zenon
<1> QED
  BY <1>1, ClientInvariant, PTL DEF Spec, LiveValueStable

(* Every step moves an entry's record of unknown key identifiers by a      *)
(* cooldown or not at all.                                                 *)
LEMMA StepSpacesUnknownKids == IInv /\ Next => SpacesUnknownKids
<1> SUFFICES ASSUME IInv, Next, NEW i \in Slots,
                    entries[i].has_unknown_kid_refresh,
                    entries'[i].has_unknown_kid_refresh,
                    entries'[i].key = entries[i].key,
                    entries'[i].last_unknown_kid_refresh #
                        entries[i].last_unknown_kid_refresh
             PROVE  entries'[i].last_unknown_kid_refresh >=
                        entries[i].last_unknown_kid_refresh + Cooldown
  BY Zenon DEF SpacesUnknownKids
<1>0. /\ TypeOK
      /\ entries[i] \in Entry
      /\ entries[i].occupied
      /\ entries'[i] # entries[i]
  BY Zenon DEF IInv, TypeOK, CacheTypeOK, FreeHasNoRecord
<1>1. ASSUME NEW q \in Keys, NEW now \in 0 .. clock, NEW allow_stale \in BOOLEAN,
             LookupStep(q, now, allow_stale)
      PROVE  FALSE
  <2>1. entries'[i] = [entries[i] EXCEPT !.last_used = entries'[i].last_used]
    BY <1>0, <1>1, TokenTypes, LookupEffect, Zenon DEF TypeOK, LookupStep
  <2> QED
    BY <1>0, <2>1, Zenon DEF Entry
<1>2. ASSUME NEW q \in Keys, NEW now \in 0 .. clock, NEW unknown_kid \in BOOLEAN,
             BeginStep(q, now, unknown_kid)
      PROVE  entries'[i].last_unknown_kid_refresh >=
                entries[i].last_unknown_kid_refresh + Cooldown
  <2> DEFINE j == find_refresh_slot(q, now)
  <2>0. now \in Time
    BY <1>0, TokenTypes, Zenon
  <2>1. begin_result(q, now, unknown_kid, Cooldown) = "started"
    BY <1>0, <1>2, Zenon DEF BeginStep, BeginRefresh, cacheVars
  <2>2. /\ same_key(entries[j], q) \/ Existing(q) = {}
        /\ \A l \in Slots \ {j} : entries'[l] = entries[l]
        /\ entries'[j] = started_entry(entries[j], q, now, unknown_kid,
                                       next_serial)
        /\ next_serial \in Serials
    BY <1>0, <1>2, <2>0, <2>1, BeginEffect DEF TypeOK, CacheTypeOK, BeginStep
  <2>3. i = j
    BY <1>0, <2>2, Zenon
  <2>4. entries'[i].key = q
    BY <1>0, <2>0, <2>2, <2>3, StartedEntry
  <2>5. i \in Existing(q) /\ same_key(entries[i], q)
    BY <1>0, <2>4, Zenon DEF Existing, same_key
  <2>6. unknown_kid /\ entries'[i].last_unknown_kid_refresh = now
    BY <1>0, <2>0, <2>2, <2>3, <2>5, RestartedEntry
  <2>7. ~(now - entries[i].last_unknown_kid_refresh < Cooldown)
    BY <2>1, <2>3, <2>5, <2>6, Zenon DEF begin_result
  <2> QED
    BY <1>0, <2>0, <2>6, <2>7, ClientAssumption, CacheAssumption DEF Entry, Time
<1>3. ASSUME NEW t \in issued, NEW now \in 0 .. clock, NEW outcome \in Outcomes,
             CompleteStep(t, now, outcome)
      PROVE  FALSE
  <2> DEFINE j == t.refresh.entry_index
  <2>0. /\ now \in Time
        /\ outcome.ttl \in Nat
        /\ outcome.payload \in Payloads \cup {NoPayload}
    BY <1>0, TokenTypes, ClientAssumption, Zenon DEF Outcomes
  <2>1. /\ owns(t.refresh) /\ i = j
        /\ entries'[i] = completed_entry(entries[i], now, outcome, Grace)
    BY <1>0, <1>3, <2>0, CompleteEffect, ClientAssumption DEF TypeOK, CompleteStep
  <2>2. entries'[i] # ZeroEntry
    BY DEF ZeroEntry
  <2> QED
    BY <1>0, <2>1, <2>2, Zenon
       DEF completed_entry, released_entry, published_entry, Entry
<1>4. CASE RestartStep
  BY <1>4, Zenon DEF RestartStep, ZeroEntry
<1>5. CASE Tick
  BY <1>0, <1>5, Zenon DEF Tick
<1> QED
  BY <1>1, <1>2, <1>3, <1>4, <1>5, Zenon DEF Next

(* begin_refresh lets refreshes for unknown key identifiers through at     *)
(* most once per cooldown and entry, also for callers with old timestamps. *)
THEOREM ClientCooldownSpaced == Spec => CooldownSpaced
<1>1. IInv /\ [Next]_vars => [SpacesUnknownKids]_vars
  BY StepSpacesUnknownKids, Zenon
<1> QED
  BY <1>1, ClientInvariant, PTL DEF Spec, CooldownSpaced

-----------------------------------------------------------------------------
(* CacheClients implements SingleFlight.                                   *)

\* The documents, those of the entries other than i, and the flights.
Docs == {document(entries[i]) : i \in Documented}
Rest(i) == {document(entries[j]) : j \in Documented \ {i}}
Flights == issued \ settled

\* One entry's share of the documents.
LEMMA DocsSplit ==
    ASSUME NEW i \in Slots
    PROVE  /\ i \in Documented => Docs = Rest(i) \cup {document(entries[i])}
           /\ i \notin Documented => Docs = Rest(i)
           /\ i \in Documented' => Docs' = Rest(i)' \cup {document(entries'[i])}
           /\ i \notin Documented' => Docs' = Rest(i)'
<1>1. /\ i \in Documented => Docs = Rest(i) \cup {document(entries[i])}
      /\ i \notin Documented => Docs = Rest(i)
  BY Zenon DEF Docs, Rest, Documented
<1>2. /\ i \in Documented' => Docs' = Rest(i)' \cup {document(entries'[i])}
      /\ i \notin Documented' => Docs' = Rest(i)'
  BY Zenon DEF Docs, Rest, Documented
<1> QED BY <1>1, <1>2, Zenon

\* A step that changes no other entry changes no other entry's document.
LEMMA RestKept ==
    ASSUME NEW i \in Slots, \A j \in Slots \ {i} : entries'[j] = entries[j]
    PROVE  Rest(i)' = Rest(i)
  BY DEF Rest, Documented

\* No other entry has a document of the key of an occupied entry.
LEMMA RestOfKey ==
    ASSUME UniqueKeys, NEW i \in Slots, entries[i].occupied
    PROVE  /\ \A d \in Rest(i) : d.key # entries[i].key
           /\ Rest(i) = {d \in Docs : d.key # entries[i].key}
           /\ i \in Documented => Rest(i) = Docs \ {document(entries[i])}
<1>1. \A d \in Rest(i) : d.key # entries[i].key
  BY DEF Rest, Documented, document, UniqueKeys
<1>2. document(entries[i]).key = entries[i].key
  BY Zenon DEF document
<1>3. CASE i \in Documented
  BY <1>1, <1>2, <1>3, DocsSplit, Zenon
<1>4. CASE i \notin Documented
  BY <1>1, <1>4, DocsSplit, Zenon
<1> QED BY <1>1, <1>3, <1>4, Zenon

\* Documents are unchanged when no entry's are.
LEMMA DocsKept ==
    ASSUME \A i \in Slots :
                /\ entries'[i].occupied = entries[i].occupied
                /\ entries'[i].key = entries[i].key
                /\ entries'[i].has_value = entries[i].has_value
                /\ entries'[i].payload = entries[i].payload
                /\ entries'[i].fresh_until = entries[i].fresh_until
                /\ entries'[i].stale_until = entries[i].stale_until
    PROVE  Docs' = Docs
<1>1. Documented' = Documented
  BY Zenon DEF Documented
<1>2. \A i \in Slots : document(entries[i])' = document(entries[i])
  BY Zenon DEF document
<1> QED BY <1>1, <1>2, Zenon DEF Docs, Documented

\* A key with a flight has an entry in progress, and only one.
LEMMA FlightEntry ==
    ASSUME IInv, NEW f \in Flights, NEW i \in Slots,
           entries[i].occupied, entries[i].key = f.key
    PROVE  entries[i].refreshing
<1>1. /\ owns(f.refresh) /\ f.refresh.entry_index \in Slots
      /\ entries[f.refresh.entry_index].key = f.key
  BY TokenTypes, Zenon DEF IInv, PendingKept, Flights
<1>2. f.refresh.entry_index = i
  BY <1>1, Zenon DEF IInv, UniqueKeys, owns
<1> QED BY <1>1, <1>2, Zenon DEF owns

\* Keys in use.
RoomOK == Cardinality({d.key : d \in Docs} \cup {f.key : f \in Flights}) <= Capacity

\* The keys with a document or a flight are keys of entries, so they are no
\* more than there are entries.
LEMMA Room == IInv => RoomOK
<1> SUFFICES ASSUME IInv PROVE RoomOK
  BY Zenon
<1> DEFINE all == {entries[i].key : i \in Slots}
           used == {d.key : d \in Docs} \cup {f.key : f \in Flights}
<1>1. used \subseteq all
  <2>1. ASSUME NEW d \in Docs PROVE d.key \in all
    BY DEF Docs, Documented, document
  <2>2. ASSUME NEW f \in Flights PROVE f.key \in all
    BY TokenTypes, Zenon DEF IInv, PendingKept, Flights
  <2> QED BY <2>1, <2>2, Zenon
<1>2. IsFiniteSet(Slots) /\ Cardinality(Slots) = Capacity
  BY FS_Interval, CacheAssumption DEF Slots
<1>3. IsFiniteSet(all) /\ Cardinality(all) <= Capacity
  <2>1. [i \in Slots |-> entries[i].key] \in Surjection(Slots, all)
    BY Zenon DEF Surjection
  <2> HIDE DEF all
  <2> QED BY <1>2, <2>1, FS_Surjection, Zenon
<1>4. IsFiniteSet(used) /\ Cardinality(used) <= Cardinality(all)
  BY <1>1, <1>3, FS_Subset, Zenon
<1>5. Cardinality(used) \in Nat /\ Cardinality(all) \in Nat /\ Capacity \in Nat
  BY <1>3, <1>4, FS_CardinalityType, CacheAssumption, Zenon
<1>6. Cardinality(used) <= Capacity
  BY <1>3, <1>4, <1>5
<1> QED BY <1>6, Zenon DEF RoomOK

\* The same after a step.
LEMMA RoomNext == IInv' => RoomOK'
  BY Room, PTL

\* begin_refresh, when it starts a refresh, starts a flight of a key that has
\* none and drops at most one document, an expired one of another key.
LEMMA BeginTakesOff ==
    ASSUME IInv, IInv', NEW k \in Keys, NEW now \in 0 .. clock,
           NEW unknown_kid \in BOOLEAN, BeginStep(k, now, unknown_kid),
           begin_result(k, now, unknown_kid, Cooldown) = "started"
    PROVE  \E f \in Flights' \ Flights :
                /\ f.key = k
                /\ ~\E g \in Flights : g.key = k
                /\ Flights' = Flights \cup {f}
                /\ \/ Docs' = Docs
                   \/ \E d \in Docs : /\ d.key # k /\ d.stale_until <= clock
                                      /\ ~\E g \in Flights : g.key = d.key
                                      /\ Docs' = Docs \ {d}
<1> DEFINE f == [key |-> k, refresh |-> begin_token(k, now)]
<1>0. TypeOK /\ now \in Time /\ CacheTypeOK
  BY TokenTypes, Zenon DEF IInv, TypeOK
<1>1. PICK i \in Slots :
      /\ \/ same_key(entries[i], k) /\ ~entries[i].refreshing
         \/ /\ Existing(k) = {}
            /\ ~entries[i].occupied \/ i \in Evictable(now)
      /\ \A j \in Slots \ {i} : entries'[j] = entries[j]
      /\ entries'[i] = started_entry(entries[i], k, now, unknown_kid, next_serial)
  BY <1>0, BeginEffect, Zenon DEF BeginStep
<1>2. issued' = issued \cup {f} /\ settled' = settled /\ f \notin issued /\ f.key = k
  <2>1. issued' = issued \cup {f} /\ settled' = settled
    BY Zenon DEF BeginStep
  <2>2. f.refresh.serial = next_serial /\ next_serial \in Int
    BY <1>0 DEF begin_token, CacheTypeOK, Serials
  <2>3. \A t \in issued : t.refresh.serial < next_serial
    BY Zenon DEF IInv, SerialsInOrder
  <2> QED BY <2>1, <2>2, <2>3
<1>3. f \in Flights' \ Flights /\ Flights' = Flights \cup {f}
  BY <1>0, <1>2, TokenTypes, Zenon DEF Flights
<1> HIDE DEF f
<1>4. ~\E g \in Flights : g.key = k
  <2> SUFFICES ASSUME NEW g \in Flights, g.key = k PROVE FALSE
    BY Zenon
  <2>1. /\ owns(g.refresh) /\ g.refresh.entry_index \in Slots
        /\ entries[g.refresh.entry_index].key = k
    BY <1>0, TokenTypes, Zenon DEF IInv, PendingKept, Flights
  <2>2. g.refresh.entry_index \in Existing(k)
    BY <2>1, Zenon DEF Existing, same_key, owns
  <2>3. same_key(entries[i], k) /\ ~entries[i].refreshing
    BY <1>1, <2>2, Zenon
  <2> QED BY <1>1, <2>3, FlightEntry, Zenon DEF same_key
<1>5. entries[i] \in Entry
  BY <1>0, <1>1, Zenon DEF CacheTypeOK
<1>6. Rest(i)' = Rest(i)
  BY <1>1, RestKept, Zenon
<1>7. CASE same_key(entries[i], k)
  <2>1. /\ entries'[i].occupied /\ entries'[i].key = entries[i].key /\ entries[i].occupied
        /\ entries'[i].has_value = entries[i].has_value
        /\ entries'[i].payload = entries[i].payload
        /\ entries'[i].fresh_until = entries[i].fresh_until
        /\ entries'[i].stale_until = entries[i].stale_until
    BY <1>0, <1>1, <1>5, <1>7, RestartedEntry, SMTT(30) DEF same_key
  <2>2. document(entries'[i]) = document(entries[i])
    BY <2>1, Zenon DEF document
  <2>3. i \in Documented' <=> i \in Documented
    BY <1>1, <2>1, Zenon DEF Documented
  <2>4. Docs' = Docs
    BY <1>1, <1>6, <2>2, <2>3, DocsSplit
  <2> QED BY <1>2, <1>3, <1>4, <2>4, ZenonT(60)
<1>8. CASE Existing(k) = {}
  <2>1. ~same_key(entries[i], k)
    BY <1>1, <1>8, Zenon DEF Existing
  <2>2. i \notin Documented'
    BY <1>1, <1>5, <2>1, StartedValue DEF Documented
  <2>3. Docs' = Rest(i)
    BY <1>1, <1>6, <2>2, DocsSplit, Zenon
  <2>4. CASE ~entries[i].occupied
    <3>1. Docs = Rest(i)
      BY <1>1, <2>4, DocsSplit, Zenon DEF Documented
    <3> QED BY <1>2, <1>3, <1>4, <2>3, <3>1, Zenon
  <2>5. CASE entries[i].occupied /\ i \in Evictable(now)
    <3>1. i \in Documented
      BY <1>1, <2>5, Zenon DEF IInv, NoValuelessResidue, Documented, Evictable
    <3>2. document(entries[i]) \in Docs /\ Docs' = Docs \ {document(entries[i])}
      BY <1>1, <2>3, <2>5, <3>1, RestOfKey, Zenon DEF IInv, Docs
    <3>3. /\ document(entries[i]).key = entries[i].key
          /\ document(entries[i]).stale_until = entries[i].stale_until
      BY Zenon DEF document
    <3>4. entries[i].key # k
      BY <2>1, <2>5, Zenon DEF same_key
    <3>5. ~\E g \in Flights : g.key = entries[i].key
      BY <1>1, <2>5, FlightEntry, Zenon DEF Evictable
    <3>6. entries[i].stale_until <= clock
      <4>1. entries[i].stale_until \in Int /\ now \in Int /\ clock \in Int
        BY <1>0, <1>5 DEF Entry, Time, TypeOK
      <4> QED BY <2>5, <4>1 DEF Evictable
    <3> QED BY <1>2, <1>3, <1>4, <3>2, <3>3, <3>4, <3>5, <3>6, Zenon
  <2> QED BY <1>1, <2>1, <2>4, <2>5, Zenon
<1> QED BY <1>1, <1>7, <1>8, Zenon

\* complete_refresh publishes a document whose lifetime starts no later than
\* now and whose grace starts at its end; bounded_add only shortens them.
LEMMA PublishedLifetime ==
    ASSUME NEW e \in Entry, NEW now \in Time, NEW ttl \in Nat, NEW grace \in Nat,
           NEW required, NEW payload,
           NEW d, d = document(published_entry(e, now, required, ttl, grace, payload))
    PROVE  /\ d.key = e.key /\ d.payload = payload
           /\ d.fresh_until \in Time /\ d.fresh_until <= now + ttl
           /\ d.fresh_until <= d.stale_until /\ d.stale_until <= d.fresh_until + grace
<1>1. ASSUME NEW v \in Time, NEW n \in Nat
      PROVE  /\ bounded_add(v, n) \in Time /\ v <= bounded_add(v, n)
             /\ bounded_add(v, n) <= v + n
  BY CacheAssumption DEF bounded_add, Time
<1> DEFINE until == bounded_add(now, ttl)
<1>2. /\ d.key = e.key /\ d.payload = payload /\ d.fresh_until = until
      /\ d.stale_until = IF required THEN until ELSE bounded_add(until, grace)
  BY Zenon DEF document, published_entry, Entry
<1>3. until \in Time /\ until <= now + ttl
  BY <1>1, Zenon
<1> HIDE DEF until
<1>4. until <= bounded_add(until, grace) /\ bounded_add(until, grace) <= until + grace
  BY <1>1, <1>3, Zenon
<1>5. until <= until /\ until <= until + grace
  BY <1>3, CacheAssumption DEF Time
<1> QED BY <1>2, <1>3, <1>4, <1>5, Zenon

\* complete_refresh with the token of a flight lands it.
LEMMA CompleteLands ==
    ASSUME IInv, NEW t \in issued, NEW now \in 0 .. clock, NEW o \in Outcomes,
           CompleteStep(t, now, o), owns(t.refresh)
    PROVE  /\ t \in Flights \ Flights' /\ Flights' = Flights \ {t}
           /\ \/ Docs' = Docs
              \/ Docs' = {d \in Docs : d.key # t.key}
              \/ \E d \in Docs' :
                    /\ d.key = t.key /\ d.payload \in Payloads
                    /\ \E ttl \in Ttls : d.fresh_until <= clock + ttl
                    /\ d.fresh_until <= d.stale_until
                    /\ d.stale_until <= d.fresh_until + Grace
                    /\ Docs' = {x \in Docs : x.key # t.key} \cup {d}
<1>0. /\ TypeOK /\ now \in Time
      /\ o.ttl \in Ttls /\ o.ttl \in Nat
      /\ o.payload \in Payloads \cup {NoPayload}
  BY TokenTypes, ClientAssumption, Zenon DEF IInv, Outcomes
<1>1. t \in Flights \ Flights' /\ Flights' = Flights \ {t}
  <2>1. t \notin settled
    BY Zenon DEF IInv, SettledIsObsolete
  <2>2. issued' = issued /\ settled' = settled \cup {t}
    BY Zenon DEF CompleteStep
  <2> QED BY <2>1, <2>2, Zenon DEF Flights
<1>2. PICK i \in Slots :
            /\ i = t.refresh.entry_index
            /\ \A j \in Slots \ {i} : entries'[j] = entries[j]
            /\ entries'[i] = completed_entry(entries[i], now, o, Grace)
  BY <1>0, CompleteEffect, ClientAssumption DEF TypeOK, CompleteStep
<1>3. /\ entries[i] \in Entry /\ entries[i].occupied /\ entries[i].key = t.key
  BY <1>0, <1>1, <1>2, Zenon DEF TypeOK, CacheTypeOK, owns, IInv, PendingKept, Flights
<1>4. Rest(i)' = Rest(i) /\ Rest(i) = {d \in Docs : d.key # t.key}
  BY <1>2, <1>3, RestKept, RestOfKey DEF IInv
<1>5. CASE ~acceptable(o) \/ ~o.success
  <2>1. entries'[i] = released_entry(entries[i])
    BY <1>2, <1>5, Zenon DEF completed_entry
  <2>2. CASE entries[i].has_value
    <3>1. /\ entries'[i].occupied /\ entries'[i].has_value
          /\ document(entries'[i]) = document(entries[i])
      BY <1>3, <2>1, <2>2, Zenon DEF released_entry, Entry, document
    <3>2. i \in Documented /\ i \in Documented'
      BY <1>3, <2>2, <3>1, Zenon DEF Documented
    <3> QED BY <1>1, <1>4, <3>1, <3>2, DocsSplit, Zenon
  <2>3. CASE ~entries[i].has_value
    <3>1. i \notin Documented /\ i \notin Documented'
      BY <2>1, <2>3 DEF released_entry, ZeroEntry, Documented
    <3> QED BY <1>1, <1>4, <3>1, DocsSplit, Zenon
  <2> QED BY <2>2, <2>3, Zenon
<1>6. CASE acceptable(o) /\ o.success /\ ~o.cacheable
  <2>1. i \notin Documented'
    BY <1>2, <1>6 DEF completed_entry, ZeroEntry, Documented
  <2> QED BY <1>1, <1>4, <2>1, DocsSplit, Zenon
<1>7. CASE acceptable(o) /\ o.success /\ o.cacheable
  <2>1. entries'[i] = published_entry(entries[i], now, o.revalidation_required,
                                      o.ttl, Grace, o.payload)
    BY <1>2, <1>7, Zenon DEF completed_entry
  <2>2. PICK d : d = document(entries'[i])
    BY Zenon
  <2>3. /\ d.key = entries[i].key /\ d.payload = o.payload
        /\ d.fresh_until \in Time /\ d.fresh_until <= now + o.ttl
        /\ d.fresh_until <= d.stale_until /\ d.stale_until <= d.fresh_until + Grace
    BY <1>0, <1>3, <2>1, <2>2, PublishedLifetime, ClientAssumption
  <2>4. d.fresh_until <= clock + o.ttl
    <3>1. now \in Int /\ clock \in Int /\ now <= clock /\ d.fresh_until \in Int
      BY <1>0, <2>3 DEF TypeOK, Time
    <3> QED BY <1>0, <2>3, <3>1
  <2>5. d.payload \in Payloads
    BY <1>0, <1>7, <2>3, Zenon DEF acceptable
  <2>6. i \in Documented'
    BY <1>3, <2>1, Zenon DEF published_entry, Documented, Entry
  <2>7. Docs' = {x \in Docs : x.key # t.key} \cup {d}
    BY <1>4, <2>2, <2>6, DocsSplit, Zenon
  <2>8. d \in Docs'
    BY <2>7, Zenon
  <2> QED BY <1>0, <1>1, <1>3, <2>3, <2>4, <2>5, <2>7, <2>8, Zenon
<1> QED BY <1>5, <1>6, <1>7, Zenon

\* Every step of the cache is a step of SingleFlight or none.
LEMMA StepImplements ==
    ASSUME IInv, IInv', [Next]_vars
    PROVE  [Promise!Next]_(Promise!vars)
<1>0. TypeOK
  BY Zenon DEF IInv
<1>1. ASSUME NEW k \in Keys, NEW now \in 0 .. clock, NEW allow_stale \in BOOLEAN,
             LookupStep(k, now, allow_stale)
      PROVE  UNCHANGED Promise!vars
  <2>1. /\ \A i \in Slots : entries'[i] = [entries[i] EXCEPT
                                    !.last_used = entries'[i].last_used]
        /\ \A i \in Slots : entries[i] \in Entry
    BY <1>0, <1>1, TokenTypes, LookupEffect, Zenon DEF TypeOK, CacheTypeOK, LookupStep
  <2>2. Docs' = Docs
    BY <2>1, DocsKept, Zenon DEF Entry
  <2> QED BY <1>1, <2>2, Zenon DEF LookupStep, Docs, Promise!vars
<1>2. ASSUME NEW k \in Keys, NEW now \in 0 .. clock, NEW unknown_kid \in BOOLEAN,
             BeginStep(k, now, unknown_kid)
      PROVE  Promise!Next \/ UNCHANGED Promise!vars
  <2>1. CASE begin_result(k, now, unknown_kid, Cooldown) # "started"
    <3>1. entries' = entries /\ issued' = issued /\ settled' = settled /\ clock' = clock
      BY <1>2, <2>1, Zenon DEF BeginStep, BeginRefresh, cacheVars
    <3> QED BY <3>1, Zenon DEF Promise!vars, Documented
  <2>2. CASE begin_result(k, now, unknown_kid, Cooldown) = "started"
    <3>1. PICK f \in Flights' \ Flights :
                /\ f.key = k
                /\ ~\E g \in Flights : g.key = k
                /\ Flights' = Flights \cup {f}
                /\ \/ Docs' = Docs
                   \/ \E d \in Docs : /\ d.key # k /\ d.stale_until <= clock
                                      /\ ~\E g \in Flights : g.key = d.key
                                      /\ Docs' = Docs \ {d}
      BY <1>2, <2>2, BeginTakesOff, Zenon
    <3>2. RoomOK'
      BY RoomNext, Zenon
    <3>3. clock' = clock
      BY <1>2, Zenon DEF BeginStep
    <3>4. Promise!TakeOff(f)
      <4>1. ~Promise!Flying(f.key)
        BY <3>1, Zenon DEF Promise!Flying, Flights
      <4>0. \A S : Promise!Cardinality(S) = Cardinality(S)
        BY Zenon DEF Promise!Cardinality, Cardinality, Promise!IsFiniteSet, IsFiniteSet
      <4>2. Promise!Cardinality(Promise!KeysOf(Docs') \cup Promise!KeysOf(Flights')) <= Capacity
        BY <3>2, <4>0, Zenon DEF Promise!KeysOf, RoomOK
      <4>3. \/ Docs' = Docs
            \/ \E d \in Docs : /\ d.key # f.key /\ ~Promise!Flying(d.key)
                               /\ d.stale_until <= clock /\ Docs' = Docs \ {d}
        BY <3>1, Zenon DEF Promise!Flying, Flights
      <4> QED
        BY <3>1, <3>3, <4>1, <4>2, <4>3, Zenon DEF Promise!TakeOff, Docs, Flights
    <3> QED BY <3>1, <3>4, Zenon DEF Promise!Next, Flights
  <2> QED BY <2>1, <2>2, Zenon
<1>3. ASSUME NEW t \in issued, NEW now \in 0 .. clock, NEW o \in Outcomes,
             CompleteStep(t, now, o)
      PROVE  Promise!Next \/ UNCHANGED Promise!vars
  <2>1. CASE ~owns(t.refresh)
    <3>1. entries' = entries /\ issued' = issued /\ settled' = settled /\ clock' = clock
      BY <1>3, <2>1, Zenon DEF CompleteStep, CompleteRefresh
    <3> QED BY <3>1, Zenon DEF Promise!vars, Documented
  <2>2. CASE owns(t.refresh)
    <3>1. clock' = clock
      BY <1>3, Zenon DEF CompleteStep
    <3>2. t \in Flights \ Flights' /\ Promise!Land(t)
      BY <1>3, <2>2, <3>1, CompleteLands, Zenon DEF Promise!Land, Promise!Brings, Docs, Flights
    <3> QED BY <3>2, Zenon DEF Promise!Next, Flights
  <2> QED BY <2>1, <2>2, Zenon
<1>4. CASE RestartStep
  <2>1. Docs' = {} /\ Flights' = {} /\ clock' = clock
    BY <1>4, Zenon DEF RestartStep, Docs, Documented, ZeroEntry, Flights
  <2> QED BY <2>1, Zenon DEF Promise!Next, Promise!Restart, Docs, Flights
<1>5. CASE Tick
  <2>1. entries' = entries /\ issued' = issued /\ settled' = settled /\ clock' = clock + 1
    BY <1>5, Zenon DEF Tick
  <2> QED BY <2>1, Zenon DEF Promise!Next, Promise!Tick, Documented
<1>6. CASE UNCHANGED vars
  BY <1>6, Zenon DEF vars, Promise!vars, Documented
<1> QED BY <1>1, <1>2, <1>3, <1>4, <1>5, <1>6, Zenon DEF Next

(* The array of entries implements the abstract cache for any number of    *)
(* entries, keys and callers: begin_refresh takes off, complete_refresh    *)
(* lands its own flight, and everything else leaves documents and flights  *)
(* as they are.                                                            *)
THEOREM ClientImplements == Spec => ImplementsSingleFlight
<1>1. Init => Promise!Init
  BY DEF Init, CacheInit, ZeroEntry, Documented, Promise!Init
<1>2. IInv /\ IInv' /\ [Next]_vars => [Promise!Next]_(Promise!vars)
  BY StepImplements, Zenon
<1> QED
  BY <1>1, <1>2, ClientInvariant, PTL DEF Spec, ImplementsSingleFlight, Promise!Spec
=============================================================================
