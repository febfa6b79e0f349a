--------------------------- MODULE IssuerKeyProofs --------------------------
(***************************************************************************)
(* Proofs about the validations of many backends on one cache: for every   *)
(* number of backends, policies, key identifiers, documents and entries,   *)
(* and for every wait timeout, grace, cooldown and document lifetime.      *)
(***************************************************************************)
EXTENDS IssuerKey, CacheStateProofs

-----------------------------------------------------------------------------
(* The inductive invariant *)

MetadataDocs(p) ==
    {d \in Payloads : d.source = Origin("metadata", p, NoUrl) /\ d.body \in Urls}

JwksDocs(p, u) == {d \in Payloads : d.source = Origin("jwks", p, u)}

\* Every entry holds a document of the kind, policy and URL of its key.
EntriesHoldDocs ==
    \A i \in Slots : entries[i].has_value =>
        \/ \E p \in Policies : /\ entries[i].key = MetaKey(p)
                               /\ entries[i].payload \in MetadataDocs(p)
        \/ \E p \in Policies, u \in Urls :
                /\ entries[i].key = JwksKey(p, u)
                /\ entries[i].payload \in JwksDocs(p, u)

OnMetadata == {"meta_lookup", "meta_begin", "meta_wait", "meta_http"}
OnJwks == {"jwks_begin", "jwks_wait", "jwks_http"}

\* The document selected is one of the JWKS URL that the metadata names.
SelectedOK(c) ==
    /\ c.metadata \in MetadataDocs(c.policy)
    /\ c.selected \in JwksDocs(c.policy, c.metadata.body)
    /\ Verdict[c.selected.body][c.kid] = "ok"

\* What the local variables of a call hold at each place of the function.
CallOK(l, c) ==
    /\ l \in OnMetadata =>
            c.response = NoPayload /\ ~c.from_stale /\ ~c.accepted
    /\ l = "meta_complete" =>
            /\ ~c.from_stale
            /\ ~c.accepted
            /\ c.response # NoPayload =>
                    /\ c.response.source = Origin("metadata", c.policy, NoUrl)
                    /\ c.response.body \in Urls \cup {NoUrl}
    /\ l = "meta_notify" =>
            /\ c.response = NoPayload
            /\ ~c.from_stale
            /\ ~c.accepted
            /\ c.metadata # NoPayload => c.metadata \in MetadataDocs(c.policy)
    /\ l = "jwks_lookup" =>
            /\ c.metadata \in MetadataDocs(c.policy)
            /\ c.response = NoPayload
            /\ ~c.from_stale
            /\ ~c.accepted
    /\ l \in OnJwks \cup {"jwks_complete"} =>
            /\ c.metadata \in MetadataDocs(c.policy)
            /\ ~c.accepted
            /\ c.from_stale => SelectedOK(c)
    /\ l \in OnJwks => c.response = NoPayload
    /\ l = "jwks_complete" /\ c.response # NoPayload =>
            c.response \in JwksDocs(c.policy, c.metadata.body)
    /\ c.accepted => SelectedOK(c)

CallsOK == \A b \in Backends : CallOK(pc[b], call[b])

IInv ==
    /\ TypeOK
    /\ EntriesHoldDocs
    /\ CallsOK
    /\ OwnerKeepsEntry
    /\ RefreshHasOneOwner

-----------------------------------------------------------------------------
(* Types *)

(* The idle call is a call that holds nothing.                             *)
LEMMA IdleCallOK ==
    /\ IdleCall \in Call
    /\ \A l \in {"idle", "meta_notify", "jwks_notify"} : CallOK(l, IdleCall)
<1>1. /\ (CHOOSE p \in Policies : TRUE) \in Policies
      /\ (CHOOSE k \in Kids : TRUE) \in Kids
  BY IssuerAssumption, Zenon
<1>2. 0 \in 0 .. Horizon /\ 0 \in Time
  BY SharedAssumption, CacheAssumption DEF Time
<1>3. IdleCall \in Call
  BY <1>1, <1>2, Zenon DEF IdleCall, NewCall, Call
<1>4. /\ IdleCall.response = NoPayload
      /\ IdleCall.metadata = NoPayload
      /\ ~IdleCall.from_stale
      /\ ~IdleCall.accepted
  BY Zenon DEF IdleCall, NewCall
<1> QED
  BY <1>3, <1>4, Zenon DEF CallOK, OnMetadata, OnJwks

(* A new call is a call that holds nothing.                                *)
LEMMA NewCallOK ==
    ASSUME NEW p \in Policies, NEW k \in Kids, NEW now \in 0 .. Horizon
    PROVE  /\ NewCall(p, k, now) \in Call
           /\ CallOK("meta_lookup", NewCall(p, k, now))
<1>1. now \in Time
  BY SharedAssumption, CacheAssumption DEF Time
<1>2. NewCall(p, k, now) \in Call
  BY <1>1, Zenon DEF NewCall, Call
<1>3. /\ NewCall(p, k, now).response = NoPayload
      /\ ~NewCall(p, k, now).from_stale
      /\ ~NewCall(p, k, now).accepted
  BY Zenon DEF NewCall
<1> QED
  BY <1>2, <1>3, Zenon DEF CallOK, OnMetadata, OnJwks

(* The keys the backends use are cache keys, and metadata and JWKS keys    *)
(* of different policies and URLs differ.                                  *)
LEMMA KeyFacts ==
    /\ \A p \in Policies : MetaKey(p) \in Keys
    /\ \A p \in Policies, u \in Urls : JwksKey(p, u) \in Keys
    /\ \A p, q \in Policies : MetaKey(p) = MetaKey(q) => p = q
    /\ \A p, q \in Policies, u, v \in Urls :
            JwksKey(p, u) = JwksKey(q, v) => p = q /\ u = v
    /\ \A p, q \in Policies, u \in Urls : MetaKey(p) # JwksKey(q, u)
<1>1. /\ \A p \in Policies : MetaKey(p) \in Keys
      /\ \A p \in Policies, u \in Urls : JwksKey(p, u) \in Keys
  BY IssuerAssumption DEF AllKeys
<1>2. ASSUME NEW p, NEW q, MetaKey(p) = MetaKey(q)
      PROVE  p = q
  BY <1>2, Zenon DEF MetaKey, Origin
<1>3. ASSUME NEW p, NEW q, NEW u, NEW v, JwksKey(p, u) = JwksKey(q, v)
      PROVE  p = q /\ u = v
  BY <1>3, Zenon DEF JwksKey, Origin
<1>4. ASSUME NEW p, NEW q, NEW u
      PROVE  MetaKey(p) # JwksKey(q, u)
  <2>1. MetaKey(p).resource = "metadata" /\ JwksKey(q, u).resource = "jwks"
    BY Zenon DEF MetaKey, JwksKey, Origin
  <2> QED
    BY <2>1, Zenon
<1> QED
  BY <1>1, <1>2, <1>3, <1>4

(* The initial state satisfies the invariant.                              *)
LEMMA IssuerInit == Init => IInv
<1> SUFFICES ASSUME Init PROVE IInv
  BY Zenon
<1> USE CacheAssumption, SharedAssumption
<1>1. /\ entries = [i \in Slots |-> ZeroEntry]
      /\ next_serial = 1
      /\ clock = 0
      /\ cv = {}
      /\ wait = [b \in Backends |-> "none"]
      /\ elapsed = [b \in Backends |-> 0]
      /\ asleep_at = [b \in Backends |-> 0]
      /\ pc = [b \in Backends |-> "idle"]
      /\ call = [b \in Backends |-> IdleCall]
      /\ refresh = [b \in Backends |-> NoRefresh]
  BY Zenon DEF Init, SharedInit, CacheInit
<1>2. TypeOK
  <2>1. CacheTypeOK
    BY <1>1, ZeroEntryType DEF CacheTypeOK, Serials
  <2>2. SharedTypeOK
    BY <1>1, <2>1 DEF SharedTypeOK, WaitStages, Time
  <2> QED
    BY <1>1, <2>2, IdleCallOK, Zenon DEF TypeOK, Locations
<1>3. \A i \in Slots : ~entries[i].refreshing /\ ~entries[i].has_value
  BY <1>1, Zenon DEF ZeroEntry
<1>4. EntriesHoldDocs
  BY <1>3, Zenon DEF EntriesHoldDocs
<1>5. CallsOK
  BY <1>1, IdleCallOK, Zenon DEF CallsOK
<1>6. OwnerKeepsEntry /\ RefreshHasOneOwner
  BY <1>1, <1>3, Zenon DEF OwnerKeepsEntry, RefreshHasOneOwner, Holds
<1> QED
  BY <1>2, <1>4, <1>5, <1>6, Zenon DEF IInv

-----------------------------------------------------------------------------
(* What the steps of one backend do to the invariant *)

\* Of each entry at most the time of last use changes.
SameEntries ==
    \A i \in Slots : entries'[i] = [entries[i] EXCEPT
                                        !.last_used = entries'[i].last_used]

\* The other backends do nothing.
OthersStay(b) ==
    \A a \in Backends \ {b} :
        pc'[a] = pc[a] /\ call'[a] = call[a] /\ refresh'[a] = refresh[a]

(* Unchanged fields, for the provers.                                      *)
LEMMA SameFields ==
    ASSUME TypeOK, SameEntries, NEW i \in Slots
    PROVE  /\ entries'[i].occupied = entries[i].occupied
           /\ entries'[i].key = entries[i].key
           /\ entries'[i].has_value = entries[i].has_value
           /\ entries'[i].payload = entries[i].payload
           /\ entries'[i].refreshing = entries[i].refreshing
           /\ entries'[i].refresh_serial = entries[i].refresh_serial
<1>1. entries[i] \in Entry
  BY Zenon DEF TypeOK, SharedTypeOK, CacheTypeOK
<1> QED
  BY Zenon, <1>1 DEF SameEntries, Entry

(* A step of b that leaves the entries as they are, and b's refresh if it  *)
(* owns one, preserves the invariant.                                      *)
LEMMA QuietBackend ==
    ASSUME IInv, TypeOK', SameEntries, NEW b \in Backends, OthersStay(b),
           CallOK(pc'[b], call'[b]),
           Holds(b)' <=> Holds(b),
           Holds(b) => refresh'[b] = refresh[b] /\ HeldKey(b)' = HeldKey(b)
    PROVE  IInv'
<1>0. TypeOK
  BY Zenon DEF IInv
<1>1. EntriesHoldDocs'
  <2> SUFFICES ASSUME NEW i \in Slots, entries'[i].has_value
               PROVE  \/ \E p \in Policies :
                            /\ entries'[i].key = MetaKey(p)
                            /\ entries'[i].payload \in MetadataDocs(p)
                      \/ \E p \in Policies, u \in Urls :
                            /\ entries'[i].key = JwksKey(p, u)
                            /\ entries'[i].payload \in JwksDocs(p, u)
    BY Zenon DEF EntriesHoldDocs
  <2>1. /\ entries[i].has_value
        /\ entries'[i].key = entries[i].key
        /\ entries'[i].payload = entries[i].payload
    BY <1>0, SameFields, Zenon
  <2> QED
    BY <2>1, Zenon DEF IInv, EntriesHoldDocs
<1>2. CallsOK'
  BY Zenon DEF IInv, CallsOK, OthersStay
<1>3. ASSUME NEW a \in Backends
      PROVE  /\ Holds(a)' <=> Holds(a)
             /\ Holds(a) => refresh'[a] = refresh[a] /\ HeldKey(a)' = HeldKey(a)
  <2>1. CASE a = b
    BY <2>1, Zenon
  <2>2. CASE a # b
    BY <2>2, Zenon DEF OthersStay, Holds, HeldKey, MetadataKey, JwksDocKey
  <2> QED
    BY <2>1, <2>2, Zenon
<1>4. OwnerKeepsEntry'
  <2> SUFFICES ASSUME NEW a \in Backends, Holds(a)
               PROVE  /\ owns(refresh[a])'
                      /\ entries'[refresh'[a].entry_index].key = HeldKey(a)'
    BY <1>3, Zenon DEF OwnerKeepsEntry
  <2>1. /\ owns(refresh[a])
        /\ entries[refresh[a].entry_index].key = HeldKey(a)
        /\ refresh[a].entry_index \in Slots
    BY Zenon DEF IInv, OwnerKeepsEntry, owns
  <2> QED
    BY <1>0, <1>3, <2>1, SameFields DEF owns
<1>5. RefreshHasOneOwner'
  <2>1. ASSUME NEW i \in Slots, entries'[i].refreshing
        PROVE  \E a \in Backends : Holds(a)' /\ refresh'[a].entry_index = i
    <3>1. entries[i].refreshing
      BY <1>0, <2>1, SameFields, Zenon
    <3>2. PICK a \in Backends : Holds(a) /\ refresh[a].entry_index = i
      BY <3>1, Zenon DEF IInv, RefreshHasOneOwner
    <3> QED
      BY <1>3, <3>2, Zenon
  <2>2. ASSUME NEW a \in Backends, NEW c \in Backends,
               Holds(a)', Holds(c)',
               refresh'[a].entry_index = refresh'[c].entry_index
        PROVE  a = c
    <3>1. Holds(a) /\ Holds(c) /\ refresh[a].entry_index = refresh[c].entry_index
      BY <1>3, <2>2, Zenon
    <3> QED
      BY <3>1, Zenon DEF IInv, RefreshHasOneOwner
  <2> QED
    BY <2>1, <2>2, Zenon DEF RefreshHasOneOwner
<1> QED
  BY <1>1, <1>2, <1>4, <1>5, Zenon DEF IInv

(* A step in which b becomes the owner of a refresh of k preserves the     *)
(* invariant: the entry it takes is in nobody's progress.                  *)
LEMMA BeginBackend ==
    ASSUME IInv, TypeOK', NEW b \in Backends, OthersStay(b),
           CallOK(pc'[b], call'[b]),
           ~Holds(b), Holds(b)',
           NEW k \in Keys, HeldKey(b)' = k,
           NEW now \in Time, NEW unknown_kid \in BOOLEAN, NEW cooldown,
           begin_result(k, now, unknown_kid, cooldown) = "started",
           BeginRefresh(k, now, unknown_kid, cooldown),
           refresh'[b] = begin_token(k, now)
    PROVE  IInv'
<1>0. CacheTypeOK /\ next_serial \in Serials
  BY Zenon DEF IInv, TypeOK, SharedTypeOK, CacheTypeOK
<1>p. PICK i : i = find_refresh_slot(k, now)
  BY Zenon
<1>1. /\ i \in Slots
      /\ \/ same_key(entries[i], k) /\ ~entries[i].refreshing
         \/ ~entries[i].occupied \/ i \in Evictable(now)
      /\ \A j \in Slots \ {i} : entries'[j] = entries[j]
      /\ entries'[i] = started_entry(entries[i], k, now, unknown_kid, next_serial)
  BY SMTT(30), <1>0, <1>p, BeginEffect
<1>2. refresh'[b].entry_index = i /\ refresh'[b].serial = next_serial
  BY SMTT(30), <1>p DEF begin_token
<1>3. /\ entries'[i].occupied /\ entries'[i].refreshing
      /\ entries'[i].key = k
      /\ entries'[i].refresh_serial = next_serial
  BY SMTT(30), <1>0, <1>1, StartedEntry DEF CacheTypeOK
<1>4. ~(entries[i].occupied /\ entries[i].refreshing)
  BY Zenon, <1>1 DEF Evictable
<1>5. ASSUME NEW a \in Backends \ {b}
      PROVE  /\ Holds(a)' <=> Holds(a)
             /\ Holds(a) => /\ refresh'[a] = refresh[a]
                            /\ HeldKey(a)' = HeldKey(a)
                            /\ owns(refresh[a])
                            /\ entries[refresh[a].entry_index].key = HeldKey(a)
                            /\ refresh[a].entry_index \in Slots \ {i}
  <2>1. /\ Holds(a)' <=> Holds(a)
        /\ refresh'[a] = refresh[a]
        /\ HeldKey(a)' = HeldKey(a)
    BY Zenon DEF OthersStay, Holds, HeldKey, MetadataKey, JwksDocKey
  <2>2. Holds(a) => /\ owns(refresh[a])
                    /\ entries[refresh[a].entry_index].key = HeldKey(a)
    BY Zenon DEF IInv, OwnerKeepsEntry
  <2>3. Holds(a) => refresh[a].entry_index \in Slots \ {i}
    BY <1>4, <2>2, Zenon DEF owns
  <2> QED
    BY Zenon, <2>1, <2>2, <2>3
<1>6. EntriesHoldDocs'
  <2> SUFFICES ASSUME NEW j \in Slots, entries'[j].has_value
               PROVE  \/ \E p \in Policies :
                            /\ entries'[j].key = MetaKey(p)
                            /\ entries'[j].payload \in MetadataDocs(p)
                      \/ \E p \in Policies, u \in Urls :
                            /\ entries'[j].key = JwksKey(p, u)
                            /\ entries'[j].payload \in JwksDocs(p, u)
    BY Zenon DEF EntriesHoldDocs
  <2>1. /\ entries[j].has_value
        /\ entries'[j].key = entries[j].key
        /\ entries'[j].payload = entries[j].payload
    <3>1. CASE j # i
      BY <1>1, <3>1, Zenon
    <3>2. CASE j = i
      <4>1. entries[i] \in Entry
        BY Zenon, <1>0, <1>1 DEF CacheTypeOK
      <4>2. /\ same_key(entries[i], k)
            /\ entries[i].has_value
            /\ entries'[i].payload = entries[i].payload
        BY <1>1, <3>2, <4>1, StartedValue
      <4> QED
        BY <1>3, <3>2, <4>2, Zenon DEF same_key
    <3> QED
      BY <3>1, <3>2, Zenon
  <2> QED
    BY <2>1, Zenon DEF IInv, EntriesHoldDocs
<1>7. CallsOK'
  BY Zenon DEF IInv, CallsOK, OthersStay
<1>8. OwnerKeepsEntry'
  <2> SUFFICES ASSUME NEW a \in Backends, Holds(a)'
               PROVE  /\ owns(refresh[a])'
                      /\ entries'[refresh'[a].entry_index].key = HeldKey(a)'
    BY Zenon DEF OwnerKeepsEntry
  <2>1. CASE a = b
    <3>1. next_serial # 0
      BY SMTT(30), <1>0 DEF Serials
    <3> QED
      BY Zenon, <1>1, <1>2, <1>3, <2>1, <3>1 DEF owns
  <2>2. CASE a # b
    <3>1. entries'[refresh[a].entry_index] = entries[refresh[a].entry_index]
      BY Zenon, <1>1, <1>5, <2>2
    <3> QED
      BY SMTT(30), <1>5, <2>2, <3>1 DEF owns
  <2> QED
    BY <2>1, <2>2, Zenon
<1>9. RefreshHasOneOwner'
  <2>1. ASSUME NEW j \in Slots, entries'[j].refreshing
        PROVE  \E a \in Backends : Holds(a)' /\ refresh'[a].entry_index = j
    <3>1. CASE j = i
      BY Zenon, <1>2, <3>1
    <3>2. CASE j # i
      <4>1. entries[j].refreshing
        BY Zenon, <1>1, <2>1, <3>2
      <4>2. PICK a \in Backends : Holds(a) /\ refresh[a].entry_index = j
        BY <4>1, Zenon DEF IInv, RefreshHasOneOwner
      <4> QED
        BY Zenon, <1>5, <4>2
    <3> QED
      BY <3>1, <3>2, Zenon
  <2>2. ASSUME NEW a \in Backends, NEW c \in Backends,
               Holds(a)', Holds(c)',
               refresh'[a].entry_index = refresh'[c].entry_index
        PROVE  a = c
    <3>1. CASE a # b /\ c # b
      BY Zenon, <1>5, <2>2, <3>1 DEF IInv, RefreshHasOneOwner
    <3>2. CASE a = b \/ c = b
      BY Zenon, <1>2, <1>5, <2>2, <3>2
    <3> QED
      BY Zenon, <3>1, <3>2
  <2> QED
    BY Zenon, <2>1, <2>2 DEF RefreshHasOneOwner
<1> QED
  BY <1>6, <1>7, <1>8, <1>9, Zenon DEF IInv

\* d is a document that may be stored under k.
FitsKey(d, k) ==
    \/ \E p \in Policies : k = MetaKey(p) /\ d \in MetadataDocs(p)
    \/ \E p \in Policies, u \in Urls : k = JwksKey(p, u) /\ d \in JwksDocs(p, u)

(* A step in which b completes the refresh it owns preserves the           *)
(* invariant: no other backend's refresh is at that entry.                 *)
LEMMA CompleteBackend ==
    ASSUME IInv, TypeOK', NEW b \in Backends, OthersStay(b),
           CallOK(pc'[b], call'[b]),
           Holds(b), ~Holds(b)',
           NEW now \in Time, NEW grace \in Nat, NEW outcome,
           outcome.ttl \in Nat,
           outcome.payload \in Payloads \cup {NoPayload},
           outcome.success => FitsKey(outcome.payload, HeldKey(b)),
           CompleteRefresh(refresh[b], now, outcome, grace)
    PROVE  IInv'
<1>0. CacheTypeOK
  BY Zenon DEF IInv, TypeOK, SharedTypeOK
<1>p. PICK i : i = refresh[b].entry_index
  BY Zenon
<1>1. /\ owns(refresh[b])
      /\ i \in Slots
      /\ entries[i] \in Entry
      /\ entries[i].key = HeldKey(b)
  BY Zenon, <1>0, <1>p DEF IInv, OwnerKeepsEntry, owns, CacheTypeOK
<1>2. /\ \A j \in Slots \ {i} : entries'[j] = entries[j]
      /\ entries'[i] = completed_entry(entries[i], now, outcome, grace)
  BY SMTT(30), <1>0, <1>p, <1>1, CompleteEffect
<1>3. ~entries'[i].refreshing
  BY SMTT(30), <1>1, <1>2, CompletedEntry
<1>5. ASSUME NEW a \in Backends \ {b}
      PROVE  /\ Holds(a)' <=> Holds(a)
             /\ Holds(a) => /\ refresh'[a] = refresh[a]
                            /\ HeldKey(a)' = HeldKey(a)
                            /\ owns(refresh[a])
                            /\ entries[refresh[a].entry_index].key = HeldKey(a)
                            /\ refresh[a].entry_index \in Slots \ {i}
  <2>1. /\ Holds(a)' <=> Holds(a)
        /\ refresh'[a] = refresh[a]
        /\ HeldKey(a)' = HeldKey(a)
    BY Zenon DEF OthersStay, Holds, HeldKey, MetadataKey, JwksDocKey
  <2>2. Holds(a) => /\ owns(refresh[a])
                    /\ entries[refresh[a].entry_index].key = HeldKey(a)
                    /\ refresh[a].entry_index \in Slots
    BY Zenon DEF IInv, OwnerKeepsEntry, owns
  <2>3. Holds(a) => refresh[a].entry_index # i
    BY <1>p, Zenon DEF IInv, RefreshHasOneOwner
  <2> QED
    BY <2>1, <2>2, <2>3, Zenon
<1>6. EntriesHoldDocs'
  <2> SUFFICES ASSUME NEW j \in Slots, entries'[j].has_value
               PROVE  FitsKey(entries'[j].payload, entries'[j].key)
    BY Zenon DEF EntriesHoldDocs, FitsKey
  <2>0. entries[j].has_value => FitsKey(entries[j].payload, entries[j].key)
    BY Zenon DEF IInv, EntriesHoldDocs, FitsKey
  <2>1. CASE j # i
    BY Zenon, <1>2, <2>0, <2>1
  <2>2. CASE j = i
    <3>1. /\ entries'[i].key = entries[i].key
          /\ \/ entries[i].has_value /\ entries'[i].payload = entries[i].payload
             \/ outcome.success /\ entries'[i].payload = outcome.payload
      BY SMTT(30), <1>1, <1>2, <2>2, CompletedValue
    <3> QED
      BY Zenon, <1>1, <2>0, <2>2, <3>1
  <2> QED
    BY Zenon, <2>1, <2>2
<1>7. CallsOK'
  BY Zenon DEF IInv, CallsOK, OthersStay
<1>8. OwnerKeepsEntry'
  <2> SUFFICES ASSUME NEW a \in Backends, Holds(a)'
               PROVE  /\ owns(refresh[a])'
                      /\ entries'[refresh'[a].entry_index].key = HeldKey(a)'
    BY Zenon DEF OwnerKeepsEntry
  <2>1. a # b
    BY Zenon
  <2>2. entries'[refresh[a].entry_index] = entries[refresh[a].entry_index]
    BY Zenon, <1>2, <1>5, <2>1
  <2> QED
    BY SMTT(30), <1>5, <2>1, <2>2 DEF owns
<1>9. RefreshHasOneOwner'
  <2>1. ASSUME NEW j \in Slots, entries'[j].refreshing
        PROVE  \E a \in Backends : Holds(a)' /\ refresh'[a].entry_index = j
    <3>1. j # i /\ entries[j].refreshing
      BY Zenon, <1>2, <1>3, <2>1
    <3>2. PICK a \in Backends : Holds(a) /\ refresh[a].entry_index = j
      BY Zenon, <3>1 DEF IInv, RefreshHasOneOwner
    <3>3. a # b
      BY Zenon, <1>p, <3>1, <3>2
    <3> QED
      BY Zenon, <1>5, <3>2, <3>3
  <2>2. ASSUME NEW a \in Backends, NEW c \in Backends,
               Holds(a)', Holds(c)',
               refresh'[a].entry_index = refresh'[c].entry_index
        PROVE  a = c
    <3>1. a # b /\ c # b
      BY <2>2, Zenon
    <3> QED
      BY ZenonT(30), <1>5, <2>2, <3>1 DEF IInv, RefreshHasOneOwner
  <2> QED
    BY Zenon, <2>1, <2>2 DEF RefreshHasOneOwner
<1> QED
  BY <1>6, <1>7, <1>8, <1>9, Zenon DEF IInv

-----------------------------------------------------------------------------
(* Facts the actions share *)

(* A backend moves to l with the local state c and the token r.            *)
LEMMA MoveType ==
    ASSUME TypeOK, SharedTypeOK', NEW b \in Backends, NEW l \in Locations,
           NEW c \in Call, NEW r \in Refresh \cup {NoRefresh},
           pc' = [pc EXCEPT ![b] = l],
           call' = [call EXCEPT ![b] = c],
           refresh' = [refresh EXCEPT ![b] = r]
    PROVE  /\ TypeOK'
           /\ OthersStay(b)
           /\ pc'[b] = l /\ call'[b] = c /\ refresh'[b] = r
BY Zenon DEF TypeOK, OthersStay

(* Writing back what a backend has is no change.                           *)
LEMMA NoMove ==
    ASSUME TypeOK, NEW b \in Backends
    PROVE  /\ call = [call EXCEPT ![b] = call[b]]
           /\ refresh = [refresh EXCEPT ![b] = refresh[b]]
           /\ pc = [pc EXCEPT ![b] = pc[b]]
           /\ pc[b] \in Locations
           /\ call[b] \in Call
           /\ refresh[b] \in Refresh \cup {NoRefresh}
BY Zenon DEF TypeOK

(* Steps on the cache alone keep the types of the wait.                    *)
LEMMA CacheStepTypes ==
    ASSUME TypeOK, CacheTypeOK', UNCHANGED <<clock, waitVars>>
    PROVE  SharedTypeOK'
BY Zenon DEF TypeOK, SharedTypeOK, waitVars

(* An unchanged cache has the same entries.                                *)
LEMMA UnchangedEntries ==
    ASSUME TypeOK, entries' = entries
    PROVE  SameEntries
BY Zenon DEF TypeOK, SharedTypeOK, CacheTypeOK, Entry, SameEntries

(* The end of a wait keeps the types.                                      *)
LEMMA WaitReturnTypes ==
    ASSUME TypeOK, CacheTypeOK', NEW b \in Backends, WaitReturn(b),
           UNCHANGED clock
    PROVE  SharedTypeOK'
<1>1. 0 \in 0 .. Horizon
  BY SharedAssumption, CacheAssumption DEF Time
<1> QED
  BY <1>1, Zenon DEF TypeOK, SharedTypeOK, WaitReturn, CancelSleep, WaitStages

(* A backend that owns nothing may return an error wherever it is.         *)
LEMMA FailStep ==
    ASSUME IInv, NEW b \in Backends, SharedTypeOK', SameEntries, ~Holds(b),
           Fail(b), refresh' = refresh
    PROVE  IInv'
<1>1. /\ TypeOK
      /\ IdleCall \in Call /\ CallOK("idle", IdleCall)
      /\ "idle" \in Locations
  BY IdleCallOK, Zenon DEF IInv, Locations
<1>2. /\ TypeOK' /\ OthersStay(b)
      /\ pc'[b] = "idle" /\ call'[b] = IdleCall
  <2>1. /\ pc' = [pc EXCEPT ![b] = "idle"]
        /\ call' = [call EXCEPT ![b] = IdleCall]
        /\ refresh' = [refresh EXCEPT ![b] = refresh[b]]
        /\ refresh[b] \in Refresh \cup {NoRefresh}
    BY <1>1, NoMove, Zenon DEF Fail, Goto
  <2> QED
    BY ZenonT(60), <1>1, <2>1, MoveType
<1>3. ~Holds(b)'
  BY <1>2, Zenon DEF Holds
<1> QED
  BY <1>1, <1>2, <1>3, QuietBackend, Zenon

(* What a lookup that hits copies is a document for its key.               *)
LEMMA CopyFits ==
    ASSUME IInv, NEW k, NEW now, NEW allow_stale,
           freshness(k, now, allow_stale) # "miss"
    PROVE  FitsKey(copy_payload(k), k)
<1>1. Valued(k) # {} /\ Valued(k) \subseteq Nat
  BY CacheAssumption DEF freshness, Valued, Slots
<1>2. First(Valued(k)) \in Valued(k)
  BY <1>1, FirstIn, Zenon
<1> QED
  BY Zenon, <1>2 DEF copy_payload, Valued, same_key, IInv, EntriesHoldDocs, FitsKey

(* A document stored under a metadata key is metadata of its policy.       *)
LEMMA FitsMetaKey ==
    ASSUME NEW p \in Policies, NEW d, FitsKey(d, MetaKey(p))
    PROVE  d \in MetadataDocs(p)
BY KeyFacts, Zenon DEF FitsKey

(* The same for a JWKS key.                                                *)
LEMMA FitsJwksKey ==
    ASSUME NEW p \in Policies, NEW u \in Urls, NEW d, FitsKey(d, JwksKey(p, u))
    PROVE  d \in JwksDocs(p, u)
BY SMTT(30), KeyFacts DEF FitsKey

(* The types of a backend's call.                                          *)
LEMMA CallTypes ==
    ASSUME IInv, NEW b \in Backends
    PROVE  /\ call[b] \in Call
           /\ call[b].policy \in Policies
           /\ call[b].kid \in Kids
           /\ call[b].now \in Time
           /\ call[b].cache_now \in Time
           /\ call[b].unknown_kid \in BOOLEAN
           /\ call[b].from_stale \in BOOLEAN
           /\ MetadataKey(b) \in Keys
           /\ CallOK(pc[b], call[b])
           /\ call[b].metadata \in MetadataDocs(call[b].policy) =>
                    /\ call[b].metadata.body \in Urls
                    /\ JwksDocKey(b) \in Keys
<1>1. call[b] \in Call
  BY Zenon DEF IInv, TypeOK
<1>2. 0 .. Horizon \subseteq Time
  BY SharedAssumption, CacheAssumption DEF Time
<1>3. /\ call[b].policy \in Policies
      /\ call[b].kid \in Kids
      /\ call[b].now \in Time
      /\ call[b].cache_now \in Time
      /\ call[b].unknown_kid \in BOOLEAN
      /\ call[b].from_stale \in BOOLEAN
  BY <1>1, <1>2, Zenon DEF Call
<1>4. CallOK(pc[b], call[b])
  BY Zenon DEF IInv, CallsOK
<1> QED
  BY <1>1, <1>3, <1>4, KeyFacts, Zenon DEF MetadataKey, JwksDocKey, MetadataDocs

-----------------------------------------------------------------------------
(* One lemma per action *)

(* A backend moves without touching the cache, the wait or its refresh.    *)
LEMMA LocalStep ==
    ASSUME IInv, NEW b \in Backends, NEW l \in Locations, NEW c \in Call,
           pc' = [pc EXCEPT ![b] = l], call' = [call EXCEPT ![b] = c],
           refresh' = refresh, SharedTypeOK', SameEntries, CallOK(l, c),
           ~Holds(b), l \notin {"meta_http", "meta_complete", "jwks_http",
                                "jwks_complete"}
    PROVE  IInv'
<1>1. /\ TypeOK
      /\ refresh' = [refresh EXCEPT ![b] = refresh[b]]
      /\ refresh[b] \in Refresh \cup {NoRefresh}
  BY NoMove, Zenon DEF IInv
<1>2. /\ TypeOK' /\ OthersStay(b) /\ pc'[b] = l /\ call'[b] = c
  BY <1>1, Zenon DEF TypeOK, OthersStay
<1>3. ~Holds(b)'
  BY <1>2, Zenon DEF Holds
<1> QED
  BY <1>2, <1>3, QuietBackend, Zenon

(* A client connects.                                                      *)
LEMMA ConnectKeeps ==
    ASSUME IInv, NEW b \in Backends, Connect(b)
    PROVE  IInv'
<1>1. PICK p \in Policies, k \in Kids :
            call' = [call EXCEPT ![b] = NewCall(p, k, clock)]
  BY Zenon DEF Connect
<1>2. /\ TypeOK
      /\ clock \in 0 .. Horizon
      /\ CacheTypeOK
      /\ "meta_lookup" \in Locations
      /\ ~Holds(b)
      /\ pc' = [pc EXCEPT ![b] = "meta_lookup"]
      /\ refresh' = refresh
      /\ UNCHANGED sharedVars
  BY Zenon DEF IInv, TypeOK, SharedTypeOK, Connect, At, Goto, Holds, Locations
<1>3. NewCall(p, k, clock) \in Call /\ CallOK("meta_lookup", NewCall(p, k, clock))
  BY <1>2, NewCallOK, Zenon
<1>4. SharedTypeOK' /\ SameEntries
  BY <1>2, CacheStepTypes, UnchangedEntries, Zenon DEF sharedVars, waitVars, CacheTypeOK
<1> QED
  BY Zenon, <1>1, <1>2, <1>3, <1>4, LocalStep

(* The three ways out before a key is looked up.                           *)
LEMMA EarlyFailKeeps ==
    ASSUME IInv, NEW b \in Backends,
           SetupFails(b) \/ HostFails(b) \/ JwksKeyFails(b)
    PROVE  IInv'
<1>1. /\ TypeOK /\ CacheTypeOK
      /\ ~Holds(b)
      /\ Fail(b)
      /\ refresh' = refresh
      /\ UNCHANGED sharedVars
  BY Zenon DEF IInv, TypeOK, SharedTypeOK, SetupFails, HostFails, JwksKeyFails, At, Holds
<1>2. SharedTypeOK' /\ SameEntries
  BY <1>1, CacheStepTypes, UnchangedEntries, Zenon DEF sharedVars, waitVars, CacheTypeOK
<1> QED
  BY <1>1, <1>2, FailStep, Zenon

(* Looking for metadata in the cache.                                      *)
LEMMA MetaLookupKeeps ==
    ASSUME IInv, NEW b \in Backends, MetaLookup(b)
    PROVE  IInv'
<1> DEFINE k == MetadataKey(b)
           now == call[b].now
           c == [call[b] EXCEPT !.metadata = copy_payload(k)]
<1>1. /\ TypeOK /\ CacheTypeOK
      /\ pc[b] = "meta_lookup" /\ ~Holds(b)
      /\ refresh' = refresh
      /\ Lookup(k, now, FALSE)
      /\ UNCHANGED <<clock, waitVars>>
  BY Zenon DEF IInv, TypeOK, SharedTypeOK, MetaLookup, At, Holds
<1>2. /\ call[b] \in Call /\ call[b].policy \in Policies /\ now \in Time
      /\ CallOK("meta_lookup", call[b])
  BY <1>1, CallTypes, Zenon
<1>3. CacheTypeOK' /\ SameEntries
  BY Zenon, <1>1, <1>2, LookupEffect DEF SameEntries
<1>4. SharedTypeOK'
  BY <1>1, <1>3, CacheStepTypes, Zenon
<1>5. CASE freshness(k, now, FALSE) = "fresh"
  <2>1. copy_payload(k) \in MetadataDocs(call[b].policy)
    BY Zenon, <1>2, <1>5, CopyFits, FitsMetaKey DEF MetadataKey
  <2>2. c \in Call
    BY <1>2, <2>1, Zenon DEF Call, MetadataDocs
  <2>3. CallOK("jwks_lookup", c)
    <3>1. /\ c.metadata = copy_payload(k)
          /\ c.policy = call[b].policy
          /\ c.response = NoPayload
          /\ ~c.from_stale
          /\ ~c.accepted
      BY <1>2, Zenon DEF Call, CallOK, OnMetadata
    <3> QED
      BY <2>1, <3>1, Zenon DEF CallOK, OnMetadata, OnJwks
  <2>4. /\ pc' = [pc EXCEPT ![b] = "jwks_lookup"]
        /\ call' = [call EXCEPT ![b] = c]
    BY <1>5, Zenon DEF MetaLookup, Goto
  <2> QED
    BY Zenon, <1>1, <1>3, <1>4, <2>2, <2>3, <2>4, LocalStep DEF Locations
<1>6. CASE freshness(k, now, FALSE) # "fresh"
  <2>1. /\ pc' = [pc EXCEPT ![b] = "meta_begin"]
        /\ call' = [call EXCEPT ![b] = call[b]]
    BY Zenon, <1>1, <1>6, NoMove DEF MetaLookup, Goto
  <2>2. CallOK("meta_begin", call[b])
    BY <1>2, Zenon DEF CallOK, OnMetadata, OnJwks
  <2> QED
    BY Zenon, <1>1, <1>2, <1>3, <1>4, <2>1, <2>2, LocalStep DEF Locations
<1> QED
  BY Zenon, <1>5, <1>6

(* A refresh b started makes b its owner.                                  *)
LEMMA BeginStep ==
    ASSUME IInv, NEW b \in Backends, ~Holds(b),
           NEW l \in {"meta_http", "jwks_http"}, NEW k \in Keys,
           k = IF l = "meta_http" THEN MetadataKey(b) ELSE JwksDocKey(b),
           NEW now \in Time, NEW unknown_kid \in BOOLEAN, NEW cooldown,
           begin_result(k, now, unknown_kid, cooldown) = "started",
           BeginRefresh(k, now, unknown_kid, cooldown),
           refresh' = [refresh EXCEPT ![b] = begin_token(k, now)],
           pc' = [pc EXCEPT ![b] = l], call' = call, CallOK(l, call[b]),
           UNCHANGED <<clock, waitVars>>
    PROVE  IInv'
<1>1. TypeOK /\ CacheTypeOK /\ l \in Locations
  BY Zenon DEF IInv, TypeOK, SharedTypeOK, Locations
<1>2. CacheTypeOK' /\ find_refresh_slot(k, now) \in Slots
  BY Zenon, <1>1, BeginEffect
<1>3. begin_token(k, now) \in Refresh
  BY <1>1, <1>2, Zenon DEF begin_token, Refresh, CacheTypeOK
<1>4. SharedTypeOK'
  BY <1>1, <1>2, CacheStepTypes, Zenon
<1>5. /\ TypeOK' /\ OthersStay(b)
      /\ pc'[b] = l /\ call'[b] = call[b] /\ refresh'[b] = begin_token(k, now)
  BY Zenon, <1>1, <1>3, <1>4 DEF TypeOK, OthersStay
<1>6. Holds(b)' /\ HeldKey(b)' = k
  BY <1>5, Zenon DEF Holds, HeldKey, MetadataKey, JwksDocKey
<1> QED
  BY <1>5, <1>6, BeginBackend, Zenon

(* A completion ends b's ownership.                                        *)
LEMMA CompleteStep ==
    ASSUME IInv, NEW b \in Backends, Holds(b),
           NEW l \in {"meta_notify", "jwks_notify", "idle"}, NEW c \in Call,
           CallOK(l, c),
           pc' = [pc EXCEPT ![b] = l], call' = [call EXCEPT ![b] = c],
           refresh' = [refresh EXCEPT ![b] = NoRefresh],
           NEW now \in Time, NEW grace \in Nat, NEW outcome,
           outcome.ttl \in Nat,
           outcome.payload \in Payloads \cup {NoPayload},
           outcome.success => FitsKey(outcome.payload, HeldKey(b)),
           CompleteRefresh(refresh[b], now, outcome, grace),
           UNCHANGED <<clock, waitVars>>
    PROVE  IInv'
<1>1. TypeOK /\ CacheTypeOK /\ l \in Locations
  BY Zenon DEF IInv, TypeOK, SharedTypeOK, Locations
<1>2. CacheTypeOK'
  BY <1>1, CompleteEffect, Zenon
<1>3. SharedTypeOK'
  BY <1>1, <1>2, CacheStepTypes, Zenon
<1>4. /\ TypeOK' /\ OthersStay(b)
      /\ pc'[b] = l /\ call'[b] = c
  BY <1>1, <1>3, Zenon DEF TypeOK, OthersStay
<1>5. ~Holds(b)'
  BY <1>4, Zenon DEF Holds
<1> QED
  BY <1>4, <1>5, CompleteBackend, Zenon

(* The caller enters a wait.                                               *)
LEMMA WaitCallTypes ==
    ASSUME TypeOK, CacheTypeOK', NEW b \in Backends, WaitCall(b), UNCHANGED clock
    PROVE  SharedTypeOK'
BY Zenon DEF TypeOK, SharedTypeOK, WaitCall, WaitStages

(* A refused refresh leaves the cache alone.                               *)
LEMMA RefusedBegin ==
    ASSUME TypeOK, NEW k, NEW now, NEW unknown_kid, NEW cooldown,
           begin_result(k, now, unknown_kid, cooldown) # "started",
           BeginRefresh(k, now, unknown_kid, cooldown)
    PROVE  SameEntries /\ CacheTypeOK'
<1>1. UNCHANGED cacheVars /\ CacheTypeOK
  BY Zenon DEF BeginRefresh, TypeOK, SharedTypeOK
<1> QED
  BY <1>1, UnchangedEntries, Zenon DEF cacheVars, CacheTypeOK

(* begin_refresh for metadata: b becomes the owner, waits or gives up.     *)
LEMMA MetaBeginKeeps ==
    ASSUME IInv, NEW b \in Backends, MetaBegin(b)
    PROVE  IInv'
<1> DEFINE k == MetadataKey(b)
           now == call[b].now
           result == begin_result(k, now, FALSE, 0)
<1>1. /\ TypeOK
      /\ pc[b] = "meta_begin" /\ ~Holds(b)
      /\ BeginRefresh(k, now, FALSE, 0)
      /\ UNCHANGED clock
  BY Zenon DEF IInv, MetaBegin, At, Holds
<1>2. /\ call[b] \in Call /\ now \in Time /\ k \in Keys
      /\ CallOK("meta_begin", call[b])
  BY ZenonT(30), <1>1, CallTypes
<1>3. CallOK("meta_http", call[b]) /\ CallOK("meta_wait", call[b])
  BY Zenon, <1>2 DEF CallOK, OnMetadata, OnJwks
<1>4. CASE result = "started"
  <2>1. /\ refresh' = [refresh EXCEPT ![b] = begin_token(k, now)]
        /\ pc' = [pc EXCEPT ![b] = "meta_http"]
        /\ call' = call
        /\ UNCHANGED waitVars
    BY Zenon, <1>4 DEF MetaBegin, Goto
  <2>2. "meta_http" \in {"meta_http", "jwks_http"} /\ FALSE \in BOOLEAN
    BY Zenon
  <2> HIDE DEF k, now
  <2>3. k = IF "meta_http" = "meta_http" THEN MetadataKey(b) ELSE JwksDocKey(b)
    BY Zenon DEF k
  <2> QED
    BY Zenon, <1>1, <1>2, <1>3, <1>4, <2>1, <2>2, <2>3, BeginStep
<1>5. CASE result # "started"
  <2>1. SameEntries /\ CacheTypeOK'
    BY ZenonT(30), <1>1, <1>5, RefusedBegin
  <2>2. CASE Fail(b) /\ UNCHANGED <<waitVars, refresh>>
    <3>1. SharedTypeOK'
      BY <1>1, <2>1, <2>2, CacheStepTypes, Zenon
    <3> QED
      BY <1>1, <2>1, <2>2, <3>1, FailStep, Zenon
  <2>3. CASE /\ WaitCall(b) /\ Goto(b, "meta_wait")
             /\ UNCHANGED <<call, refresh>>
    <3>1. SharedTypeOK'
      BY <1>1, <2>1, <2>3, WaitCallTypes, Zenon
    <3>2. /\ pc' = [pc EXCEPT ![b] = "meta_wait"]
          /\ call' = [call EXCEPT ![b] = call[b]]
          /\ refresh' = refresh
          /\ "meta_wait" \in Locations
      BY <1>1, <2>3, NoMove, Zenon DEF Goto, Locations
    <3> QED
      BY Zenon, <1>1, <1>2, <1>3, <2>1, <3>1, <3>2, LocalStep
  <2> QED
    BY Zenon, <1>5, <2>2, <2>3 DEF MetaBegin
<1> QED
  BY ZenonT(30), <1>4, <1>5

(* The lookup after a wait for metadata.                                   *)
LEMMA MetaRelookupKeeps ==
    ASSUME IInv, NEW b \in Backends, MetaRelookup(b)
    PROVE  IInv'
<1> DEFINE k == MetadataKey(b)
           now == call[b].cache_now + elapsed[b]
           c == [call[b] EXCEPT !.cache_now = now, !.metadata = copy_payload(k)]
<1>1. /\ TypeOK /\ CacheTypeOK
      /\ pc[b] = "meta_wait" /\ ~Holds(b)
      /\ WaitReturn(b)
      /\ UNCHANGED clock /\ refresh' = refresh
  BY Zenon DEF IInv, TypeOK, SharedTypeOK, MetaRelookup, At, Holds
<1>2. /\ call[b] \in Call /\ call[b].policy \in Policies
      /\ call[b].cache_now \in Time
      /\ CallOK("meta_wait", call[b])
  BY <1>1, CallTypes, Zenon
<1>3. now \in Nat
  BY <1>1, <1>2, SharedAssumption, CacheAssumption
  DEF TypeOK, SharedTypeOK, Time
<1>4. CASE now > TimeMax
  <2>1. Fail(b) /\ UNCHANGED cacheVars
    BY <1>4, Zenon DEF MetaRelookup
  <2>2. SameEntries /\ CacheTypeOK'
    BY <1>1, <2>1, UnchangedEntries, Zenon DEF cacheVars, CacheTypeOK
  <2> QED
    BY <1>1, <2>1, <2>2, WaitReturnTypes, FailStep, Zenon
<1>5. CASE ~(now > TimeMax)
  <2>1. now \in Time /\ Lookup(k, now, FALSE)
    <3>1. now \in Time
      BY <1>3, <1>5, CacheAssumption DEF Time
    <3>2. Lookup(k, now, FALSE)
      BY Zenon, <1>5 DEF MetaRelookup
    <3> QED
      BY Zenon, <3>1, <3>2
  <2> HIDE DEF now
  <2>2. CacheTypeOK' /\ SameEntries
    BY Zenon, <1>1, <2>1, LookupEffect DEF SameEntries
  <2>3. SharedTypeOK'
    BY <1>1, <2>2, WaitReturnTypes, Zenon
  <2>4. CASE freshness(k, now, FALSE) = "fresh"
    <3>1. copy_payload(k) \in MetadataDocs(call[b].policy)
      BY Zenon, <1>2, <2>4, CopyFits, FitsMetaKey DEF MetadataKey
    <3>2. c \in Call
      BY Zenon, <1>2, <2>1, <3>1 DEF Call, MetadataDocs
    <3>3. CallOK("jwks_lookup", c)
      <4>1. /\ c.metadata = copy_payload(k)
            /\ c.policy = call[b].policy
            /\ c.response = NoPayload
            /\ ~c.from_stale
            /\ ~c.accepted
        BY <1>2, Zenon DEF Call, CallOK, OnMetadata
      <4> QED
        BY <3>1, <4>1, Zenon DEF CallOK, OnMetadata, OnJwks
    <3>4. /\ pc' = [pc EXCEPT ![b] = "jwks_lookup"]
          /\ call' = [call EXCEPT ![b] = c]
          /\ "jwks_lookup" \in Locations
      BY Zenon, <1>5, <2>4 DEF MetaRelookup, Goto, now, Locations
    <3> QED
      BY Zenon, <1>1, <2>2, <2>3, <3>2, <3>3, <3>4, LocalStep
  <2>5. CASE freshness(k, now, FALSE) # "fresh"
    <3>1. Fail(b)
      BY <1>5, <2>5, Zenon DEF MetaRelookup, now
    <3> QED
      BY <1>1, <2>2, <2>3, <3>1, FailStep, Zenon
  <2> QED
    BY Zenon, <2>4, <2>5
<1> QED
  BY <1>4, <1>5, Zenon

(* A transfer: the owner stays the owner.                                  *)
LEMMA HttpStep ==
    ASSUME IInv, NEW b \in Backends, NEW c \in Call,
           NEW l \in {"meta_complete", "jwks_complete"},
           pc[b] = IF l = "meta_complete" THEN "meta_http" ELSE "jwks_http",
           pc' = [pc EXCEPT ![b] = l], call' = [call EXCEPT ![b] = c],
           UNCHANGED <<sharedVars, refresh>>, CallOK(l, c),
           c.policy = call[b].policy, c.metadata = call[b].metadata
    PROVE  IInv'
<1>1. TypeOK /\ CacheTypeOK /\ l \in Locations
  BY Zenon DEF IInv, TypeOK, SharedTypeOK, Locations
<1>2. SharedTypeOK' /\ SameEntries
  BY <1>1, CacheStepTypes, UnchangedEntries, Zenon DEF sharedVars, waitVars, CacheTypeOK
<1>3. /\ TypeOK' /\ OthersStay(b)
      /\ pc'[b] = l /\ call'[b] = c /\ refresh'[b] = refresh[b]
  BY Zenon, <1>1, <1>2 DEF TypeOK, OthersStay
<1>4. Holds(b) /\ Holds(b)' /\ HeldKey(b)' = HeldKey(b)
  BY <1>3 DEF Holds, HeldKey, MetadataKey, JwksDocKey
<1> QED
  BY <1>2, <1>3, <1>4, QuietBackend, Zenon

(* The metadata transfer.                                                  *)
LEMMA MetaHttpKeeps ==
    ASSUME IInv, NEW b \in Backends, MetaHttp(b)
    PROVE  IInv'
<1>1. /\ TypeOK /\ pc[b] = "meta_http"
      /\ pc' = [pc EXCEPT ![b] = "meta_complete"]
      /\ UNCHANGED <<sharedVars, refresh>>
      /\ clock \in 0 .. Horizon
  BY Zenon DEF IInv, TypeOK, SharedTypeOK, MetaHttp, At, Goto
<1>2. /\ call[b] \in Call /\ call[b].policy \in Policies
      /\ CallOK("meta_http", call[b])
      /\ call = [call EXCEPT ![b] = call[b]]
  BY <1>1, CallTypes, NoMove, Zenon
<1>3. CASE call' = call
  <2>1. CallOK("meta_complete", call[b])
    BY <1>2, Zenon DEF CallOK, OnMetadata, OnJwks
  <2> QED
    BY Zenon, <1>1, <1>2, <1>3, <2>1, HttpStep
<1>4. ASSUME NEW u \in Urls \cup {NoUrl}, NEW l \in MetaLifetimes, NEW doc,
             doc = [source |-> Origin("metadata", call[b].policy, NoUrl),
                    at |-> clock, body |-> u, life |-> l],
             call' = [call EXCEPT ![b].response = doc]
      PROVE  IInv'
  <2> DEFINE c == [call[b] EXCEPT !.response = doc]
  <2>1. Origin("metadata", call[b].policy, NoUrl) \in Origins
    BY <1>2, Zenon DEF Origin, Origins
  <2>2. /\ doc \in Payloads
        /\ doc.source = Origin("metadata", call[b].policy, NoUrl)
        /\ doc.body \in Urls \cup {NoUrl}
    BY <1>1, <1>4, <2>1, IssuerAssumption, Zenon DEF Document
  <2>3. /\ c \in Call
        /\ c.policy = call[b].policy
        /\ c.metadata = call[b].metadata
        /\ c.response = doc
        /\ c.from_stale = call[b].from_stale
        /\ c.accepted = call[b].accepted
    BY <1>2, <2>2, Zenon DEF Call
  <2>4. CallOK("meta_complete", c)
    BY <1>2, <2>2, <2>3, Zenon DEF CallOK, OnMetadata, OnJwks
  <2>5. call' = [call EXCEPT ![b] = c]
    BY <1>4, Zenon
  <2> QED
    BY Zenon, <1>1, <2>3, <2>4, <2>5, HttpStep
<1> QED
  BY Zenon, <1>3, <1>4 DEF MetaHttp

(* What a completion is given: a document for the key the owner holds, or  *)
(* a failure.                                                              *)
LEMMA OutcomeFits ==
    ASSUME NEW doc, NEW k, NEW ok \in BOOLEAN, NEW outcome,
           outcome = IF ok THEN response_outcome(doc) ELSE Failure,
           ok => doc \in Payloads /\ FitsKey(doc, k)
    PROVE  /\ outcome.ttl \in Nat
           /\ outcome.payload \in Payloads \cup {NoPayload}
           /\ outcome.success => ok /\ FitsKey(outcome.payload, k)
<1>1. CASE outcome = Failure
  BY <1>1 DEF Failure
<1>2. CASE ok /\ outcome = Success(doc)
  <2>1. doc.life \in Lifetime
    BY Zenon, <1>2, IssuerAssumption DEF Document
  <2> QED
    BY <1>2, <2>1 DEF Success, Lifetime
<1> QED
  BY <1>1, <1>2, Zenon DEF response_outcome

(* The completion of a metadata refresh.                                   *)
LEMMA MetaCompleteKeeps ==
    ASSUME IInv, NEW b \in Backends, MetaComplete(b)
    PROVE  IInv'
<1>p. PICK doc, parsed, outcome, result, l, c :
        /\ doc = call[b].response
        /\ parsed = (doc # NoPayload /\ doc.body # NoUrl)
        /\ outcome = IF parsed THEN response_outcome(doc) ELSE Failure
        /\ result = complete_result(refresh[b], outcome)
        /\ l = IF result THEN "meta_notify" ELSE "idle"
        /\ c = IF outcome.success /\ result
               THEN [call[b] EXCEPT !.response = NoPayload, !.metadata = doc]
               ELSE IdleCall
  BY ZenonT(30)
<1>1. /\ TypeOK /\ pc[b] = "meta_complete" /\ Holds(b)
      /\ CompleteRefresh(refresh[b], call[b].now, outcome, 0)
      /\ refresh' = [refresh EXCEPT ![b] = NoRefresh]
      /\ call' = [call EXCEPT ![b] = c]
      /\ pc' = [pc EXCEPT ![b] = l]
      /\ UNCHANGED <<clock, waitVars>>
  BY Zenon, <1>p DEF IInv, MetaComplete, At, Goto, Holds
<1>2. /\ call[b] \in Call /\ call[b].policy \in Policies
      /\ call[b].now \in Time
      /\ CallOK("meta_complete", call[b])
  BY Zenon, <1>1, CallTypes
<1>3. parsed => doc \in MetadataDocs(call[b].policy)
  BY <1>p, <1>2, Zenon DEF CallOK, MetadataDocs, Call
<1>4. HeldKey(b) = MetaKey(call[b].policy)
  BY <1>1, Zenon DEF HeldKey, MetadataKey
<1>5. parsed => doc \in Payloads /\ FitsKey(doc, HeldKey(b))
  BY <1>2, <1>3, <1>4, Zenon DEF FitsKey, MetadataDocs
<1>6. /\ outcome.ttl \in Nat
      /\ outcome.payload \in Payloads \cup {NoPayload}
      /\ outcome.success => parsed /\ FitsKey(outcome.payload, HeldKey(b))
  BY ZenonT(30), <1>p, <1>5, OutcomeFits
<1>7. l \in {"meta_notify", "jwks_notify", "idle"} /\ c \in Call /\ CallOK(l, c)
  <2>1. CASE outcome.success /\ result
    <3>1. /\ c \in Call
          /\ c.policy = call[b].policy
          /\ c.metadata = doc
          /\ c.response = NoPayload
          /\ c.from_stale = call[b].from_stale
          /\ c.accepted = call[b].accepted
      BY Zenon, <1>p, <1>2, <1>5, <1>6, <2>1 DEF Call
    <3> QED
      BY Zenon, <1>p, <1>2, <1>3, <1>6, <2>1, <3>1 DEF CallOK, OnMetadata, OnJwks
  <2>2. CASE ~(outcome.success /\ result)
    <3>1. c = IdleCall /\ l \in {"idle", "meta_notify"}
      BY <1>p, <2>2, Zenon
    <3> QED
      BY <3>1, IdleCallOK, Zenon
  <2> QED
    BY <2>1, <2>2, Zenon
<1> QED
  BY Zenon, <1>1, <1>2, <1>6, <1>7, CompleteStep

(* The broadcast after a completion.                                       *)
LEMMA NotifyKeeps ==
    ASSUME IInv, NEW b \in Backends, Notify(b)
    PROVE  IInv'
<1>p. PICK l : l = IF pc[b] = "meta_notify" /\ call[b].metadata # NoPayload
                   THEN "jwks_lookup" ELSE "idle"
  BY Zenon
<1>1. /\ TypeOK /\ ~Holds(b)
      /\ pc[b] \in {"meta_notify", "jwks_notify"}
      /\ pc' = [pc EXCEPT ![b] = l]
      /\ cv' = {}
      /\ UNCHANGED <<entries, next_serial, clock, wait, elapsed, asleep_at>>
      /\ call' = [call EXCEPT ![b] = call[b]]
      /\ call[b] \in Call
      /\ refresh' = refresh
  BY <1>p, NoMove, Zenon DEF IInv, Notify, Broadcast, At, Goto, Holds
<1>2. SharedTypeOK' /\ SameEntries
  BY <1>1, UnchangedEntries, Zenon DEF TypeOK, SharedTypeOK, CacheTypeOK
<1>3. CallOK(pc[b], call[b])
  BY Zenon, CallTypes
<1>4. l \in {"jwks_lookup", "idle"} /\ CallOK(l, call[b])
  BY <1>p, <1>1, <1>3, Zenon DEF CallOK, OnMetadata, OnJwks
<1>5. l \in Locations
  BY <1>4, Zenon DEF Locations
<1> QED
  BY ZenonT(30), <1>1, <1>2, <1>4, <1>5, LocalStep

(* Returning the key selected from doc preserves the invariant when doc is *)
(* a JWKS document of the URL that the call's metadata names.              *)
LEMMA AcceptStep ==
    ASSUME IInv, NEW b \in Backends, ~Holds(b), NEW doc, Accept(b, doc),
           call[b].metadata \in MetadataDocs(call[b].policy),
           doc \in JwksDocs(call[b].policy, call[b].metadata.body),
           jwks_select(b, doc) = "ok",
           refresh' = refresh, SharedTypeOK', SameEntries
    PROVE  IInv'
<1> DEFINE c == [call[b] EXCEPT !.selected = doc, !.accepted = TRUE]
<1>1. call[b] \in Call
  BY Zenon, CallTypes
<1>2. /\ c \in Call
      /\ c.policy = call[b].policy /\ c.kid = call[b].kid
      /\ c.metadata = call[b].metadata /\ c.selected = doc
  BY Zenon, <1>1 DEF Call, JwksDocs
<1>3. SelectedOK(c)
  BY <1>2, Zenon DEF SelectedOK, jwks_select
<1>4. CallOK("idle", c)
  BY <1>3, Zenon DEF CallOK, OnMetadata, OnJwks
<1>5. /\ pc' = [pc EXCEPT ![b] = "idle"]
      /\ call' = [call EXCEPT ![b] = c]
      /\ "idle" \in Locations
  BY ZenonT(30) DEF Accept, Goto, Locations
<1> QED
  BY Zenon, <1>2, <1>4, <1>5, LocalStep

(* Looking for the JWKS document: four ways on.                            *)
LEMMA JwksLookupKeeps ==
    ASSUME IInv, NEW b \in Backends, JwksLookup(b)
    PROVE  IInv'
<1> DEFINE k == JwksDocKey(b)
           now == call[b].cache_now
           f == freshness(k, now, Grace > 0)
           doc == copy_payload(k)
           stale == [call[b] EXCEPT !.selected = doc, !.from_stale = TRUE]
           unknown == [call[b] EXCEPT !.unknown_kid = TRUE]
<1>1. /\ TypeOK /\ CacheTypeOK
      /\ pc[b] = "jwks_lookup" /\ ~Holds(b)
      /\ Lookup(k, now, Grace > 0)
      /\ UNCHANGED <<clock, waitVars>> /\ refresh' = refresh
  BY Zenon DEF IInv, TypeOK, SharedTypeOK, JwksLookup, At, Holds
<1>2. /\ call[b] \in Call /\ call[b].policy \in Policies
      /\ now \in Time
      /\ CallOK("jwks_lookup", call[b])
      /\ call[b].metadata \in MetadataDocs(call[b].policy) =>
                call[b].metadata.body \in Urls
  BY ZenonT(30), <1>1, CallTypes
<1>3. /\ call[b].metadata \in MetadataDocs(call[b].policy)
      /\ call[b].response = NoPayload
      /\ ~call[b].from_stale /\ ~call[b].accepted
  BY ZenonT(30), <1>2 DEF CallOK
<1>4. CacheTypeOK' /\ SameEntries
  BY Zenon, <1>1, <1>2, LookupEffect DEF SameEntries
<1>5. SharedTypeOK'
  BY ZenonT(30), <1>1, <1>4, CacheStepTypes
<1>6. f # "miss" => doc \in JwksDocs(call[b].policy, call[b].metadata.body)
  BY <1>2, <1>3, CopyFits, FitsJwksKey, Zenon DEF JwksDocKey
<1>7. "jwks_begin" \in Locations
  BY Zenon DEF Locations
<1>8. CASE f = "miss" /\ Goto(b, "jwks_begin") /\ UNCHANGED call
  <2>1. CallOK("jwks_begin", call[b])
    BY <1>3, Zenon DEF CallOK, OnMetadata, OnJwks
  <2>2. /\ pc' = [pc EXCEPT ![b] = "jwks_begin"]
        /\ call' = [call EXCEPT ![b] = call[b]]
    BY Zenon, <1>1, <1>8, NoMove DEF Goto
  <2> QED
    BY Zenon, <1>1, <1>2, <1>4, <1>5, <1>7, <2>1, <2>2, LocalStep
<1>9. CASE f = "fresh" /\ jwks_select(b, doc) = "ok" /\ Accept(b, doc)
  <2> HIDE DEF f, doc
  <2> QED
    BY ZenonT(30), <1>1, <1>3, <1>4, <1>5, <1>6, <1>9, AcceptStep
<1>10. CASE Fail(b)
  BY <1>1, <1>4, <1>5, <1>10, FailStep, Zenon
<1>11. CASE /\ f = "stale" /\ jwks_select(b, doc) = "ok"
            /\ Goto(b, "jwks_begin")
            /\ call' = [call EXCEPT ![b].selected = doc, ![b].from_stale = TRUE]
  <2> HIDE DEF f, doc
  <2>1. /\ stale \in Call
        /\ stale.policy = call[b].policy /\ stale.kid = call[b].kid
        /\ stale.metadata = call[b].metadata /\ stale.selected = doc
        /\ stale.response = NoPayload /\ ~stale.accepted
    BY Zenon, <1>2, <1>3, <1>6, <1>11 DEF Call, JwksDocs
  <2>2. SelectedOK(stale)
    BY <1>3, <1>6, <1>11, <2>1, Zenon DEF SelectedOK, jwks_select
  <2>3. CallOK("jwks_begin", stale)
    BY <1>3, <2>1, <2>2, Zenon DEF CallOK, OnMetadata, OnJwks
  <2>4. /\ pc' = [pc EXCEPT ![b] = "jwks_begin"]
        /\ call' = [call EXCEPT ![b] = stale]
    BY Zenon, <1>11 DEF Goto
  <2> QED
    BY Zenon, <1>1, <1>4, <1>5, <1>7, <2>1, <2>3, <2>4, LocalStep
<1>12. CASE /\ Goto(b, "jwks_begin")
            /\ call' = [call EXCEPT ![b].unknown_kid = TRUE]
  <2>1. /\ unknown \in Call
        /\ unknown.policy = call[b].policy
        /\ unknown.metadata = call[b].metadata
        /\ unknown.response = NoPayload
        /\ ~unknown.accepted /\ ~unknown.from_stale
    BY ZenonT(30), <1>2, <1>3 DEF Call
  <2>2. CallOK("jwks_begin", unknown)
    BY <1>3, <2>1, Zenon DEF CallOK, OnMetadata, OnJwks
  <2>3. /\ pc' = [pc EXCEPT ![b] = "jwks_begin"]
        /\ call' = [call EXCEPT ![b] = unknown]
    BY <1>12, Zenon DEF Goto
  <2> QED
    BY Zenon, <1>1, <1>4, <1>5, <1>7, <2>1, <2>2, <2>3, LocalStep
<1> QED
  BY <1>8, <1>9, <1>10, <1>11, <1>12, Zenon DEF JwksLookup

(* begin_refresh for the JWKS document.                                    *)
LEMMA JwksBeginKeeps ==
    ASSUME IInv, NEW b \in Backends, JwksBegin(b)
    PROVE  IInv'
<1> DEFINE k == JwksDocKey(b)
           now == call[b].cache_now
           unknown == call[b].unknown_kid
           result == begin_result(k, now, unknown, Cooldown)
<1>1. /\ TypeOK
      /\ pc[b] = "jwks_begin" /\ ~Holds(b)
      /\ BeginRefresh(k, now, unknown, Cooldown)
      /\ UNCHANGED clock
  BY Zenon DEF IInv, JwksBegin, At, Holds
<1>2. /\ call[b] \in Call /\ now \in Time /\ unknown \in BOOLEAN
      /\ CallOK("jwks_begin", call[b])
      /\ call[b].metadata \in MetadataDocs(call[b].policy) => k \in Keys
  BY Zenon, <1>1, CallTypes
<1>3. /\ k \in Keys
      /\ call[b].metadata \in MetadataDocs(call[b].policy)
      /\ call[b].from_stale => SelectedOK(call[b])
      /\ CallOK("jwks_http", call[b]) /\ CallOK("jwks_wait", call[b])
  BY ZenonT(30), <1>2 DEF CallOK, OnMetadata, OnJwks
<1>4. CASE result = "started"
  <2>1. /\ refresh' = [refresh EXCEPT ![b] = begin_token(k, now)]
        /\ pc' = [pc EXCEPT ![b] = "jwks_http"]
        /\ call' = call
        /\ UNCHANGED waitVars
    BY <1>4, Zenon DEF JwksBegin, Goto
  <2> HIDE DEF k, now, unknown
  <2>3. k = IF "jwks_http" = "meta_http" THEN MetadataKey(b) ELSE JwksDocKey(b)
    BY Zenon DEF k
  <2> QED
    BY ZenonT(30), <1>1, <1>2, <1>3, <1>4, <2>1, <2>3, BeginStep
<1>5. CASE result # "started"
  <2>1. SameEntries /\ CacheTypeOK'
    BY <1>1, <1>5, RefusedBegin, Zenon
  <2>2. CASE /\ IF call[b].from_stale THEN Accept(b, call[b].selected) ELSE Fail(b)
             /\ UNCHANGED <<waitVars, refresh>>
    <3>1. SharedTypeOK'
      BY Zenon, <1>1, <2>1, <2>2, CacheStepTypes
    <3>2. CASE Fail(b)
      BY Zenon, <1>1, <2>1, <2>2, <3>1, <3>2, FailStep
    <3>3. CASE call[b].from_stale /\ Accept(b, call[b].selected)
      <4>1. /\ call[b].selected \in JwksDocs(call[b].policy, call[b].metadata.body)
            /\ jwks_select(b, call[b].selected) = "ok"
        BY Zenon, <1>3, <3>3 DEF SelectedOK, jwks_select
      <4> QED
        BY ZenonT(30), <1>1, <1>3, <2>1, <2>2, <3>1, <3>3, <4>1, AcceptStep
    <3> QED
      BY <2>2, <3>2, <3>3, Zenon
  <2>3. CASE /\ WaitCall(b) /\ Goto(b, "jwks_wait")
             /\ UNCHANGED <<call, refresh>>
    <3>1. SharedTypeOK'
      BY <1>1, <2>1, <2>3, WaitCallTypes, Zenon
    <3>2. /\ pc' = [pc EXCEPT ![b] = "jwks_wait"]
          /\ call' = [call EXCEPT ![b] = call[b]]
          /\ refresh' = refresh
          /\ "jwks_wait" \in Locations
      BY <1>1, <2>3, NoMove, Zenon DEF Goto, Locations
    <3> QED
      BY Zenon, <1>1, <1>2, <1>3, <2>1, <3>1, <3>2, LocalStep
  <2> QED
    BY <1>5, <2>2, <2>3, Zenon DEF JwksBegin
<1> QED
  BY <1>4, <1>5, Zenon

(* The lookup after a wait for the JWKS document.                          *)
LEMMA JwksRelookupKeeps ==
    ASSUME IInv, NEW b \in Backends, JwksRelookup(b)
    PROVE  IInv'
<1> DEFINE k == JwksDocKey(b)
           now == call[b].cache_now + elapsed[b]
           doc == copy_payload(k)
<1>1. /\ TypeOK /\ CacheTypeOK
      /\ pc[b] = "jwks_wait" /\ ~Holds(b)
      /\ WaitReturn(b)
      /\ UNCHANGED clock /\ refresh' = refresh
  BY ZenonT(30) DEF IInv, TypeOK, SharedTypeOK, JwksRelookup, At, Holds
<1>2. /\ call[b] \in Call /\ call[b].policy \in Policies
      /\ call[b].cache_now \in Time
      /\ CallOK("jwks_wait", call[b])
      /\ call[b].metadata \in MetadataDocs(call[b].policy) =>
                call[b].metadata.body \in Urls
  BY ZenonT(30), <1>1, CallTypes
<1>3. call[b].metadata \in MetadataDocs(call[b].policy)
  BY <1>2, Zenon DEF CallOK, OnJwks
<1>4. now \in Nat
  BY <1>1, <1>2, SharedAssumption, CacheAssumption
  DEF TypeOK, SharedTypeOK, Time
<1>5. CASE now > TimeMax
  <2>1. Fail(b) /\ UNCHANGED cacheVars
    BY <1>5, Zenon DEF JwksRelookup
  <2>2. SameEntries /\ CacheTypeOK'
    BY <1>1, <2>1, UnchangedEntries, Zenon DEF cacheVars, CacheTypeOK
  <2> QED
    BY ZenonT(30), <1>1, <2>1, <2>2, WaitReturnTypes, FailStep
<1>6. CASE ~(now > TimeMax)
  <2>1. now \in Time
    BY <1>4, <1>6, CacheAssumption DEF Time
  <2>2. /\ Lookup(k, now, Grace > 0)
        /\ IF freshness(k, now, Grace > 0) # "miss" /\ jwks_select(b, doc) = "ok"
           THEN Accept(b, doc) ELSE Fail(b)
    BY <1>6, Zenon DEF JwksRelookup
  <2> HIDE DEF now
  <2>3. CacheTypeOK' /\ SameEntries
    BY <1>1, <2>1, <2>2, LookupEffect, Zenon DEF SameEntries
  <2>4. SharedTypeOK'
    BY <1>1, <2>3, WaitReturnTypes, Zenon
  <2>5. freshness(k, now, Grace > 0) # "miss" =>
            doc \in JwksDocs(call[b].policy, call[b].metadata.body)
    BY <1>2, <1>3, CopyFits, FitsJwksKey, Zenon DEF JwksDocKey
  <2>6. CASE Fail(b)
    BY Zenon, <1>1, <2>3, <2>4, <2>6, FailStep
  <2>7. CASE /\ freshness(k, now, Grace > 0) # "miss"
             /\ jwks_select(b, doc) = "ok"
             /\ Accept(b, doc)
    <3> HIDE DEF doc
    <3> QED
      BY Zenon, <1>1, <1>3, <2>3, <2>4, <2>5, <2>7, AcceptStep
  <2> QED
    BY ZenonT(30), <2>2, <2>6, <2>7
<1> QED
  BY <1>5, <1>6, Zenon

(* The JWKS transfer.                                                      *)
LEMMA JwksHttpKeeps ==
    ASSUME IInv, NEW b \in Backends, JwksHttp(b)
    PROVE  IInv'
<1>1. /\ TypeOK /\ pc[b] = "jwks_http"
      /\ pc' = [pc EXCEPT ![b] = "jwks_complete"]
      /\ UNCHANGED <<sharedVars, refresh>>
      /\ clock \in 0 .. Horizon
  BY Zenon DEF IInv, TypeOK, SharedTypeOK, JwksHttp, At, Goto
<1>2. /\ call[b] \in Call /\ call[b].policy \in Policies
      /\ CallOK("jwks_http", call[b])
      /\ call = [call EXCEPT ![b] = call[b]]
      /\ call[b].metadata \in MetadataDocs(call[b].policy) =>
                call[b].metadata.body \in Urls
  BY <1>1, CallTypes, NoMove, Zenon
<1>3. /\ call[b].metadata \in MetadataDocs(call[b].policy)
      /\ call[b].response = NoPayload
      /\ ~call[b].accepted
      /\ call[b].from_stale => SelectedOK(call[b])
  BY <1>2, Zenon DEF CallOK, OnJwks
<1>4. CASE call' = call
  <2>1. CallOK("jwks_complete", call[b])
    BY <1>3, Zenon DEF CallOK, OnMetadata, OnJwks
  <2> QED
    BY Zenon, <1>1, <1>2, <1>4, <2>1, HttpStep
<1>5. ASSUME NEW body \in JwksBodies, NEW l \in JwksLifetimes, NEW doc,
             doc = [source |-> Origin("jwks", call[b].policy,
                                      call[b].metadata.body),
                    at |-> clock, body |-> body, life |-> l],
             call' = [call EXCEPT ![b].response = doc]
      PROVE  IInv'
  <2> DEFINE c == [call[b] EXCEPT !.response = doc]
  <2>1. Origin("jwks", call[b].policy, call[b].metadata.body) \in Origins
    BY <1>2, <1>3, Zenon DEF Origin, Origins
  <2>2. doc \in JwksDocs(call[b].policy, call[b].metadata.body)
    BY <1>1, <1>5, <2>1, IssuerAssumption, Zenon DEF Document, JwksDocs
  <2>3. /\ c \in Call
        /\ c.policy = call[b].policy /\ c.kid = call[b].kid
        /\ c.metadata = call[b].metadata /\ c.selected = call[b].selected
        /\ c.response = doc
        /\ c.from_stale = call[b].from_stale
        /\ c.accepted = call[b].accepted
    BY <1>2, <2>2, Zenon DEF Call, JwksDocs
  <2>4. c.from_stale => SelectedOK(c)
    BY <1>3, <2>3, Zenon DEF SelectedOK
  <2>5. CallOK("jwks_complete", c)
    BY <1>3, <2>2, <2>3, <2>4, Zenon DEF CallOK, OnMetadata, OnJwks
  <2>6. call' = [call EXCEPT ![b] = c]
    BY Zenon, <1>5
  <2> QED
    BY Zenon, <1>1, <2>3, <2>5, <2>6, HttpStep
<1> QED
  BY Zenon, <1>4, <1>5 DEF JwksHttp

(* The completion of a JWKS refresh.                                       *)
LEMMA JwksCompleteKeeps ==
    ASSUME IInv, NEW b \in Backends, JwksComplete(b)
    PROVE  IInv'
<1>p. PICK doc, chosen, outcome, result, l, c :
        /\ doc = call[b].response
        /\ chosen = (doc # NoPayload /\ jwks_select(b, doc) = "ok")
        /\ outcome = IF chosen THEN response_outcome(doc) ELSE Failure
        /\ result = complete_result(refresh[b], outcome)
        /\ l = IF result THEN "jwks_notify" ELSE "idle"
        /\ c = IF keeps_stale(b) THEN [call[b] EXCEPT !.accepted = TRUE]
               ELSE IF outcome.success /\ result
               THEN [call[b] EXCEPT !.accepted = TRUE, !.selected = doc]
               ELSE IdleCall
  BY Zenon
<1>1. /\ TypeOK /\ pc[b] = "jwks_complete" /\ Holds(b)
      /\ CompleteRefresh(refresh[b], call[b].cache_now, outcome, Grace)
      /\ refresh' = [refresh EXCEPT ![b] = NoRefresh]
      /\ call' = [call EXCEPT ![b] = c]
      /\ pc' = [pc EXCEPT ![b] = l]
      /\ UNCHANGED <<clock, waitVars>>
  BY Zenon, <1>p DEF IInv, JwksComplete, At, Goto, Holds
<1>2. /\ call[b] \in Call /\ call[b].policy \in Policies
      /\ call[b].cache_now \in Time
      /\ CallOK("jwks_complete", call[b])
      /\ call[b].metadata \in MetadataDocs(call[b].policy) =>
                call[b].metadata.body \in Urls
  BY Zenon, <1>1, CallTypes
<1>3. /\ call[b].metadata \in MetadataDocs(call[b].policy)
      /\ call[b].from_stale => SelectedOK(call[b])
      /\ chosen => /\ doc \in JwksDocs(call[b].policy, call[b].metadata.body)
                   /\ jwks_select(b, doc) = "ok"
  BY Zenon, <1>p, <1>2 DEF CallOK
<1>4. HeldKey(b) = JwksKey(call[b].policy, call[b].metadata.body)
  BY <1>1, Zenon DEF HeldKey, JwksDocKey
<1>5. chosen => doc \in Payloads /\ FitsKey(doc, HeldKey(b))
  BY <1>2, <1>3, <1>4, Zenon DEF FitsKey, JwksDocs
<1>6. /\ outcome.ttl \in Nat
      /\ outcome.payload \in Payloads \cup {NoPayload}
      /\ outcome.success => chosen /\ FitsKey(outcome.payload, HeldKey(b))
  BY Zenon, <1>p, <1>5, OutcomeFits
<1>7. l \in {"jwks_notify", "idle"}
  BY <1>p, Zenon
<1>8. c \in Call /\ CallOK(l, c)
  <2>1. CASE keeps_stale(b)
    <3>1. c = [call[b] EXCEPT !.accepted = TRUE] /\ call[b].from_stale
      BY <1>p, <2>1, Zenon DEF keeps_stale
    <3>2. /\ c \in Call
          /\ c.policy = call[b].policy /\ c.kid = call[b].kid
          /\ c.metadata = call[b].metadata /\ c.selected = call[b].selected
      BY Zenon, <1>2, <3>1 DEF Call
    <3>3. SelectedOK(c)
      BY <1>3, <3>1, <3>2, Zenon DEF SelectedOK
    <3> QED
      BY <1>7, <3>2, <3>3, Zenon DEF CallOK, OnMetadata, OnJwks
  <2>2. CASE ~keeps_stale(b) /\ outcome.success /\ result
    <3>1. c = [call[b] EXCEPT !.accepted = TRUE, !.selected = doc] /\ chosen
      BY <1>p, <1>6, <2>2, Zenon
    <3>2. /\ c \in Call
          /\ c.policy = call[b].policy /\ c.kid = call[b].kid
          /\ c.metadata = call[b].metadata /\ c.selected = doc
      BY Zenon, <1>2, <1>5, <3>1 DEF Call
    <3>3. SelectedOK(c)
      BY <1>3, <3>1, <3>2, Zenon DEF SelectedOK, jwks_select
    <3> QED
      BY <1>7, <3>2, <3>3, Zenon DEF CallOK, OnMetadata, OnJwks
  <2>3. CASE ~keeps_stale(b) /\ ~(outcome.success /\ result)
    <3>1. c = IdleCall
      BY <1>p, <2>3, Zenon
    <3> QED
      BY <1>7, <3>1, IdleCallOK, Zenon
  <2> QED
    BY <2>1, <2>2, <2>3, Zenon
<1> QED
  BY ZenonT(30), <1>1, <1>2, <1>6, <1>7, <1>8, CompleteStep, IssuerAssumption

(* The stages of a wait move the wait and nothing else.                    *)
LEMMA WaitStepKeeps ==
    ASSUME IInv, NEW b \in Backends, WaitStep(b)
    PROVE  IInv'
<1>1. TypeOK
  BY Zenon DEF IInv
<1>2. UNCHANGED <<entries, next_serial, clock, pc, call, refresh>>
  BY Zenon DEF WaitStep, WaitPrepare, WaitCheck, WaitWake, WaitRecheck
<1>3. SharedTypeOK'
  <2>1. /\ clock \in 0 .. Horizon /\ 0 \in 0 .. Horizon
        /\ cv \subseteq Backends
        /\ wait \in [Backends -> WaitStages]
        /\ elapsed \in [Backends -> {0, WaitTimeout}]
        /\ asleep_at \in [Backends -> 0 .. Horizon]
        /\ CacheTypeOK
    BY <1>1, SharedAssumption, CacheAssumption DEF TypeOK, SharedTypeOK, Time
  <2>2. CacheTypeOK' /\ clock' \in 0 .. Horizon
    BY <1>2, <2>1, Zenon DEF CacheTypeOK
  <2>3. CASE WaitPrepare(b)
    BY <2>1, <2>2, <2>3, Zenon DEF WaitPrepare, PrepareToSleep, SharedTypeOK, WaitStages
  <2>4. CASE WaitCheck(b, WaitKey(b))
    BY <2>1, <2>2, <2>4, Zenon DEF WaitCheck, CancelSleep, SharedTypeOK, WaitStages
  <2>5. CASE WaitWake(b)
    BY <2>1, <2>2, <2>5, Zenon DEF WaitWake, SharedTypeOK, WaitStages
  <2>6. CASE WaitRecheck(b, WaitKey(b))
    BY <2>1, <2>2, <2>6, Zenon DEF WaitRecheck, CancelSleep, SharedTypeOK, WaitStages
  <2> QED
    BY <2>3, <2>4, <2>5, <2>6, Zenon DEF WaitStep
<1>4. TypeOK' /\ SameEntries /\ OthersStay(b)
  BY Zenon, <1>1, <1>2, <1>3, UnchangedEntries DEF TypeOK, OthersStay
<1>5. /\ Holds(b)' <=> Holds(b)
      /\ refresh'[b] = refresh[b] /\ HeldKey(b)' = HeldKey(b)
      /\ CallOK(pc'[b], call'[b])
  BY Zenon, <1>2, CallTypes DEF Holds, HeldKey, MetadataKey, JwksDocKey
<1> QED
  BY <1>4, <1>5, QuietBackend, Zenon

(* A wait that fails, or ends with the backend.                            *)
LEMMA WaitEndsKeeps ==
    ASSUME IInv, NEW b \in Backends, WaitFails(b) \/ ExitAsleep(b)
    PROVE  IInv'
<1>1. /\ TypeOK /\ CacheTypeOK
      /\ ~Holds(b)
      /\ WaitReturn(b)
      /\ Fail(b)
      /\ UNCHANGED <<cacheVars, clock>> /\ refresh' = refresh
  BY Zenon DEF IInv, TypeOK, SharedTypeOK, WaitFails, ExitAsleep, Waiting, Holds
<1>2. SameEntries /\ CacheTypeOK'
  BY <1>1, UnchangedEntries, Zenon DEF cacheVars, CacheTypeOK
<1> QED
  BY Zenon, <1>1, <1>2, WaitReturnTypes, FailStep

(* A restart brings back the initial state, but for the clock.             *)
LEMMA CrashRestartKeeps ==
    ASSUME IInv, CrashRestart
    PROVE  IInv'
<1> USE CacheAssumption, SharedAssumption
<1>1. TypeOK'
  <2>1. CacheTypeOK'
    BY ZeroEntryType DEF CrashRestart, CacheTypeOK, Serials
  <2>2. clock \in 0 .. Horizon
    BY Zenon DEF IInv, TypeOK, SharedTypeOK
  <2>3. SharedTypeOK'
    BY SMTT(30), <2>1, <2>2 DEF CrashRestart, SharedTypeOK, WaitStages, Time
  <2> QED
    BY <2>3, IdleCallOK, Zenon DEF CrashRestart, TypeOK, Locations
<1>2. \A i \in Slots : ~entries'[i].refreshing /\ ~entries'[i].has_value
  BY Zenon DEF CrashRestart, ZeroEntry
<1>3. EntriesHoldDocs'
  BY <1>2, Zenon DEF EntriesHoldDocs
<1>4. CallsOK'
  BY IdleCallOK, Zenon DEF CrashRestart, CallsOK
<1>5. OwnerKeepsEntry' /\ RefreshHasOneOwner'
  BY Zenon, <1>2 DEF CrashRestart, OwnerKeepsEntry, RefreshHasOneOwner, Holds
<1> QED
  BY <1>1, <1>3, <1>4, <1>5, Zenon DEF IInv

(* Nothing but the clock moves.                                            *)
LEMMA QuietStep ==
    ASSUME IInv, SharedTypeOK',
           UNCHANGED <<entries, next_serial, pc, call, refresh>>
    PROVE  IInv'
BY ZenonT(60) DEF IInv, TypeOK, EntriesHoldDocs, CallsOK, OwnerKeepsEntry, owns,
       RefreshHasOneOwner, Holds, HeldKey, MetadataKey, JwksDocKey

(* Time passes.                                                            *)
LEMMA TickKeeps ==
    ASSUME IInv, Tick
    PROVE  IInv'
<1>1. clock' \in 0 .. Horizon
  BY SharedAssumption, CacheAssumption DEF IInv, TypeOK, SharedTypeOK, Tick, Time
<1>2. SharedTypeOK'
  BY Zenon, <1>1 DEF IInv, TypeOK, SharedTypeOK, CacheTypeOK, Tick, cacheVars, waitVars
<1> QED
  BY <1>2, QuietStep, Zenon DEF Tick, cacheVars

(* Every step of the function preserves the invariant.                     *)
LEMMA BackendStepKeeps ==
    ASSUME IInv, NEW b \in Backends, BackendStep(b)
    PROVE  IInv'
BY Zenon, EarlyFailKeeps, MetaLookupKeeps, MetaBeginKeeps, MetaRelookupKeeps,
   MetaHttpKeeps, MetaCompleteKeeps, NotifyKeeps, JwksLookupKeeps,
   JwksBeginKeeps, JwksRelookupKeeps, JwksHttpKeeps, JwksCompleteKeeps,
   WaitStepKeeps, WaitEndsKeeps
DEF BackendStep

(* The invariant is inductive.                                             *)
LEMMA IssuerNext == IInv /\ [Next]_vars => IInv'
<1> SUFFICES ASSUME IInv, [Next]_vars PROVE IInv'
  BY Zenon
<1>1. CASE UNCHANGED vars
  <2>1. SharedTypeOK'
    BY <1>1, Zenon DEF IInv, TypeOK, SharedTypeOK, CacheTypeOK, vars
  <2> QED
    BY Zenon, <1>1, <2>1, QuietStep DEF vars
<1>2. ASSUME NEW b \in Backends, BackendStep(b) \/ Connect(b) \/ ExitAsleep(b)
      PROVE  IInv'
  BY <1>2, BackendStepKeeps, ConnectKeeps, WaitEndsKeeps, Zenon
<1> QED
  BY <1>1, <1>2, CrashRestartKeeps, TickKeeps, Zenon DEF Next

-----------------------------------------------------------------------------
(* What follows *)

(* The inductive invariant holds in every reachable state.                 *)
THEOREM IssuerInvariant == Spec => []IInv
BY IssuerInit, IssuerNext, PTL DEF Spec

(* The backends' variables, the wait and the cache keep their types.       *)
THEOREM IssuerTypes == Spec => []TypeOK
<1>1. IInv => TypeOK
  BY Zenon DEF IInv
<1> QED
  BY <1>1, IssuerInvariant, PTL

(* Whatever others do during its HTTP transfer, a backend that began a     *)
(* refresh finds the entry still its own when it completes it.             *)
THEOREM IssuerOwnerKeepsEntry == Spec => []OwnerKeepsEntry
<1>1. IInv => OwnerKeepsEntry
  BY Zenon DEF IInv
<1> QED
  BY <1>1, IssuerInvariant, PTL

(* An entry in progress has exactly one backend that works on it.          *)
THEOREM IssuerRefreshHasOneOwner == Spec => []RefreshHasOneOwner
<1>1. IInv => RefreshHasOneOwner
  BY Zenon DEF IInv
<1> QED
  BY <1>1, IssuerInvariant, PTL

(* The key a validation accepts comes from a JWKS document that was        *)
(* fetched under its own policy from the URL its own issuer's metadata     *)
(* names.                                                                  *)
THEOREM IssuerAcceptedFromOwnIssuer == Spec => []AcceptedFromOwnIssuer
<1>1. IInv => AcceptedFromOwnIssuer
  <2> SUFFICES ASSUME IInv, NEW b \in Backends, Accepted(b)
               PROVE  /\ call[b].metadata # NoPayload
                      /\ call[b].metadata.source =
                                Origin("metadata", call[b].policy, NoUrl)
                      /\ call[b].selected # NoPayload
                      /\ call[b].selected.source =
                                Origin("jwks", call[b].policy, call[b].metadata.body)
                      /\ jwks_select(b, call[b].selected) = "ok"
    BY Zenon DEF AcceptedFromOwnIssuer
  <2>1. SelectedOK(call[b])
    BY Zenon, CallTypes DEF CallOK, Accepted
  <2> QED
    BY ZenonT(30), <2>1, CacheAssumption DEF SelectedOK, MetadataDocs, JwksDocs, jwks_select
<1> QED
  BY <1>1, IssuerInvariant, PTL
=============================================================================
