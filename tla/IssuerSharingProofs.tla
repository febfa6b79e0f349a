------------------------ MODULE IssuerSharingProofs -------------------------
(***************************************************************************)
(* What backends get from one another, proved on top of IssuerKeyProofs:   *)
(* documents, no older than their headers allow, and wake-ups, none lost.  *)
(***************************************************************************)
EXTENDS IssuerKeyProofs

-----------------------------------------------------------------------------
(* How old the documents are that a call uses *)

\* Metadata is dated by the clock of the call that fetched it; a JWKS document
\* may be dated by one that is a wait timeout ahead.
Slack(k) == IF k.resource = "metadata" THEN 0 ELSE WaitTimeout

Expiry(d, slack) == d.at + d.life.ttl + slack

\* A document in the cache may be shared, until no later than its headers say.
EntryDated(e) ==
    e.has_value =>
        /\ e.payload.life.cacheable
        /\ e.fresh_until <= Expiry(e.payload, Slack(e.key))
        /\ e.stale_until <= Expiry(e.payload, Slack(e.key)) + GraceOf(e.payload)

EntriesDated == \A i \in Slots : EntryDated(entries[i])

\* The call goes on with its metadata, and with the key it selected.
UsesMetadata(l, c) ==
    \/ l \in OnJwks \cup {"jwks_lookup", "jwks_complete"}
    \/ l = "meta_notify" /\ c.metadata # NoPayload
    \/ c.accepted

UsesStale(l, c) == l \in OnJwks \cup {"jwks_complete"} /\ c.from_stale

\* The clocks of a call at time t, and what they say of its documents.
CallDated(l, c, t) ==
    /\ c.now <= t
    /\ c.now <= c.cache_now /\ c.cache_now <= c.now + WaitTimeout
    /\ l \in OnMetadata => c.cache_now = c.now
    /\ c.response # NoPayload => c.now <= c.response.at
    /\ UsesMetadata(l, c) => ReusableAt(c.metadata, c.now, 0, 0)
    /\ UsesStale(l, c) \/ c.accepted =>
            ReusableAt(c.selected, c.now, GraceOf(c.selected), WaitTimeout)
    /\ UsesStale(l, c) => c.selected.life.cacheable
    /\ c.accepted =>
            /\ c.response # NoPayload => c.selected = c.response
            /\ c.response = NoPayload => c.selected.life.cacheable

CallsDated == \A b \in Backends : CallDated(pc[b], call[b], clock)

Dated == EntriesDated /\ CallsDated

-----------------------------------------------------------------------------
(* Documents and entries *)

(* The numbers of a document.                                              *)
LEMMA DocTypes ==
    ASSUME NEW d \in Payloads
    PROVE  /\ d.at \in Nat /\ d.life.ttl \in Nat /\ GraceOf(d) \in Nat
           /\ d.life.cacheable \in BOOLEAN
           /\ d.life.revalidation_required \in BOOLEAN
           /\ \A k : Slack(k) \in Nat /\ Expiry(d, Slack(k)) \in Nat
<1>1. d.at \in 0 .. Horizon /\ d.life \in Lifetime
  BY IssuerAssumption, Zenon DEF Document
<1>2. d.at \in Nat /\ d.life.ttl \in Nat /\ Grace \in Nat /\ WaitTimeout \in Nat
  BY <1>1, IssuerAssumption, SharedAssumption DEF Lifetime
<1>3. \A k : Slack(k) \in Nat
  BY <1>2, Zenon DEF Slack
<1>4. \A k : Expiry(d, Slack(k)) \in Nat
  BY <1>2, <1>3 DEF Expiry
<1> QED
  BY <1>1, <1>2, <1>3, <1>4, Zenon DEF GraceOf, Lifetime

(* A lookup leaves the deadlines alone.                                    *)
LEMMA SameDated ==
    ASSUME TypeOK, SameEntries, EntriesDated
    PROVE  EntriesDated'
<1> SUFFICES ASSUME NEW i \in Slots PROVE EntryDated(entries'[i])
  BY Zenon DEF EntriesDated
<1>1. entries[i] \in Entry /\ EntryDated(entries[i])
  BY Zenon DEF TypeOK, SharedTypeOK, CacheTypeOK, EntriesDated
<1>2. /\ entries'[i].has_value = entries[i].has_value
      /\ entries'[i].payload = entries[i].payload
      /\ entries'[i].key = entries[i].key
      /\ entries'[i].fresh_until = entries[i].fresh_until
      /\ entries'[i].stale_until = entries[i].stale_until
  BY Zenon, <1>1 DEF SameEntries, Entry
<1> QED
  BY <1>1, <1>2, Zenon DEF EntryDated

(* A refresh that begins leaves a value and its deadlines alone, or clears *)
(* the entry.                                                              *)
LEMMA BeginDated ==
    ASSUME TypeOK, EntriesDated, NEW k \in Keys, NEW now \in Time,
           NEW unknown_kid \in BOOLEAN, NEW cooldown,
           begin_result(k, now, unknown_kid, cooldown) = "started",
           BeginRefresh(k, now, unknown_kid, cooldown)
    PROVE  EntriesDated'
<1>0. CacheTypeOK /\ next_serial \in Serials
  BY Zenon DEF TypeOK, SharedTypeOK, CacheTypeOK
<1>p. PICK i : i = find_refresh_slot(k, now)
  OBVIOUS
<1>1. /\ i \in Slots
      /\ \A j \in Slots \ {i} : entries'[j] = entries[j]
      /\ entries'[i] = started_entry(entries[i], k, now, unknown_kid, next_serial)
  BY <1>0, <1>p, BeginEffect, Zenon
<1>p2. PICK e, f : e = entries[i] /\ f = entries'[i]
  OBVIOUS
<1>2. /\ e \in Entry /\ EntryDated(e)
      /\ f = started_entry(e, k, now, unknown_kid, next_serial)
  BY <1>0, <1>1, <1>p2, Zenon DEF CacheTypeOK, EntriesDated
<1>3. EntryDated(f)
  <2> SUFFICES ASSUME f.has_value PROVE EntryDated(f)
    BY Zenon DEF EntryDated
  <2>1. same_key(e, k) /\ e.has_value
    BY <1>2, StartedValue
  <2>2. /\ f.key = k /\ f.payload = e.payload
        /\ f.fresh_until = e.fresh_until /\ f.stale_until = e.stale_until
    BY <1>2, <2>1, RestartedEntry
  <2> QED
    BY <1>2, <2>1, <2>2, Zenon DEF EntryDated, same_key
<1> QED
  BY <1>1, <1>p2, <1>3, Zenon DEF EntriesDated

(* bounded_add never exceeds the sum.                                      *)
LEMMA BoundedAddBelow ==
    ASSUME NEW t \in Time, NEW d \in Nat
    PROVE  bounded_add(t, d) <= t + d /\ bounded_add(t, d) \in Time
BY CacheAssumption DEF bounded_add, Time

(* A document published at a time no later than it was produced, but for   *)
(* the slack of its key, gets deadlines within its lifetime.               *)
LEMMA PublishDated ==
    ASSUME NEW e \in Entry, NEW d \in Payloads, NEW now \in Time,
           NEW grace \in 0 .. Grace, NEW f,
           f = published_entry(e, now, d.life.revalidation_required,
                               d.life.ttl, grace, d),
           d.life.cacheable, now <= d.at + Slack(e.key)
    PROVE  EntryDated(f)
<1>p. PICK s, until, late :
        /\ s = Slack(e.key)
        /\ until = bounded_add(now, d.life.ttl)
        /\ late = bounded_add(until, grace)
  OBVIOUS
<1>1. /\ d.at \in Nat /\ d.life.ttl \in Nat /\ GraceOf(d) \in Nat
      /\ d.life.revalidation_required \in BOOLEAN /\ s \in Nat
  BY <1>p, DocTypes, Zenon
<1>2. grace \in Nat /\ (~d.life.revalidation_required => grace <= GraceOf(d))
  BY IssuerAssumption DEF GraceOf
<1>3. until \in Time /\ until <= now + d.life.ttl
  BY <1>p, <1>1, BoundedAddBelow, Zenon
<1>4. late \in Time /\ late <= until + grace
  BY <1>p, <1>2, <1>3, BoundedAddBelow, Zenon
<1>5. /\ f.payload = d /\ f.key = e.key
      /\ f.fresh_until = until
      /\ f.stale_until = IF d.life.revalidation_required THEN until ELSE late
  BY <1>p, Zenon DEF published_entry, Entry
<1>6. now \in Nat /\ until \in Nat /\ late \in Nat
  BY <1>3, <1>4, CacheAssumption DEF Time
<1>7. until <= Expiry(d, s)
  BY <1>p, <1>1, <1>3, <1>6 DEF Expiry
<1>8. f.stale_until <= Expiry(d, s) + GraceOf(d)
  <2>1. Expiry(d, s) \in Nat
    BY <1>1 DEF Expiry
  <2> QED
    BY <1>1, <1>2, <1>4, <1>5, <1>6, <1>7, <2>1
<1> QED
  BY <1>p, <1>5, <1>7, <1>8, Zenon DEF EntryDated

(* A completion publishes a document with such deadlines or none.          *)
LEMMA CompleteDated ==
    ASSUME IInv, EntriesDated, NEW b \in Backends, Holds(b),
           NEW now \in Time, NEW grace \in 0 .. Grace, NEW d, NEW outcome,
           CompleteRefresh(refresh[b], now, outcome, grace),
           outcome \in {Failure, Success(d)},
           outcome.success => d \in Payloads /\ now <= d.at + Slack(HeldKey(b))
    PROVE  EntriesDated'
<1>0. CacheTypeOK /\ grace \in Nat
  BY IssuerAssumption DEF IInv, TypeOK, SharedTypeOK
<1>1. /\ outcome.ttl \in Nat /\ outcome.payload \in Payloads \cup {NoPayload}
      /\ outcome.success =>
            /\ outcome = Success(d) /\ d \in Payloads
            /\ now <= d.at + Slack(HeldKey(b))
            /\ outcome.payload = d /\ outcome.ttl = d.life.ttl
            /\ outcome.cacheable = d.life.cacheable
            /\ outcome.revalidation_required = d.life.revalidation_required
  <2>1. CASE outcome = Failure
    BY <2>1, Zenon DEF Failure
  <2>2. CASE outcome = Success(d)
    BY <2>2, DocTypes, Zenon DEF Success
  <2> QED
    BY <2>1, <2>2, Zenon
<1>p. PICK i, e, f : /\ i = refresh[b].entry_index
                     /\ e = entries[i] /\ f = entries'[i]
  OBVIOUS
<1>2. owns(refresh[b]) /\ i \in Slots /\ e.key = HeldKey(b)
  BY <1>p, Zenon DEF IInv, OwnerKeepsEntry, owns
<1>3. /\ \A j \in Slots \ {i} : entries'[j] = entries[j]
      /\ f = completed_entry(e, now, outcome, grace)
  BY <1>0, <1>1, <1>2, <1>p, CompleteEffect
<1>4. e \in Entry /\ EntryDated(e)
  BY <1>0, <1>2, <1>p, Zenon DEF CacheTypeOK, EntriesDated
<1>5. EntryDated(f)
  <2>1. CASE f = released_entry(e)
    <3>1. CASE e.has_value
      <4>1. /\ f.payload = e.payload /\ f.key = e.key
            /\ f.fresh_until = e.fresh_until /\ f.stale_until = e.stale_until
        BY <1>4, <2>1, <3>1, Zenon DEF released_entry, Entry
      <4> QED
        BY <1>4, <3>1, <4>1, Zenon DEF EntryDated
    <3>2. CASE ~e.has_value
      BY <2>1, <3>2, Zenon DEF released_entry, ZeroEntry, EntryDated
    <3> QED
      BY <3>1, <3>2, Zenon
  <2>2. CASE f = ZeroEntry
    BY <2>2, Zenon DEF ZeroEntry, EntryDated
  <2>3. CASE /\ outcome.success /\ outcome.cacheable
             /\ f = published_entry(e, now, outcome.revalidation_required,
                                    outcome.ttl, grace, outcome.payload)
    BY Zenon, <1>1, <1>2, <1>4, <2>3, PublishDated
  <2> QED
    BY <1>3, <2>1, <2>2, <2>3, Zenon DEF completed_entry
<1> QED
  BY <1>2, <1>3, <1>5, <1>p, Zenon DEF EntriesDated

(* What a lookup finds may be shared and has not expired.                  *)
LEMMA LookupDated ==
    ASSUME IInv, EntriesDated, NEW k, NEW now \in Time, NEW allow_stale,
           freshness(k, now, allow_stale) # "miss",
           NEW d, d = copy_payload(k)
    PROVE  /\ d \in Payloads /\ d.life.cacheable
           /\ freshness(k, now, allow_stale) = "fresh" => now < Expiry(d, Slack(k))
           /\ now < Expiry(d, Slack(k)) + GraceOf(d)
<1>p. PICK e : e = entries[First(Valued(k))]
  OBVIOUS
<1>1. Valued(k) # {} /\ Valued(k) \subseteq Nat
  BY CacheAssumption DEF freshness, Valued, Slots
<1>2. First(Valued(k)) \in Valued(k)
  BY <1>1, FirstIn, Zenon
<1>3. e \in Entry /\ e.has_value /\ e.key = k /\ e.payload = d /\ EntryDated(e)
  BY <1>2, <1>p, Zenon DEF Valued, same_key, copy_payload, EntriesDated,
                    IInv, TypeOK, SharedTypeOK, CacheTypeOK
<1>4. d \in Payloads
  BY CopyFits, Zenon DEF FitsKey, MetadataDocs, JwksDocs
<1>5. /\ Expiry(d, Slack(k)) \in Nat /\ GraceOf(d) \in Nat
      /\ now \in Nat /\ e.fresh_until \in Nat /\ e.stale_until \in Nat
  BY <1>3, <1>4, DocTypes, CacheAssumption DEF Entry, Time
<1>6. /\ d.life.cacheable
      /\ e.fresh_until <= Expiry(d, Slack(k))
      /\ e.stale_until <= Expiry(d, Slack(k)) + GraceOf(d)
  BY <1>3, Zenon DEF EntryDated
<1>7. /\ freshness(k, now, allow_stale) = "fresh" => now < e.fresh_until
      /\ now < e.fresh_until \/ now < e.stale_until
  BY <1>1, <1>p, Zenon DEF freshness
<1> QED
  BY <1>4, <1>5, <1>6, <1>7

-----------------------------------------------------------------------------
(* Calls *)

(* A step of b keeps the dates of all, if it keeps those of the entries    *)
(* and of its own call.                                                    *)
LEMMA BackendDated ==
    ASSUME TypeOK, Dated, NEW b \in Backends, NEW l, NEW c,
           pc' = [pc EXCEPT ![b] = l], call' = [call EXCEPT ![b] = c],
           clock' = clock, EntriesDated', CallDated(l, c, clock)
    PROVE  Dated'
<1>1. /\ pc'[b] = l /\ call'[b] = c
      /\ \A a \in Backends \ {b} : pc'[a] = pc[a] /\ call'[a] = call[a]
  BY Zenon DEF TypeOK
<1>2. \A a \in Backends : CallDated(pc'[a], call'[a], clock)
  BY <1>1, Zenon DEF Dated, CallsDated
<1> QED
  BY <1>2, Zenon DEF Dated, CallsDated

(* A call that has returned an error holds nothing that expires.           *)
LEMMA IdleDated ==
    ASSUME NEW t \in Nat, NEW l \in {"idle", "meta_notify", "jwks_notify"}
    PROVE  CallDated(l, IdleCall, t)
<1>1. /\ IdleCall.now = 0 /\ IdleCall.cache_now = 0
      /\ IdleCall.response = NoPayload /\ IdleCall.metadata = NoPayload
      /\ IdleCall.from_stale = FALSE /\ IdleCall.accepted = FALSE
  BY Zenon DEF IdleCall, NewCall
<1> QED
  BY <1>1, SharedAssumption
  DEF CallDated, UsesMetadata, UsesStale, OnMetadata, OnJwks

(* A failing step keeps the dates.                                         *)
LEMMA FailDated ==
    ASSUME TypeOK, Dated, NEW b \in Backends, Fail(b), clock' = clock,
           EntriesDated'
    PROVE  Dated'
<1>1. clock \in Nat
  BY DEF TypeOK, SharedTypeOK
<1>2. CallDated("idle", IdleCall, clock)
  BY <1>1, IdleDated, Zenon
<1> QED
  BY Zenon, <1>2, BackendDated DEF Fail, Goto

(* A step that returns the key of a document that may be shared and has    *)
(* not expired keeps the dates.                                            *)
LEMMA AcceptDated ==
    ASSUME IInv, Dated, NEW b \in Backends, NEW d \in Payloads, Accept(b, d),
           clock' = clock, EntriesDated', call[b].response = NoPayload,
           d.life.cacheable,
           ReusableAt(d, call[b].now, GraceOf(d), WaitTimeout),
           ReusableAt(call[b].metadata, call[b].now, 0, 0)
    PROVE  Dated'
<1>p. PICK c : c = [call[b] EXCEPT !.selected = d, !.accepted = TRUE]
  OBVIOUS
<1>1. /\ TypeOK /\ call[b] \in Call /\ CallDated(pc[b], call[b], clock)
  BY Zenon DEF IInv, TypeOK, Dated, CallsDated
<1>2. /\ c.now = call[b].now /\ c.cache_now = call[b].cache_now
      /\ c.response = NoPayload /\ c.metadata = call[b].metadata
      /\ c.selected = d
  BY <1>1, <1>p, Zenon DEF Call
<1>3. CallDated("idle", c, clock)
  BY <1>1, <1>2, Zenon DEF CallDated, UsesMetadata, UsesStale, OnMetadata, OnJwks
<1>4. pc' = [pc EXCEPT ![b] = "idle"] /\ call' = [call EXCEPT ![b] = c]
  BY Zenon, <1>p DEF Accept, Goto
<1> QED
  BY ZenonT(30), <1>1, <1>3, <1>4, BackendDated

(* The types of a backend's call and of its clocks.                        *)
LEMMA CallNumbers ==
    ASSUME IInv, Dated, NEW b \in Backends
    PROVE  /\ TypeOK /\ EntriesDated /\ clock \in Nat
           /\ call[b] \in Call /\ CallOK(pc[b], call[b])
           /\ CallDated(pc[b], call[b], clock)
           /\ call[b].now \in Nat /\ call[b].cache_now \in Nat
           /\ WaitTimeout \in Nat
<1>1. call[b].now \in Time /\ call[b].cache_now \in Time
  BY CallTypes, Zenon
<1>2. TypeOK /\ clock \in Nat /\ call[b] \in Call
  BY DEF IInv, TypeOK, SharedTypeOK
<1> QED
  BY <1>1, <1>2, CallTypes, CacheAssumption, SharedAssumption
  DEF Time, Dated, CallsDated

-----------------------------------------------------------------------------
(* One lemma per action *)

(* A client connects: the call has the clock's time.                       *)
LEMMA ConnectDated ==
    ASSUME IInv, Dated, NEW b \in Backends, Connect(b)
    PROVE  Dated'
<1>1. PICK p \in Policies, k \in Kids :
            call' = [call EXCEPT ![b] = NewCall(p, k, clock)]
  BY Zenon DEF Connect
<1>p. PICK c : c = NewCall(p, k, clock)
  OBVIOUS
<1>2. /\ pc' = [pc EXCEPT ![b] = "meta_lookup"]
      /\ entries' = entries /\ clock' = clock
  BY Zenon DEF Connect, Goto, sharedVars
<1>3. TypeOK /\ EntriesDated /\ clock \in Nat /\ WaitTimeout \in Nat
  BY CallNumbers, Zenon
<1>4. EntriesDated'
  BY <1>2, <1>3, Zenon DEF EntriesDated
<1>5. /\ c.now = clock /\ c.cache_now = clock /\ c.response = NoPayload
      /\ c.from_stale = FALSE /\ c.accepted = FALSE
  BY <1>p, Zenon DEF NewCall
<1>6. CallDated("meta_lookup", c, clock)
  BY <1>3, <1>5 DEF CallDated, UsesMetadata, UsesStale, OnMetadata, OnJwks
<1> QED
  BY Zenon, <1>1, <1>2, <1>3, <1>4, <1>6, <1>p, BackendDated

(* The ways out that change nothing but the call.                          *)
LEMMA EarlyFailDated ==
    ASSUME IInv, Dated, NEW b \in Backends,
           \/ SetupFails(b) \/ HostFails(b) \/ JwksKeyFails(b)
           \/ WaitFails(b) \/ ExitAsleep(b)
    PROVE  Dated'
<1>1. Fail(b) /\ entries' = entries /\ clock' = clock
  BY Zenon DEF SetupFails, HostFails, JwksKeyFails, WaitFails, ExitAsleep,
         sharedVars, cacheVars
<1>2. TypeOK /\ EntriesDated
  BY CallNumbers, Zenon
<1>3. EntriesDated'
  BY <1>1, <1>2, Zenon DEF EntriesDated
<1> QED
  BY <1>1, <1>2, <1>3, FailDated, Zenon

(* Metadata found in the cache has not expired when the call started.      *)
LEMMA MetaLookupDated ==
    ASSUME IInv, Dated, NEW b \in Backends, MetaLookup(b)
    PROVE  Dated'
<1>p. PICK k, now, d, c :
        /\ k = MetadataKey(b) /\ now = call[b].now /\ d = copy_payload(k)
        /\ c = [call[b] EXCEPT !.metadata = d]
  BY Zenon
<1>1. /\ pc[b] = "meta_lookup" /\ Lookup(k, now, FALSE) /\ clock' = clock
  BY Zenon, <1>p DEF MetaLookup, At
<1>2. /\ TypeOK /\ EntriesDated /\ call[b] \in Call
      /\ CallDated("meta_lookup", call[b], clock)
      /\ CallOK("meta_lookup", call[b]) /\ now \in Time /\ now \in Nat
  BY <1>1, <1>p, CallNumbers, CallTypes, Zenon
<1>3. EntriesDated'
  <2>1. SameEntries
    BY Zenon, <1>1, <1>2, LookupEffect DEF SameEntries, TypeOK, SharedTypeOK
  <2> QED
    BY <1>2, <2>1, SameDated, Zenon
<1>4. CASE freshness(k, now, FALSE) = "fresh"
  <2>1. d \in Payloads /\ d.life.cacheable /\ now < Expiry(d, Slack(k))
    BY Zenon, <1>2, <1>4, <1>p, LookupDated
  <2>2. ReusableAt(d, now, 0, 0)
    <3>1. Slack(k) = 0
      BY <1>p, Zenon DEF Slack, MetadataKey, MetaKey, Origin
    <3> QED
      BY <2>1, <3>1, DocTypes DEF ReusableAt, Expiry
  <2>3. /\ c.now = now /\ c.cache_now = call[b].cache_now
        /\ c.response = call[b].response /\ c.metadata = d
        /\ c.from_stale = call[b].from_stale /\ c.accepted = call[b].accepted
    BY <1>2, <1>p, Zenon DEF Call
  <2>4. CallDated("jwks_lookup", c, clock)
    BY <1>2, <1>p, <2>2, <2>3, Zenon
    DEF CallDated, UsesMetadata, UsesStale, OnMetadata, OnJwks, CallOK
  <2>5. pc' = [pc EXCEPT ![b] = "jwks_lookup"] /\ call' = [call EXCEPT ![b] = c]
    BY <1>4, <1>p, Zenon DEF MetaLookup, Goto
  <2> QED
    BY Zenon, <1>1, <1>2, <1>3, <2>4, <2>5, BackendDated
<1>5. CASE freshness(k, now, FALSE) # "fresh"
  <2>1. /\ pc' = [pc EXCEPT ![b] = "meta_begin"]
        /\ call' = [call EXCEPT ![b] = call[b]]
    BY <1>2, <1>5, <1>p, NoMove, Zenon DEF MetaLookup, Goto
  <2>2. CallDated("meta_begin", call[b], clock)
    BY <1>2, Zenon DEF CallDated, UsesMetadata, UsesStale, OnMetadata, OnJwks
  <2> QED
    BY Zenon, <1>1, <1>2, <1>3, <2>1, <2>2, BackendDated
<1> QED
  BY Zenon, <1>4, <1>5

(* begin_refresh keeps the deadlines, whether it starts a refresh or not.  *)
LEMMA AnyBeginDated ==
    ASSUME TypeOK, EntriesDated, NEW k \in Keys, NEW now \in Time,
           NEW unknown_kid \in BOOLEAN, NEW cooldown,
           BeginRefresh(k, now, unknown_kid, cooldown)
    PROVE  EntriesDated'
<1>1. CASE begin_result(k, now, unknown_kid, cooldown) = "started"
  BY <1>1, BeginDated, Zenon
<1>2. CASE begin_result(k, now, unknown_kid, cooldown) # "started"
  BY <1>2, RefusedBegin, SameDated, Zenon
<1> QED
  BY <1>1, <1>2, Zenon

(* begin_refresh for metadata.                                             *)
LEMMA MetaBeginDated ==
    ASSUME IInv, Dated, NEW b \in Backends, MetaBegin(b)
    PROVE  Dated'
<1>1. /\ pc[b] = "meta_begin" /\ clock' = clock
      /\ BeginRefresh(MetadataKey(b), call[b].now, FALSE, 0)
  BY Zenon DEF MetaBegin, At
<1>2. /\ TypeOK /\ EntriesDated /\ CallDated("meta_begin", call[b], clock)
      /\ MetadataKey(b) \in Keys /\ call[b].now \in Time
  BY <1>1, CallNumbers, CallTypes, Zenon
<1>3. EntriesDated'
  BY Zenon, <1>1, <1>2, AnyBeginDated
<1>4. CASE Fail(b)
  BY <1>1, <1>2, <1>3, <1>4, FailDated, Zenon
<1>5. CASE UNCHANGED call /\ (Goto(b, "meta_http") \/ Goto(b, "meta_wait"))
  <2>1. PICK l \in {"meta_http", "meta_wait"} : pc' = [pc EXCEPT ![b] = l]
    BY <1>5, Zenon DEF Goto
  <2>2. call' = [call EXCEPT ![b] = call[b]]
    BY <1>2, <1>5, NoMove, Zenon
  <2>3. CallDated(l, call[b], clock)
    BY <1>2, Zenon DEF CallDated, UsesMetadata, UsesStale, OnMetadata, OnJwks
  <2> QED
    BY Zenon, <1>1, <1>2, <1>3, <2>1, <2>2, <2>3, BackendDated
<1> QED
  BY Zenon, <1>4, <1>5 DEF MetaBegin

(* Metadata found after a wait had not expired when the call started; the  *)
(* call's clock is now one wait timeout ahead at most.                     *)
LEMMA MetaRelookupDated ==
    ASSUME IInv, Dated, NEW b \in Backends, MetaRelookup(b)
    PROVE  Dated'
<1>p. PICK k, now, d, c :
        /\ k = MetadataKey(b) /\ now = call[b].cache_now + elapsed[b]
        /\ d = copy_payload(k)
        /\ c = [call[b] EXCEPT !.cache_now = now, !.metadata = d]
  BY Zenon
<1>1. pc[b] = "meta_wait" /\ clock' = clock
  BY Zenon DEF MetaRelookup, At
<1>2. /\ TypeOK /\ EntriesDated /\ call[b] \in Call
      /\ CallDated("meta_wait", call[b], clock)
      /\ CallOK("meta_wait", call[b])
      /\ call[b].now \in Nat /\ call[b].cache_now \in Nat /\ WaitTimeout \in Nat
  BY <1>1, CallNumbers, Zenon
<1>3. elapsed[b] \in {0, WaitTimeout}
  BY <1>2, Zenon DEF TypeOK, SharedTypeOK
<1>4. /\ now \in Nat /\ call[b].now <= now /\ now <= call[b].now + WaitTimeout
  BY <1>2, <1>3, <1>p DEF CallDated, OnMetadata
<1>5. CASE Fail(b) /\ UNCHANGED cacheVars
  <2>1. EntriesDated'
    BY <1>2, <1>5, Zenon DEF EntriesDated, cacheVars
  <2> QED
    BY <1>1, <1>2, <1>5, <2>1, FailDated, Zenon
<1>6. CASE ~(now > TimeMax)
  <2>1. now \in Time
    BY <1>4, <1>6, CacheAssumption DEF Time
  <2>2. Lookup(k, now, FALSE)
    BY Zenon, <1>6, <1>p DEF MetaRelookup
  <2>3. EntriesDated'
    <3>1. SameEntries
      BY Zenon, <1>2, <2>1, <2>2, LookupEffect DEF SameEntries, TypeOK, SharedTypeOK
    <3> QED
      BY <1>2, <3>1, SameDated, Zenon
  <2>4. CASE Fail(b)
    BY <1>1, <1>2, <2>3, <2>4, FailDated, Zenon
  <2>5. CASE /\ freshness(k, now, FALSE) = "fresh"
             /\ pc' = [pc EXCEPT ![b] = "jwks_lookup"]
             /\ call' = [call EXCEPT ![b] = c]
    <3>1. d \in Payloads /\ d.life.cacheable /\ now < Expiry(d, Slack(k))
      BY Zenon, <1>2, <1>p, <2>1, <2>5, LookupDated
    <3>2. ReusableAt(d, call[b].now, 0, 0)
      <4>1. Slack(k) = 0
        BY <1>p, Zenon DEF Slack, MetadataKey, MetaKey, Origin
      <4> QED
        BY <1>2, <1>4, <3>1, <4>1, DocTypes DEF ReusableAt, Expiry
    <3>3. /\ c.now = call[b].now /\ c.cache_now = now
          /\ c.response = call[b].response /\ c.metadata = d
          /\ c.from_stale = call[b].from_stale /\ c.accepted = call[b].accepted
      BY <1>2, <1>p, Zenon DEF Call
    <3>4. CallDated("jwks_lookup", c, clock)
      BY Zenon, <1>2, <1>4, <3>2, <3>3
      DEF CallDated, UsesMetadata, UsesStale, OnMetadata, OnJwks, CallOK
    <3> QED
      BY Zenon, <1>1, <1>2, <2>3, <2>5, <3>4, BackendDated
  <2> QED
    BY Zenon, <1>6, <1>p, <2>4, <2>5 DEF MetaRelookup, Goto
<1> QED
  BY Zenon, <1>5, <1>6, <1>p DEF MetaRelookup

(* A response is produced after the call started.                          *)
LEMMA HttpDated ==
    ASSUME IInv, Dated, NEW b \in Backends, MetaHttp(b) \/ JwksHttp(b)
    PROVE  Dated'
<1>1. PICK l, m :
        /\ pc[b] = l /\ pc' = [pc EXCEPT ![b] = m]
        /\ \/ l = "meta_http" /\ m = "meta_complete"
           \/ l = "jwks_http" /\ m = "jwks_complete"
  BY Zenon DEF MetaHttp, JwksHttp, At, Goto
<1>2. entries' = entries /\ clock' = clock
  BY Zenon DEF MetaHttp, JwksHttp, sharedVars
<1>3. /\ TypeOK /\ EntriesDated /\ call[b] \in Call /\ clock \in Nat
      /\ CallDated(l, call[b], clock) /\ CallOK(l, call[b])
      /\ call[b].now \in Nat
  BY <1>1, CallNumbers, Zenon
<1>4. EntriesDated'
  BY <1>2, <1>3, Zenon DEF EntriesDated
<1>5. CASE UNCHANGED call
  <2>1. call' = [call EXCEPT ![b] = call[b]]
    BY <1>3, <1>5, NoMove, Zenon
  <2>2. CallDated(m, call[b], clock)
    BY ZenonT(30), <1>1, <1>3 DEF CallDated, UsesMetadata, UsesStale, OnMetadata, OnJwks
  <2> QED
    BY Zenon, <1>1, <1>2, <1>3, <1>4, <2>1, <2>2, BackendDated
<1>6. CASE \E d : d.at = clock /\ call' = [call EXCEPT ![b].response = d]
  <2>1. PICK d : d.at = clock /\ call' = [call EXCEPT ![b].response = d]
    BY Zenon, <1>6
  <2>p. PICK c : c = [call[b] EXCEPT !.response = d]
    BY ZenonT(30)
  <2>2. /\ c.now = call[b].now /\ c.cache_now = call[b].cache_now
        /\ c.response = d /\ c.metadata = call[b].metadata
        /\ c.selected = call[b].selected
        /\ c.from_stale = call[b].from_stale /\ c.accepted = call[b].accepted
    BY <1>3, <2>p, Zenon DEF Call
  <2>3. ~c.accepted
    BY <1>1, <1>3, <2>2, Zenon DEF CallOK, OnMetadata, OnJwks
  <2>4. CallDated(m, c, clock)
    BY <1>1, <1>3, <2>1, <2>2, <2>3, Zenon
    DEF CallDated, UsesMetadata, UsesStale, OnMetadata, OnJwks
  <2>5. call' = [call EXCEPT ![b] = c]
    BY <2>1, <2>p, Zenon
  <2> QED
    BY Zenon, <1>1, <1>2, <1>3, <1>4, <2>4, <2>5, BackendDated
<1>7. ASSUME NEW s, NEW body, NEW l2,
             call' = [call EXCEPT ![b].response =
                        [source |-> s, at |-> clock, body |-> body, life |-> l2]]
      PROVE  Dated'
  <2>1. [source |-> s, at |-> clock, body |-> body, life |-> l2].at = clock
    OBVIOUS
  <2> QED
    BY Zenon, <1>6, <1>7, <2>1
<1>8. CASE MetaHttp(b)
  BY <1>5, <1>7, <1>8, Zenon DEF MetaHttp
<1>9. CASE JwksHttp(b)
  BY <1>5, <1>7, <1>9, Zenon DEF JwksHttp
<1> QED
  BY <1>8, <1>9, Zenon

(* Metadata is published with the time the call started.                   *)
LEMMA MetaCompleteDated ==
    ASSUME IInv, Dated, NEW b \in Backends, MetaComplete(b)
    PROVE  Dated'
<1>p. PICK doc, parsed, outcome, result, l, c :
        /\ doc = call[b].response
        /\ parsed = (doc # NoPayload /\ doc.body # NoUrl)
        /\ outcome = IF parsed THEN response_outcome(doc) ELSE Failure
        /\ result = complete_result(refresh[b], outcome)
        /\ l = IF result THEN "meta_notify" ELSE "idle"
        /\ c = IF outcome.success /\ result
               THEN [call[b] EXCEPT !.response = NoPayload, !.metadata = doc]
               ELSE IdleCall
  BY ZenonT(30)
<1>1. /\ pc[b] = "meta_complete" /\ Holds(b)
      /\ CompleteRefresh(refresh[b], call[b].now, outcome, 0)
      /\ call' = [call EXCEPT ![b] = c]
      /\ pc' = [pc EXCEPT ![b] = l]
      /\ clock' = clock
  BY Zenon, <1>p DEF MetaComplete, At, Goto, Holds
<1>2. /\ TypeOK /\ EntriesDated /\ clock \in Nat /\ call[b] \in Call
      /\ CallDated("meta_complete", call[b], clock)
      /\ CallOK("meta_complete", call[b])
      /\ call[b].now \in Nat /\ call[b].now \in Time
  BY <1>1, CallNumbers, CallTypes, Zenon
<1>3. /\ outcome \in {Failure, Success(doc)}
      /\ outcome.success => parsed
  <2>1. Failure.success = FALSE
    BY Zenon DEF Failure
  <2> QED
    BY <1>p, <2>1, Zenon DEF response_outcome
<1>4. parsed => doc \in Payloads /\ call[b].now <= doc.at
  BY Zenon, <1>p, <1>2 DEF Call, CallDated
<1>5. EntriesDated'
  <2>1. Slack(HeldKey(b)) = 0
    BY <1>1, Zenon DEF Slack, HeldKey, MetadataKey, MetaKey, Origin
  <2>2. outcome.success =>
            doc \in Payloads /\ call[b].now <= doc.at + Slack(HeldKey(b))
    BY <1>2, <1>3, <1>4, <2>1, DocTypes
  <2>3. 0 \in 0 .. Grace
    BY IssuerAssumption
  <2> QED
    BY ZenonT(30), <1>1, <1>2, <1>3, <2>2, <2>3, CompleteDated
<1>6. CallDated(l, c, clock)
  <2>1. CASE outcome.success /\ result
    <3>1. /\ c.now = call[b].now /\ c.cache_now = call[b].cache_now
          /\ c.response = NoPayload /\ c.metadata = doc
          /\ c.from_stale = call[b].from_stale /\ c.accepted = call[b].accepted
      BY <1>2, <1>p, <2>1, Zenon DEF Call
    <3>2. ReusableAt(doc, c.now, 0, 0)
      BY <1>3, <1>4, <2>1, <3>1, Zenon DEF ReusableAt
    <3>3. l = "meta_notify" /\ ~c.accepted
      BY <1>2, <1>p, <2>1, <3>1, Zenon DEF CallOK
    <3> QED
      BY <1>2, <3>1, <3>2, <3>3, Zenon
      DEF CallDated, UsesMetadata, UsesStale, OnMetadata, OnJwks
  <2>2. CASE ~(outcome.success /\ result)
    <3>1. c = IdleCall /\ l \in {"idle", "meta_notify"}
      BY <1>p, <2>2, Zenon
    <3> QED
      BY <1>2, <3>1, IdleDated, Zenon
  <2> QED
    BY ZenonT(30), <2>1, <2>2
<1> QED
  BY Zenon, <1>1, <1>2, <1>5, <1>6, BackendDated

(* The broadcast changes no date.                                          *)
LEMMA NotifyDated ==
    ASSUME IInv, Dated, NEW b \in Backends, Notify(b)
    PROVE  Dated'
<1>p. PICK l : l = IF pc[b] = "meta_notify" /\ call[b].metadata # NoPayload
                   THEN "jwks_lookup" ELSE "idle"
  OBVIOUS
<1>1. /\ pc[b] \in {"meta_notify", "jwks_notify"}
      /\ pc' = [pc EXCEPT ![b] = l]
      /\ entries' = entries /\ clock' = clock /\ call' = call
  BY <1>p, Zenon DEF Notify, At, Goto
<1>2. /\ TypeOK /\ EntriesDated
      /\ CallDated(pc[b], call[b], clock) /\ CallOK(pc[b], call[b])
  BY CallNumbers, Zenon
<1>3. EntriesDated'
  BY <1>1, <1>2, Zenon DEF EntriesDated
<1>4. call' = [call EXCEPT ![b] = call[b]]
  BY <1>1, <1>2, NoMove, Zenon
<1>5. CallDated(l, call[b], clock)
  BY ZenonT(30), <1>1, <1>2, <1>p
  DEF CallDated, UsesMetadata, UsesStale, OnMetadata, OnJwks
<1> QED
  BY Zenon, <1>1, <1>2, <1>3, <1>4, <1>5, BackendDated

(* A key selected from the cache is from a document that has not expired,  *)
(* grace included, when the call started.                                  *)
LEMMA JwksFound ==
    ASSUME IInv, Dated, NEW b \in Backends, NEW now \in Time,
           call[b].now <= now, NEW allow_stale,
           freshness(JwksDocKey(b), now, allow_stale) # "miss",
           NEW d, d = copy_payload(JwksDocKey(b))
    PROVE  /\ d \in Payloads /\ d.life.cacheable
           /\ ReusableAt(d, call[b].now, GraceOf(d), WaitTimeout)
<1>1. /\ d \in Payloads /\ d.life.cacheable
      /\ now < Expiry(d, Slack(JwksDocKey(b))) + GraceOf(d)
  BY LookupDated, Zenon DEF Dated
<1>2. Slack(JwksDocKey(b)) = WaitTimeout
  BY Zenon DEF Slack, JwksDocKey, JwksKey, Origin
<1>3. /\ d.at \in Nat /\ d.life.ttl \in Nat /\ GraceOf(d) \in Nat
      /\ call[b].now \in Nat /\ WaitTimeout \in Nat /\ now \in Nat
  BY <1>1, DocTypes, CallNumbers, CacheAssumption DEF Time
<1> QED
  BY <1>1, <1>2, <1>3 DEF ReusableAt, Expiry

(* Looking for the JWKS document.                                          *)
LEMMA JwksLookupDated ==
    ASSUME IInv, Dated, NEW b \in Backends, JwksLookup(b)
    PROVE  Dated'
<1>p. PICK k, now, f, d, stale, unknown :
        /\ k = JwksDocKey(b) /\ now = call[b].cache_now
        /\ f = freshness(k, now, Grace > 0) /\ d = copy_payload(k)
        /\ stale = [call[b] EXCEPT !.selected = d, !.from_stale = TRUE]
        /\ unknown = [call[b] EXCEPT !.unknown_kid = TRUE]
  BY Zenon
<1>1. pc[b] = "jwks_lookup" /\ Lookup(k, now, Grace > 0) /\ clock' = clock
  BY <1>p, Zenon DEF JwksLookup, At
<1>2. /\ TypeOK /\ EntriesDated /\ call[b] \in Call
      /\ CallDated("jwks_lookup", call[b], clock)
      /\ CallOK("jwks_lookup", call[b])
      /\ call[b].now \in Nat /\ now \in Nat /\ now \in Time
  BY <1>1, <1>p, CallNumbers, CallTypes, Zenon
<1>3. /\ call[b].response = NoPayload /\ ~call[b].accepted /\ ~call[b].from_stale
      /\ call[b].now <= now
      /\ ReusableAt(call[b].metadata, call[b].now, 0, 0)
  BY <1>2, <1>p, Zenon DEF CallOK, CallDated, UsesMetadata
<1>4. EntriesDated'
  <2>1. SameEntries
    BY Zenon, <1>1, <1>2, LookupEffect DEF SameEntries, TypeOK, SharedTypeOK
  <2> QED
    BY <1>2, <2>1, SameDated, Zenon
<1>5. f # "miss" => /\ d \in Payloads /\ d.life.cacheable
                    /\ ReusableAt(d, call[b].now, GraceOf(d), WaitTimeout)
  BY <1>2, <1>3, <1>p, JwksFound, Zenon
<1>6. CASE Goto(b, "jwks_begin") /\ UNCHANGED call
  <2>1. /\ pc' = [pc EXCEPT ![b] = "jwks_begin"]
        /\ call' = [call EXCEPT ![b] = call[b]]
    BY <1>2, <1>6, NoMove, Zenon DEF Goto
  <2>2. CallDated("jwks_begin", call[b], clock)
    BY Zenon, <1>2, <1>3 DEF CallDated, UsesMetadata, UsesStale, OnMetadata, OnJwks
  <2> QED
    BY ZenonT(30), <1>1, <1>2, <1>4, <2>1, <2>2, BackendDated
<1>7. CASE f # "miss" /\ Accept(b, d)
  BY ZenonT(30), <1>1, <1>3, <1>4, <1>5, <1>7, AcceptDated
<1>8. CASE Fail(b)
  BY ZenonT(30), <1>1, <1>2, <1>4, <1>8, FailDated
<1>9. CASE /\ f # "miss" /\ pc' = [pc EXCEPT ![b] = "jwks_begin"]
           /\ call' = [call EXCEPT ![b] = stale]
  <2>1. /\ stale.now = call[b].now /\ stale.cache_now = call[b].cache_now
        /\ stale.response = call[b].response
        /\ stale.metadata = call[b].metadata /\ stale.selected = d
        /\ stale.accepted = call[b].accepted
    BY <1>2, <1>p, Zenon DEF Call
  <2>2. CallDated("jwks_begin", stale, clock)
    BY Zenon, <1>2, <1>3, <1>5, <1>9, <2>1
    DEF CallDated, UsesMetadata, UsesStale, OnMetadata, OnJwks
  <2> QED
    BY ZenonT(30), <1>1, <1>2, <1>4, <1>9, <2>2, BackendDated
<1>10. CASE /\ pc' = [pc EXCEPT ![b] = "jwks_begin"]
            /\ call' = [call EXCEPT ![b] = unknown]
  <2>1. /\ unknown.now = call[b].now /\ unknown.cache_now = call[b].cache_now
        /\ unknown.response = call[b].response
        /\ unknown.metadata = call[b].metadata
        /\ unknown.from_stale = call[b].from_stale
        /\ unknown.accepted = call[b].accepted
    BY <1>2, <1>p, Zenon DEF Call
  <2>2. CallDated("jwks_begin", unknown, clock)
    BY <1>2, <1>3, <2>1, Zenon
    DEF CallDated, UsesMetadata, UsesStale, OnMetadata, OnJwks
  <2> QED
    BY Zenon, <1>1, <1>2, <1>4, <1>10, <2>2, BackendDated
<1> QED
  BY Zenon, <1>6, <1>7, <1>8, <1>9, <1>10, <1>p DEF JwksLookup, Goto

(* begin_refresh for the JWKS document.  The stale key is from a document  *)
(* within its grace.                                                       *)
LEMMA JwksBeginDated ==
    ASSUME IInv, Dated, NEW b \in Backends, JwksBegin(b)
    PROVE  Dated'
<1>1. /\ pc[b] = "jwks_begin" /\ clock' = clock
      /\ BeginRefresh(JwksDocKey(b), call[b].cache_now, call[b].unknown_kid, Cooldown)
  BY ZenonT(30) DEF JwksBegin, At
<1>2. /\ TypeOK /\ EntriesDated /\ call[b] \in Call
      /\ CallDated("jwks_begin", call[b], clock)
      /\ CallOK("jwks_begin", call[b])
      /\ call[b].cache_now \in Time /\ call[b].unknown_kid \in BOOLEAN
      /\ JwksDocKey(b) \in Keys
  BY ZenonT(30), <1>1, CallNumbers, CallTypes DEF CallOK, OnJwks
<1>3. EntriesDated'
  BY ZenonT(30), <1>1, <1>2, AnyBeginDated
<1>4. CASE Fail(b)
  BY Zenon, <1>1, <1>2, <1>3, <1>4, FailDated
<1>5. CASE call[b].from_stale /\ Accept(b, call[b].selected)
  <2>1. /\ call[b].response = NoPayload /\ call[b].selected \in Payloads
    BY ZenonT(30), <1>2, <1>5 DEF CallOK, OnJwks, SelectedOK, JwksDocs
  <2>2. /\ call[b].selected.life.cacheable
        /\ ReusableAt(call[b].selected, call[b].now,
                      GraceOf(call[b].selected), WaitTimeout)
        /\ ReusableAt(call[b].metadata, call[b].now, 0, 0)
    BY Zenon, <1>2, <1>5 DEF CallDated, UsesStale, UsesMetadata, OnJwks
  <2> QED
    BY <1>1, <1>3, <1>5, <2>1, <2>2, AcceptDated, Zenon
<1>6. CASE UNCHANGED call /\ (Goto(b, "jwks_http") \/ Goto(b, "jwks_wait"))
  <2>1. PICK l \in {"jwks_http", "jwks_wait"} : pc' = [pc EXCEPT ![b] = l]
    BY <1>6, Zenon DEF Goto
  <2>2. call' = [call EXCEPT ![b] = call[b]]
    BY <1>2, <1>6, NoMove, Zenon
  <2>3. CallDated(l, call[b], clock)
    BY Zenon, <1>2 DEF CallDated, UsesMetadata, UsesStale, OnMetadata, OnJwks
  <2> QED
    BY ZenonT(30), <1>1, <1>2, <1>3, <2>1, <2>2, <2>3, BackendDated
<1> QED
  BY <1>4, <1>5, <1>6, Zenon DEF JwksBegin

(* The lookup after a wait for the JWKS document.                          *)
LEMMA JwksRelookupDated ==
    ASSUME IInv, Dated, NEW b \in Backends, JwksRelookup(b)
    PROVE  Dated'
<1>p. PICK k, now, d :
        /\ k = JwksDocKey(b) /\ now = call[b].cache_now + elapsed[b]
        /\ d = copy_payload(k)
  BY ZenonT(30)
<1>1. pc[b] = "jwks_wait" /\ clock' = clock
  BY Zenon DEF JwksRelookup, At
<1>2. /\ TypeOK /\ EntriesDated
      /\ CallDated("jwks_wait", call[b], clock)
      /\ CallOK("jwks_wait", call[b])
      /\ call[b].now \in Nat /\ call[b].cache_now \in Nat /\ WaitTimeout \in Nat
  BY <1>1, CallNumbers, Zenon
<1>3. elapsed[b] \in {0, WaitTimeout}
  BY <1>2, Zenon DEF TypeOK, SharedTypeOK
<1>4. now \in Nat /\ call[b].now <= now
  <2>1. call[b].now <= call[b].cache_now
    BY ZenonT(30), <1>2 DEF CallDated
  <2> QED
    BY <1>2, <1>3, <1>p, <2>1
<1>5. CASE Fail(b) /\ UNCHANGED cacheVars
  <2>1. EntriesDated'
    BY <1>2, <1>5, Zenon DEF EntriesDated, cacheVars
  <2> QED
    BY Zenon, <1>1, <1>2, <1>5, <2>1, FailDated
<1>6. CASE ~(now > TimeMax)
  <2>1. now \in Time
    BY <1>4, <1>6, CacheAssumption DEF Time
  <2>2. Lookup(k, now, Grace > 0)
    BY <1>6, <1>p, Zenon DEF JwksRelookup
  <2>3. EntriesDated'
    <3>1. SameEntries
      BY ZenonT(30), <1>2, <2>1, <2>2, LookupEffect DEF SameEntries, TypeOK, SharedTypeOK
    <3> QED
      BY <1>2, <3>1, SameDated, Zenon
  <2>4. CASE Fail(b)
    BY <1>1, <1>2, <2>3, <2>4, FailDated, Zenon
  <2>5. CASE freshness(k, now, Grace > 0) # "miss" /\ Accept(b, d)
    <3>1. /\ d \in Payloads /\ d.life.cacheable
          /\ ReusableAt(d, call[b].now, GraceOf(d), WaitTimeout)
      BY <1>4, <1>p, <2>1, <2>5, JwksFound, Zenon
    <3>2. /\ call[b].response = NoPayload
          /\ ReusableAt(call[b].metadata, call[b].now, 0, 0)
      BY Zenon, <1>2 DEF CallOK, CallDated, UsesMetadata, OnJwks
    <3> QED
      BY ZenonT(30), <1>1, <2>3, <2>5, <3>1, <3>2, AcceptDated
  <2> QED
    BY <1>6, <1>p, <2>4, <2>5 DEF JwksRelookup
<1> QED
  BY ZenonT(30), <1>5, <1>6, <1>p DEF JwksRelookup

(* complete_refresh for the JWKS document.  A stale key is kept only when  *)
(* no response came; a document that is chosen is newer than the call.     *)
LEMMA JwksCompleteDated ==
    ASSUME IInv, Dated, NEW b \in Backends, JwksComplete(b)
    PROVE  Dated'
<1>p. PICK doc, chosen, outcome, result, l, c :
        /\ doc = call[b].response
        /\ chosen = (doc # NoPayload /\ jwks_select(b, doc) = "ok")
        /\ outcome = IF chosen THEN response_outcome(doc) ELSE Failure
        /\ result = complete_result(refresh[b], outcome)
        /\ l = IF result THEN "jwks_notify" ELSE "idle"
        /\ c = IF keeps_stale(b) THEN [call[b] EXCEPT !.accepted = TRUE]
               ELSE IF outcome.success /\ result
               THEN [call[b] EXCEPT !.accepted = TRUE, !.selected = doc]
               ELSE IdleCall
  BY Zenon
<1>1. /\ pc[b] = "jwks_complete" /\ Holds(b)
      /\ CompleteRefresh(refresh[b], call[b].cache_now, outcome, Grace)
      /\ pc' = [pc EXCEPT ![b] = l]
      /\ clock' = clock
  BY Zenon, <1>p DEF JwksComplete, At, Goto, Holds
<1>2. call' = [call EXCEPT ![b] = c]
  BY ZenonT(30), <1>p DEF JwksComplete
<1>3. /\ TypeOK /\ EntriesDated /\ clock \in Nat /\ call[b] \in Call
      /\ CallDated("jwks_complete", call[b], clock)
      /\ CallOK("jwks_complete", call[b])
      /\ call[b].now \in Nat /\ call[b].cache_now \in Nat
      /\ call[b].cache_now \in Time /\ WaitTimeout \in Nat
  BY Zenon, <1>1, CallNumbers, CallTypes
<1>4. /\ outcome \in {Failure, Success(doc)}
      /\ outcome.success => chosen
  <2>1. Failure.success = FALSE
    BY Zenon DEF Failure
  <2> QED
    BY <1>p, <2>1, Zenon DEF response_outcome
<1>5. chosen => doc \in Payloads /\ call[b].now <= doc.at
  BY ZenonT(30), <1>p, <1>3 DEF Call, CallDated
<1>6. /\ call[b].cache_now <= call[b].now + WaitTimeout
      /\ call[b].now <= call[b].cache_now /\ call[b].now <= clock
      /\ ReusableAt(call[b].metadata, call[b].now, 0, 0)
      /\ call[b].from_stale =>
            /\ ReusableAt(call[b].selected, call[b].now,
                          GraceOf(call[b].selected), WaitTimeout)
            /\ call[b].selected.life.cacheable
  BY Zenon, <1>3 DEF CallDated, UsesMetadata, UsesStale
<1>7. EntriesDated'
  <2>1. Slack(HeldKey(b)) = WaitTimeout
    BY ZenonT(30), <1>1 DEF Slack, HeldKey, JwksDocKey, JwksKey, Origin
  <2>2. outcome.success => doc \in Payloads
                           /\ call[b].cache_now <= doc.at + Slack(HeldKey(b))
    BY <1>3, <1>4, <1>5, <1>6, <2>1, DocTypes, SMTT(30)
  <2>3. Grace \in 0 .. Grace
    BY IssuerAssumption
  <2> QED
    BY ZenonT(30), <1>1, <1>3, <1>4, <2>2, <2>3, CompleteDated
<1>8. CallDated(l, c, clock)
  <2>0. l \in {"jwks_notify", "idle"}
    BY <1>p, Zenon
  <2>1. CASE keeps_stale(b)
    <3>1. /\ c.now = call[b].now /\ c.cache_now = call[b].cache_now
          /\ c.response = call[b].response /\ c.metadata = call[b].metadata
          /\ c.selected = call[b].selected
          /\ call[b].response = NoPayload /\ call[b].from_stale
      BY <1>3, <1>p, <2>1, Zenon DEF Call, keeps_stale
    <3> QED
      BY <1>6, <2>0, <3>1, Zenon DEF CallDated, UsesMetadata, UsesStale, OnMetadata, OnJwks
  <2>2. CASE ~keeps_stale(b) /\ outcome.success /\ result
    <3>1. /\ c.now = call[b].now /\ c.cache_now = call[b].cache_now
          /\ c.response = call[b].response /\ c.metadata = call[b].metadata
          /\ c.selected = doc
      BY <1>3, <1>p, <2>2, Zenon DEF Call
    <3>2. /\ doc = call[b].response /\ doc # NoPayload /\ call[b].now <= doc.at
      BY Zenon, <1>p, <1>4, <1>5, <2>2
    <3>3. ReusableAt(doc, call[b].now, GraceOf(doc), WaitTimeout)
      BY <3>2, Zenon DEF ReusableAt
    <3> QED
      BY <1>6, <2>0, <3>1, <3>2, <3>3, Zenon
      DEF CallDated, UsesMetadata, UsesStale, OnMetadata, OnJwks
  <2>3. CASE ~keeps_stale(b) /\ ~(outcome.success /\ result)
    <3>1. c = IdleCall
      BY <1>p, <2>3, Zenon
    <3> QED
      BY <1>3, <2>0, <3>1, IdleDated, Zenon
  <2> QED
    BY <2>1, <2>2, <2>3, Zenon
<1> QED
  BY Zenon, <1>1, <1>2, <1>3, <1>7, <1>8, BackendDated

(* A restart forgets every date, and time passing keeps them: a call       *)
(* started no later than now.                                              *)
LEMMA OutsideDated ==
    ASSUME IInv, Dated,
           \/ CrashRestart \/ Tick \/ UNCHANGED vars
           \/ \E b \in Backends : WaitStep(b)
    PROVE  Dated'
<1>1. clock \in Nat /\ call \in [Backends -> Call] /\ EntriesDated /\ CallsDated
  BY DEF IInv, TypeOK, SharedTypeOK, Dated
<1>2. CASE CrashRestart
  <2>1. EntriesDated'
    <3>1. \A i \in Slots : entries'[i] = ZeroEntry
      BY <1>2, Zenon DEF CrashRestart
    <3>2. EntryDated(ZeroEntry)
      BY Zenon DEF EntryDated, ZeroEntry
    <3> QED
      BY <3>1, <3>2, Zenon DEF EntriesDated
  <2>2. CallsDated'
    <3>1. \A b \in Backends : pc'[b] = "idle" /\ call'[b] = IdleCall
      BY <1>2, Zenon DEF CrashRestart
    <3>2. clock' = clock
      BY <1>2, Zenon DEF CrashRestart
    <3>3. CallDated("idle", IdleCall, clock)
      BY <1>1, IdleDated, Zenon
    <3> QED
      BY <3>1, <3>2, <3>3, Zenon DEF CallsDated
  <2> QED
    BY <2>1, <2>2, Zenon DEF Dated
<1>3. CASE Tick
  <2>1. entries' = entries /\ pc' = pc /\ call' = call /\ clock' = clock + 1
    BY <1>3, Zenon DEF Tick, cacheVars
  <2>2. ASSUME NEW b \in Backends PROVE CallDated(pc[b], call[b], clock + 1)
    <3>1. CallDated(pc[b], call[b], clock) /\ call[b].now \in Nat
      BY ZenonT(30), <1>1, CallNumbers DEF CallsDated
    <3>2. call[b].now <= clock + 1
      <4>1. call[b].now <= clock
        BY ZenonT(30), <3>1 DEF CallDated
      <4> QED
        BY <1>1, <3>1, <4>1
    <3> QED
      BY ZenonT(30), <3>1, <3>2 DEF CallDated
  <2> QED
    BY <1>1, <2>1, <2>2, Zenon DEF Dated, EntriesDated, CallsDated
<1>4. CASE UNCHANGED vars \/ \E b \in Backends : WaitStep(b)
  <2>1. entries' = entries /\ pc' = pc /\ call' = call /\ clock' = clock
    BY <1>4, Zenon DEF vars, WaitStep, WaitPrepare, WaitCheck, WaitWake, WaitRecheck
  <2> QED
    BY <1>1, <2>1, Zenon DEF Dated, EntriesDated, CallsDated
<1> QED
  BY <1>2, <1>3, <1>4, Zenon

(* No document has been used when the system starts.                       *)
LEMMA DatedInit == Init => Dated
<1> SUFFICES ASSUME Init PROVE Dated
  OBVIOUS
<1>1. /\ entries = [i \in Slots |-> ZeroEntry]
      /\ clock = 0
      /\ pc = [b \in Backends |-> "idle"]
      /\ call = [b \in Backends |-> IdleCall]
  BY Zenon DEF Init, SharedInit, CacheInit
<1>2. EntryDated(ZeroEntry)
  BY Zenon DEF EntryDated, ZeroEntry
<1>3. CallDated("idle", IdleCall, 0)
  BY IdleDated, Zenon
<1> QED
  BY <1>1, <1>2, <1>3, Zenon DEF Dated, EntriesDated, CallsDated

(* Every step keeps the dates.                                             *)
LEMMA DatedNext == IInv /\ Dated /\ [Next]_vars => Dated'
<1> SUFFICES ASSUME IInv, Dated, [Next]_vars PROVE Dated'
  OBVIOUS
<1>1. ASSUME NEW b \in Backends, BackendStep(b) \/ Connect(b) \/ ExitAsleep(b)
      PROVE  Dated'
  <2>1. CASE SetupFails(b) \/ HostFails(b) \/ JwksKeyFails(b)
             \/ WaitFails(b) \/ ExitAsleep(b)
    BY <2>1, EarlyFailDated, Zenon
  <2>2. CASE MetaHttp(b) \/ JwksHttp(b)
    BY <2>2, HttpDated, Zenon
  <2>3. CASE WaitStep(b)
    BY <2>3, OutsideDated, Zenon
  <2> QED
    BY <1>1, <2>1, <2>2, <2>3, ConnectDated, MetaLookupDated, MetaBeginDated,
       MetaRelookupDated, MetaCompleteDated, NotifyDated, JwksLookupDated,
       JwksBeginDated, JwksRelookupDated, JwksCompleteDated, ZenonT(60) DEF BackendStep
<1> QED
  BY <1>1, OutsideDated, Zenon DEF Next

(* The dates hold in every reachable state.                                *)
THEOREM IssuerDates == Spec => []Dated
BY IssuerInvariant, DatedInit, DatedNext, PTL DEF Spec

(* No document outlives its lifetime, whichever backend fetched it, and    *)
(* however calls, waits and refreshes interleave.                          *)
THEOREM IssuerReuseWithinLifetime == Spec => []ReuseWithinLifetime
<1>1. Dated => ReuseWithinLifetime
  BY ZenonT(30) DEF Dated, CallsDated, CallDated, UsesMetadata, ReuseWithinLifetime, Accepted
<1> QED
  BY <1>1, IssuerDates, PTL

(* A key from a no-store response serves only the call that fetched it.    *)
THEOREM IssuerNoStoreNotShared == Spec => []NoStoreNotShared
<1>1. Dated => NoStoreNotShared
  BY ZenonT(30) DEF Dated, CallsDated, CallDated, NoStoreNotShared, Accepted
<1> QED
  BY <1>1, IssuerDates, PTL

(* A call that received a JWKS document accepts no key but one of it.      *)
THEOREM IssuerReceivedJwksDecides == Spec => []ReceivedJwksDecides
<1>1. Dated => ReceivedJwksDecides
  BY Zenon DEF Dated, CallsDated, CallDated, ReceivedJwksDecides, Accepted
<1> QED
  BY <1>1, IssuerDates, PTL

-----------------------------------------------------------------------------
(* Waiters: what holds while a backend sleeps *)

\* Some entry is in progress for k.
InProgress(k) ==
    \E i \in Slots : same_key(entries[i], k) /\ entries[i].refreshing

\* A completing backend has yet to broadcast.
MustNotify(b) == pc[b] \in {"meta_notify", "jwks_notify"}

\* The wait function runs only while its caller waits.
OnlyWaitersWait == \A b \in Backends : wait[b] # "none" => Waiting(b)

WakeInv == UniqueKeys /\ OnlyWaitersWait /\ NoLostWakeup

-----------------------------------------------------------------------------
(* Nobody sleeps through the end of a refresh *)

(* With one entry a key, the first entry of the key tells whether any is   *)
(* in progress.                                                            *)
LEMMA RefreshingIff ==
    ASSUME UniqueKeys, NEW k
    PROVE  is_refreshing(k) <=> InProgress(k)
<1>1. Existing(k) \subseteq Nat
  BY CacheAssumption DEF Existing, Slots
<1>2. Existing(k) # {} => First(Existing(k)) \in Existing(k)
  BY <1>1, FirstIn, Zenon
<1>3. ASSUME is_refreshing(k) PROVE InProgress(k)
  BY <1>2, <1>3, Zenon DEF is_refreshing, InProgress, Existing
<1>4. ASSUME InProgress(k) PROVE is_refreshing(k)
  <2>1. PICK i \in Slots : same_key(entries[i], k) /\ entries[i].refreshing
    BY <1>4, Zenon DEF InProgress
  <2>2. Existing(k) # {} /\ First(Existing(k)) \in Existing(k)
    BY <1>2, <2>1, Zenon DEF Existing
  <2>3. First(Existing(k)) = i
    BY <2>1, <2>2, Zenon DEF Existing, same_key, UniqueKeys
  <2> QED
    BY <2>1, <2>2, <2>3, Zenon DEF is_refreshing
<1> QED
  BY <1>3, <1>4, Zenon

(* The same in the next state.                                             *)
LEMMA RefreshingIffNext ==
    ASSUME UniqueKeys', NEW k
    PROVE  is_refreshing(k)' <=> InProgress(k)'
<1>1. /\ Existing(k)' = {i \in Slots : same_key(entries'[i], k)}
      /\ Existing(k)' \subseteq Nat
  BY CacheAssumption DEF Existing, Slots, same_key
<1>2. Existing(k)' # {} => First(Existing(k)') \in Existing(k)'
  BY <1>1, FirstIn, Zenon
<1>3. is_refreshing(k)' <=>
        Existing(k)' # {} /\ entries'[First(Existing(k)')].refreshing
  BY Zenon DEF is_refreshing
<1>4. ASSUME InProgress(k)' PROVE is_refreshing(k)'
  <2>1. PICK i \in Slots : same_key(entries'[i], k) /\ entries'[i].refreshing
    BY <1>4, Zenon DEF InProgress, same_key
  <2>2. Existing(k)' # {} /\ First(Existing(k)') \in Existing(k)'
    BY <1>1, <1>2, <2>1, Zenon
  <2>3. First(Existing(k)') = i
    BY <1>1, <2>1, <2>2, Zenon DEF same_key, UniqueKeys
  <2> QED
    BY <1>3, <2>1, <2>2, <2>3, Zenon
<1>5. ASSUME is_refreshing(k)' PROVE InProgress(k)'
  BY <1>1, <1>2, <1>3, <1>5, Zenon DEF InProgress, same_key
<1> QED
  BY <1>4, <1>5, Zenon

\* No refresh ends, and a key has one entry still.
KeepsRefreshes == UniqueKeys' /\ \A k : InProgress(k) => InProgress(k)'

(* A lookup ends no refresh.                                               *)
LEMMA SameKeeps ==
    ASSUME TypeOK, UniqueKeys, SameEntries
    PROVE  KeepsRefreshes
<1>1. \A i \in Slots : /\ entries'[i].occupied = entries[i].occupied
                        /\ entries'[i].key = entries[i].key
                        /\ entries'[i].refreshing = entries[i].refreshing
  BY SameFields, Zenon
<1> QED
  BY <1>1, ZenonT(60) DEF KeepsRefreshes, UniqueKeys, InProgress, same_key

(* begin_refresh ends no refresh: the slot it takes is not in progress.    *)
LEMMA BeginKeeps ==
    ASSUME TypeOK, UniqueKeys, NEW k \in Keys, NEW now \in Time,
           NEW unknown_kid \in BOOLEAN, NEW cooldown,
           BeginRefresh(k, now, unknown_kid, cooldown)
    PROVE  KeepsRefreshes
<1>0. CacheTypeOK
  BY Zenon DEF TypeOK, SharedTypeOK
<1>1. CASE begin_result(k, now, unknown_kid, cooldown) # "started"
  BY <1>1, RefusedBegin, SameKeeps, Zenon
<1>2. CASE begin_result(k, now, unknown_kid, cooldown) = "started"
  <2>1. PICK i : i = find_refresh_slot(k, now)
    OBVIOUS
  <2>2. /\ i \in Slots
        /\ \/ same_key(entries[i], k) /\ ~entries[i].refreshing
           \/ /\ Existing(k) = {}
              /\ ~entries[i].occupied \/ i \in Evictable(now)
        /\ \A j \in Slots \ {i} : entries'[j] = entries[j]
        /\ entries'[i] = started_entry(entries[i], k, now, unknown_kid,
                                       next_serial)
    BY ZenonT(30), <1>0, <1>2, <2>1, BeginEffect
  <2>3. ~(entries[i].occupied /\ entries[i].refreshing)
    BY ZenonT(30), <2>2 DEF Evictable
  <2>4. /\ entries'[i].occupied /\ entries'[i].key = k
    BY <1>0, <2>2, StartedEntry DEF CacheTypeOK, same_key
  <2>5. \A j \in Slots \ {i} : ~(entries[j].occupied /\ entries[j].key = k)
    BY ZenonT(30), <2>2 DEF UniqueKeys, same_key, Existing
  <2>6. UniqueKeys'
    BY ZenonT(60), <2>2, <2>4, <2>5 DEF UniqueKeys
  <2>7. ASSUME NEW q, InProgress(q) PROVE InProgress(q)'
    <3>1. PICK j \in Slots : same_key(entries[j], q) /\ entries[j].refreshing
      BY <2>7, Zenon DEF InProgress
    <3>2. j # i
      BY <2>3, <3>1, Zenon DEF same_key
    <3> QED
      BY Zenon, <2>2, <3>1, <3>2 DEF InProgress, same_key
  <2> QED
    BY <2>6, <2>7, Zenon DEF KeepsRefreshes
<1> QED
  BY <1>1, <1>2, Zenon

(* complete_refresh ends at most one refresh.                              *)
LEMMA CompleteUnique ==
    ASSUME TypeOK, UniqueKeys, NEW r, NEW now \in Time, NEW grace \in Nat,
           NEW outcome, outcome.ttl \in Nat,
           outcome.payload \in Payloads \cup {NoPayload},
           CompleteRefresh(r, now, outcome, grace)
    PROVE  UniqueKeys'
<1>0. CacheTypeOK
  BY Zenon DEF TypeOK, SharedTypeOK
<1>1. CASE ~owns(r)
  <2>1. entries' = entries
    BY ZenonT(30), <1>0, <1>1, CompleteEffect
  <2> QED
    BY <2>1, Zenon DEF UniqueKeys
<1>2. CASE owns(r)
  <2>1. PICK i : i = r.entry_index
    OBVIOUS
  <2>2. /\ i \in Slots
        /\ \A j \in Slots \ {i} : entries'[j] = entries[j]
        /\ entries'[i] = completed_entry(entries[i], now, outcome, grace)
        /\ entries[i].occupied
    BY ZenonT(60), <1>0, <1>2, <2>1, CompleteEffect DEF owns
  <2>3. entries'[i].occupied => entries'[i].key = entries[i].key
    BY <1>0, <2>2, CompletedEntry DEF CacheTypeOK
  <2> QED
    BY <2>2, <2>3 DEF UniqueKeys
<1> QED
  BY <1>1, <1>2, Zenon

\* The other backends neither move nor join the queue.
OthersSleepOn(b) ==
    \A a \in Backends \ {b} :
        /\ pc'[a] = pc[a] /\ call'[a] = call[a] /\ wait'[a] = wait[a]
        /\ a \in cv' => a \in cv

(* A step of b leaves no sleeper behind if it ends no refresh, or owes a   *)
(* broadcast for the one it ended, or broadcasts.                          *)
LEMMA WakeStep ==
    ASSUME WakeInv, NEW b \in Backends, UniqueKeys', OthersSleepOn(b),
           \/ (\A k : InProgress(k) => InProgress(k)') /\ ~MustNotify(b)
           \/ MustNotify(b)'
           \/ cv' = {},
           wait'[b] # "none" => Waiting(b)',
           wait'[b] = "sleep" /\ b \in cv' => is_refreshing(WaitKey(b))'
    PROVE  WakeInv'
<1>1. OnlyWaitersWait'
  BY Zenon DEF WakeInv, OnlyWaitersWait, Waiting, OthersSleepOn
<1>2. ASSUME NEW a \in Backends, wait'[a] = "sleep", a \in cv'
      PROVE  is_refreshing(WaitKey(a))' \/ \E c \in Backends : MustNotify(c)'
  <2>1. CASE a = b
    BY <1>2, <2>1, Zenon
  <2>2. CASE a # b /\ MustNotify(b)'
    BY ZenonT(30), <2>2
  <2>3. CASE a # b /\ ~MustNotify(b)'
    <3>1. /\ \A k : InProgress(k) => InProgress(k)'
          /\ ~MustNotify(b)
      BY ZenonT(30), <1>2, <2>3
    <3>2. /\ wait[a] = "sleep" /\ a \in cv
          /\ pc'[a] = pc[a] /\ call'[a] = call[a]
      BY Zenon, <1>2, <2>3 DEF OthersSleepOn
    <3>3. CASE is_refreshing(WaitKey(a))
      <4>1. WaitKey(a)' = WaitKey(a)
        BY <3>2, Zenon DEF WaitKey, MetadataKey, JwksDocKey
      <4>2. PICK k : k = WaitKey(a)
        OBVIOUS
      <4>3. InProgress(k)'
        BY <3>1, <3>3, <4>2, RefreshingIff, Zenon DEF WakeInv
      <4>4. is_refreshing(k)'
        BY <4>3, RefreshingIffNext, Zenon
      <4> QED
        BY <4>1, <4>2, <4>4 DEF is_refreshing, Existing, same_key
    <3>4. CASE \E c \in Backends : MustNotify(c)
      BY <3>1, <3>4, Zenon DEF OthersSleepOn, MustNotify
    <3> QED
      BY <3>2, <3>3, <3>4, Zenon DEF WakeInv, NoLostWakeup, MustNotify
  <2> QED
    BY <2>1, <2>2, <2>3, Zenon
<1> QED
  BY ZenonT(30), <1>1, <1>2 DEF WakeInv, NoLostWakeup, MustNotify

(* A backend that does not wait moves on and leaves the queue alone.       *)
LEMMA AwakeStep ==
    ASSUME TypeOK, WakeInv, NEW b \in Backends, NEW l, NEW c,
           pc' = [pc EXCEPT ![b] = l], call' = [call EXCEPT ![b] = c],
           UNCHANGED waitVars, ~Waiting(b), UniqueKeys',
           (\A k : InProgress(k) => InProgress(k)') \/ MustNotify(b)',
           ~MustNotify(b)
    PROVE  WakeInv'
<1>1. OthersSleepOn(b) /\ wait'[b] = "none"
  BY Zenon DEF TypeOK, SharedTypeOK, OthersSleepOn, waitVars, WakeInv, OnlyWaitersWait
<1> QED
  BY <1>1, WakeStep, Zenon

(* A backend leaves the wait, and the queue with it.                       *)
LEMMA LeaveStep ==
    ASSUME TypeOK, WakeInv, NEW b \in Backends, NEW l, NEW c,
           pc' = [pc EXCEPT ![b] = l], call' = [call EXCEPT ![b] = c],
           WaitReturn(b), ~MustNotify(b), KeepsRefreshes
    PROVE  WakeInv'
<1>1. OthersSleepOn(b) /\ wait'[b] = "none"
  BY Zenon DEF TypeOK, SharedTypeOK, OthersSleepOn, WaitReturn, CancelSleep
<1> QED
  BY <1>1, WakeStep, Zenon DEF KeepsRefreshes

(* Steps that touch neither the cache nor the queue.                       *)
LEMMA LocalWake ==
    ASSUME IInv, WakeInv, NEW b \in Backends,
           \/ Connect(b) \/ SetupFails(b) \/ HostFails(b) \/ JwksKeyFails(b)
           \/ MetaHttp(b) \/ JwksHttp(b)
    PROVE  WakeInv'
<1>1. TypeOK /\ UniqueKeys
  BY Zenon DEF IInv, WakeInv
<1>2. /\ entries' = entries /\ UNCHANGED waitVars
      /\ pc[b] \in {"idle", "meta_lookup", "jwks_lookup", "meta_http", "jwks_http"}
  BY Zenon DEF Connect, SetupFails, HostFails, JwksKeyFails, MetaHttp, JwksHttp, At,
         sharedVars, waitVars
<1>3. ~Waiting(b) /\ ~MustNotify(b)
  BY <1>2, Zenon DEF Waiting, MustNotify
<1>4. \E l : pc' = [pc EXCEPT ![b] = l]
  BY Zenon DEF Connect, SetupFails, HostFails, JwksKeyFails, MetaHttp, JwksHttp, Goto,
         Fail
<1>5. \E c : call' = [call EXCEPT ![b] = c]
  <2>1. CASE Connect(b) \/ SetupFails(b) \/ HostFails(b) \/ JwksKeyFails(b)
    BY <2>1, Zenon DEF Connect, SetupFails, HostFails, JwksKeyFails, Fail
  <2>2. CASE MetaHttp(b) \/ JwksHttp(b)
    <3>1. CASE call' = call
      BY <1>1, <3>1, NoMove, Zenon
    <3>2. CASE \E d : call' = [call EXCEPT ![b].response = d]
      BY ZenonT(30), <3>2
    <3> QED
      BY <2>2, <3>1, <3>2, Zenon DEF MetaHttp, JwksHttp
  <2> QED
    BY <2>1, <2>2, Zenon
<1>6. KeepsRefreshes
  BY <1>1, <1>2, UnchangedEntries, SameKeeps, Zenon
<1> QED
  BY Zenon, <1>1, <1>2, <1>3, <1>4, <1>5, <1>6, AwakeStep DEF KeepsRefreshes

(* The two lookups.                                                        *)
LEMMA LookupWake ==
    ASSUME IInv, WakeInv, NEW b \in Backends, MetaLookup(b) \/ JwksLookup(b)
    PROVE  WakeInv'
<1>1. /\ TypeOK /\ UniqueKeys /\ call[b].now \in Time /\ call[b].cache_now \in Time
  BY Zenon, CallTypes DEF IInv, WakeInv
<1>2. PICK k, now, allow_stale : now \in Time /\ Lookup(k, now, allow_stale)
  BY Zenon, <1>1 DEF MetaLookup, JwksLookup
<1>3. KeepsRefreshes
  <2>1. SameEntries
    BY Zenon, <1>1, <1>2, LookupEffect DEF SameEntries, TypeOK, SharedTypeOK
  <2> QED
    BY <1>1, <2>1, SameKeeps, Zenon
<1>4. /\ UNCHANGED waitVars /\ pc[b] \in {"meta_lookup", "jwks_lookup"}
  BY Zenon DEF MetaLookup, JwksLookup, At
<1>5. ~Waiting(b) /\ ~MustNotify(b)
  BY <1>4, Zenon DEF Waiting, MustNotify
<1>6. /\ \E l : pc' = [pc EXCEPT ![b] = l]
      /\ \E c : call' = [call EXCEPT ![b] = c]
  <2>1. \E l : pc' = [pc EXCEPT ![b] = l]
    BY Zenon DEF MetaLookup, JwksLookup, Goto, Fail, Accept
  <2>2. CASE call' = call
    BY Zenon, <1>1, <2>1, <2>2, NoMove
  <2>3. CASE call' # call
    BY Zenon, <2>1, <2>3 DEF MetaLookup, JwksLookup, Fail, Accept
  <2> QED
    BY <2>2, <2>3, Zenon
<1> QED
  BY Zenon, <1>1, <1>3, <1>4, <1>5, <1>6, AwakeStep DEF KeepsRefreshes

(* The two lookups after a wait.                                           *)
LEMMA RelookupWake ==
    ASSUME IInv, WakeInv, NEW b \in Backends, MetaRelookup(b) \/ JwksRelookup(b)
    PROVE  WakeInv'
<1>p. PICK now : now = call[b].cache_now + elapsed[b]
  OBVIOUS
<1>1. /\ TypeOK /\ UniqueKeys /\ now \in Nat
  <2>1. call[b].cache_now \in Nat
    <3>1. call[b].cache_now \in Time
      BY ZenonT(30), CallTypes
    <3> QED
      BY <3>1, CacheAssumption DEF Time
  <2>2. elapsed[b] \in Nat
    <3>1. TypeOK
      BY Zenon DEF IInv
    <3> QED
      BY <3>1, SharedAssumption DEF TypeOK, SharedTypeOK
  <2> QED
    BY <1>p, <2>1, <2>2 DEF IInv, WakeInv
<1>2. \/ entries' = entries
      \/ now \in Time /\ \E k, allow_stale : Lookup(k, now, allow_stale)
  <2>1. now > TimeMax \/ now \in Time
    BY <1>1, CacheAssumption DEF Time
  <2> QED
    BY Zenon, <1>p, <2>1 DEF MetaRelookup, JwksRelookup, cacheVars
<1>3. KeepsRefreshes
  <2>1. SameEntries
    BY Zenon, <1>1, <1>2, LookupEffect, UnchangedEntries
    DEF SameEntries, TypeOK, SharedTypeOK
  <2> QED
    BY <1>1, <2>1, SameKeeps, Zenon
<1>4. WaitReturn(b) /\ ~MustNotify(b)
  BY Zenon DEF MetaRelookup, JwksRelookup, At, MustNotify
<1>5. /\ \E l : pc' = [pc EXCEPT ![b] = l]
      /\ \E c : call' = [call EXCEPT ![b] = c]
  BY ZenonT(30) DEF MetaRelookup, JwksRelookup, Goto, Fail, Accept
<1> QED
  BY Zenon, <1>1, <1>3, <1>4, <1>5, LeaveStep

(* The two begins: the backend goes to its transfer, into the wait or      *)
(* back to its caller.                                                     *)
LEMMA BeginWake ==
    ASSUME IInv, WakeInv, NEW b \in Backends, MetaBegin(b) \/ JwksBegin(b)
    PROVE  WakeInv'
<1>1. /\ TypeOK /\ UniqueKeys
      /\ call[b].now \in Time /\ call[b].cache_now \in Time
      /\ call[b].unknown_kid \in BOOLEAN
  BY ZenonT(30), CallTypes DEF IInv, WakeInv
<1>2. /\ MetaBegin(b) => MetadataKey(b) \in Keys
      /\ JwksBegin(b) => JwksDocKey(b) \in Keys
  BY Zenon, CallTypes DEF JwksBegin, At, CallOK, OnJwks
<1>3. KeepsRefreshes
  <2>1. CASE MetaBegin(b)
    <3>1. BeginRefresh(MetadataKey(b), call[b].now, FALSE, 0)
      BY ZenonT(30), <2>1 DEF MetaBegin
    <3> QED
      BY ZenonT(30), <1>1, <1>2, <2>1, <3>1, BeginKeeps
  <2>2. CASE JwksBegin(b)
    <3>1. BeginRefresh(JwksDocKey(b), call[b].cache_now, call[b].unknown_kid,
                       Cooldown)
      BY ZenonT(30), <2>2 DEF JwksBegin
    <3> QED
      BY Zenon, <1>1, <1>2, <2>2, <3>1, BeginKeeps
  <2> QED
    BY <2>1, <2>2, Zenon
<1>4. ~Waiting(b) /\ ~MustNotify(b)
  BY Zenon DEF MetaBegin, JwksBegin, At, Waiting, MustNotify
<1>5. /\ \E l : pc' = [pc EXCEPT ![b] = l]
      /\ \E c : call' = [call EXCEPT ![b] = c]
  <2>1. \E l : pc' = [pc EXCEPT ![b] = l]
    BY Zenon DEF MetaBegin, JwksBegin, Goto, Fail, Accept
  <2>2. CASE call' = call
    BY Zenon, <1>1, <2>1, <2>2, NoMove
  <2>3. CASE call' # call
    BY ZenonT(30), <2>1, <2>3 DEF MetaBegin, JwksBegin, Fail, Accept
  <2> QED
    BY <2>2, <2>3, Zenon
<1>6. CASE UNCHANGED waitVars
  BY Zenon, <1>1, <1>3, <1>4, <1>5, <1>6, AwakeStep DEF KeepsRefreshes
<1>7. CASE /\ WaitCall(b) /\ call' = call
           /\ \E l \in {"meta_wait", "jwks_wait"} : pc' = [pc EXCEPT ![b] = l]
  <2>1. OthersSleepOn(b) /\ wait'[b] = "prepare" /\ Waiting(b)'
    BY ZenonT(30), <1>1, <1>7
    DEF TypeOK, SharedTypeOK, OthersSleepOn, WaitCall, Waiting
  <2> QED
    BY <1>3, <1>4, <2>1, WakeStep, Zenon DEF KeepsRefreshes
<1> QED
  BY Zenon, <1>6, <1>7 DEF MetaBegin, JwksBegin, Goto

(* The two completions: the owner's is always accepted, so that it owes    *)
(* the broadcast.                                                          *)
LEMMA CompleteWake ==
    ASSUME IInv, WakeInv, NEW b \in Backends, MetaComplete(b) \/ JwksComplete(b)
    PROVE  WakeInv'
<1>1. /\ TypeOK /\ UniqueKeys /\ Holds(b) /\ owns(refresh[b])
      /\ call[b] \in Call
      /\ call[b].now \in Time /\ call[b].cache_now \in Time
  BY CallTypes, Zenon
  DEF IInv, WakeInv, OwnerKeepsEntry, Holds, MetaComplete, JwksComplete, At
<1>2. PICK doc : doc = call[b].response
  OBVIOUS
<1>3. PICK now \in Time, grace \in Nat, outcome \in {Failure, Success(doc)} :
        /\ outcome.success => doc # NoPayload
        /\ CompleteRefresh(refresh[b], now, outcome, grace)
        /\ \E l \in {"meta_notify", "jwks_notify"} :
                pc' = [pc EXCEPT ![b] =
                        IF complete_result(refresh[b], outcome) THEN l ELSE "idle"]
  <2>0. Failure.success = FALSE
    BY Zenon DEF Failure
  <2>1. CASE MetaComplete(b)
    <3>1. PICK parsed, outcome :
            /\ parsed = (doc # NoPayload /\ doc.body # NoUrl)
            /\ outcome = IF parsed THEN response_outcome(doc) ELSE Failure
      OBVIOUS
    <3>2. /\ outcome \in {Failure, Success(doc)}
          /\ outcome.success => doc # NoPayload
      BY Zenon, <2>0, <3>1 DEF response_outcome
    <3>3. /\ CompleteRefresh(refresh[b], call[b].now, outcome, 0)
          /\ pc' = [pc EXCEPT ![b] = IF complete_result(refresh[b], outcome)
                                     THEN "meta_notify" ELSE "idle"]
      BY ZenonT(30), <1>2, <2>1, <3>1 DEF MetaComplete, Goto
    <3> QED
      BY Zenon, <1>1, <3>2, <3>3
  <2>2. CASE JwksComplete(b)
    <3>1. PICK chosen, outcome :
            /\ chosen = (doc # NoPayload /\ jwks_select(b, doc) = "ok")
            /\ outcome = IF chosen THEN response_outcome(doc) ELSE Failure
      OBVIOUS
    <3>2. /\ outcome \in {Failure, Success(doc)}
          /\ outcome.success => doc # NoPayload
      BY Zenon, <2>0, <3>1 DEF response_outcome
    <3>3. /\ CompleteRefresh(refresh[b], call[b].cache_now, outcome, Grace)
          /\ pc' = [pc EXCEPT ![b] = IF complete_result(refresh[b], outcome)
                                     THEN "jwks_notify" ELSE "idle"]
      BY Zenon, <1>2, <2>2, <3>1 DEF JwksComplete, Goto
    <3>4. Grace \in Nat
      BY IssuerAssumption, Zenon
    <3> QED
      BY Zenon, <1>1, <3>2, <3>3, <3>4
  <2> QED
    BY <2>1, <2>2, Zenon
<1>4. /\ outcome.ttl \in Nat /\ outcome.payload \in Payloads \cup {NoPayload}
      /\ acceptable(outcome)
  <2>1. CASE outcome = Failure
    BY <2>1, Zenon DEF Failure, acceptable
  <2>2. CASE outcome = Success(doc)
    <3>1. outcome.success /\ outcome.payload = doc /\ outcome.ttl = doc.life.ttl
      BY <2>2, Zenon DEF Success
    <3>2. doc \in Payloads /\ doc # NoPayload
      BY ZenonT(30), <1>1, <1>2, <1>3, <3>1 DEF Call
    <3>3. doc.life.ttl \in Nat
      <4>1. doc.life \in Lifetime
        BY <3>2, IssuerAssumption, Zenon DEF Document
      <4> QED
        BY <4>1, IssuerAssumption, Zenon DEF Lifetime
    <3> QED
      BY ZenonT(30), <3>1, <3>2, <3>3 DEF acceptable
  <2> QED
    BY <1>3, <2>1, <2>2, Zenon
<1>5. UniqueKeys'
  BY ZenonT(30), <1>1, <1>3, <1>4, CompleteUnique
<1>6. complete_result(refresh[b], outcome)
  BY ZenonT(30), <1>1, <1>4 DEF complete_result
<1>7. MustNotify(b)'
  BY ZenonT(30), <1>1, <1>3, <1>6 DEF MustNotify, TypeOK
<1>8. ~Waiting(b) /\ ~MustNotify(b)
  BY Zenon DEF MetaComplete, JwksComplete, At, Waiting, MustNotify
<1>9. /\ UNCHANGED waitVars
      /\ \E l : pc' = [pc EXCEPT ![b] = l]
      /\ \E c : call' = [call EXCEPT ![b] = c]
  BY Zenon, <1>3 DEF MetaComplete, JwksComplete
<1> QED
  BY ZenonT(30), <1>1, <1>5, <1>7, <1>8, <1>9, AwakeStep

(* The broadcast empties the queue.                                        *)
LEMMA NotifyWake ==
    ASSUME IInv, WakeInv, NEW b \in Backends, Notify(b)
    PROVE  WakeInv'
<1>1. /\ TypeOK /\ UniqueKeys /\ entries' = entries
      /\ cv' = {} /\ wait' = wait /\ call' = call
      /\ MustNotify(b) /\ \E l : pc' = [pc EXCEPT ![b] = l]
  BY Zenon DEF IInv, WakeInv, Notify, Broadcast, Goto, MustNotify
<1>2. wait[b] = "none"
  BY <1>1, Zenon DEF WakeInv, OnlyWaitersWait, Waiting, MustNotify
<1>3. UniqueKeys' /\ OthersSleepOn(b) /\ wait'[b] = "none"
  BY <1>1, <1>2, Zenon DEF UniqueKeys, OthersSleepOn, TypeOK
<1> QED
  BY <1>1, <1>3, WakeStep, Zenon

(* A backend goes to sleep only while its key is in progress.              *)
LEMMA WaitingWake ==
    ASSUME IInv, WakeInv, NEW b \in Backends,
           WaitStep(b) \/ WaitFails(b) \/ ExitAsleep(b)
    PROVE  WakeInv'
<1>1. TypeOK /\ UniqueKeys
  BY Zenon DEF IInv, WakeInv
<1>2. Waiting(b) /\ ~MustNotify(b)
  BY ZenonT(30) DEF WaitStep, WaitFails, ExitAsleep, Waiting, MustNotify
<1>3. entries' = entries
  BY Zenon DEF WaitStep, WaitPrepare, WaitCheck, WaitWake, WaitRecheck, WaitFails,
         ExitAsleep, cacheVars
<1>4. KeepsRefreshes
  BY <1>1, <1>3, UnchangedEntries, SameKeeps, Zenon
<1>5. CASE WaitFails(b) \/ ExitAsleep(b)
  <2>1. WaitReturn(b) /\ Fail(b)
    BY <1>5, Zenon DEF WaitFails, ExitAsleep
  <2> QED
    BY ZenonT(30), <1>1, <1>2, <1>4, <2>1, LeaveStep DEF Fail, Goto
<1>6. CASE WaitStep(b)
  <2>1. pc' = pc /\ call' = call
    BY <1>6, Zenon DEF WaitStep
  <2>2. OthersSleepOn(b)
    BY ZenonT(60), <1>1, <1>6, <2>1
    DEF TypeOK, SharedTypeOK, OthersSleepOn, WaitStep, WaitPrepare, WaitCheck,
        WaitWake, WaitRecheck, PrepareToSleep, CancelSleep
  <2>3. wait'[b] = "sleep" => is_refreshing(WaitKey(b))
    BY ZenonT(30), <1>1, <1>6
    DEF TypeOK, SharedTypeOK, WaitStep, WaitPrepare, WaitCheck, WaitWake,
        WaitRecheck
  <2>4. is_refreshing(WaitKey(b))' <=> is_refreshing(WaitKey(b))
    BY Zenon, <1>3, <2>1
    DEF is_refreshing, Existing, same_key, WaitKey, MetadataKey, JwksDocKey
  <2>5. Waiting(b)'
    BY <1>2, <2>1, Zenon DEF Waiting
  <2> QED
    BY <1>2, <1>4, <2>2, <2>3, <2>4, <2>5, WakeStep, SMTT(30) DEF KeepsRefreshes
<1> QED
  BY <1>5, <1>6, Zenon

(* A restart empties the queue; time passing wakes nobody by itself.       *)
LEMMA OutsideWake ==
    ASSUME IInv, WakeInv, CrashRestart \/ Tick \/ UNCHANGED vars
    PROVE  WakeInv'
<1>1. CASE CrashRestart
  <2>1. /\ \A i \in Slots : ~entries'[i].occupied
        /\ \A b \in Backends : wait'[b] = "none"
        /\ cv' = {}
    BY <1>1, Zenon DEF CrashRestart, ZeroEntry
  <2> QED
    BY ZenonT(30), <2>1 DEF WakeInv, UniqueKeys, OnlyWaitersWait, NoLostWakeup
<1>2. CASE Tick \/ UNCHANGED vars
  <2>1. /\ entries' = entries /\ cv' = cv /\ wait' = wait
        /\ pc' = pc /\ call' = call
    BY <1>2, Zenon DEF Tick, cacheVars, waitVars, vars
  <2> QED
    BY ZenonT(30), <2>1
    DEF WakeInv, UniqueKeys, OnlyWaitersWait, NoLostWakeup, Waiting,
        is_refreshing, Existing, same_key, WaitKey, MetadataKey, JwksDocKey
<1> QED
  BY <1>1, <1>2, Zenon

(* Nobody waits when the system starts.                                    *)
LEMMA WakeInit == Init => WakeInv
<1> SUFFICES ASSUME Init PROVE WakeInv
  OBVIOUS
<1>1. /\ \A i \in Slots : ~entries[i].occupied
      /\ \A b \in Backends : wait[b] = "none"
      /\ cv = {}
  BY Zenon DEF Init, SharedInit, CacheInit, ZeroEntry
<1> QED
  BY ZenonT(30), <1>1 DEF WakeInv, UniqueKeys, OnlyWaitersWait, NoLostWakeup

(* Every step keeps the sleepers' invariant.                               *)
LEMMA WakeNext == IInv /\ WakeInv /\ [Next]_vars => WakeInv'
<1> SUFFICES ASSUME IInv, WakeInv, [Next]_vars PROVE WakeInv'
  OBVIOUS
<1>1. ASSUME NEW b \in Backends, BackendStep(b) \/ Connect(b) \/ ExitAsleep(b)
      PROVE  WakeInv'
  BY <1>1, LocalWake, LookupWake, RelookupWake, BeginWake, CompleteWake,
     NotifyWake, WaitingWake, ZenonT(60) DEF BackendStep
<1> QED
  BY <1>1, OutsideWake, Zenon DEF Next

(* The sleepers' invariant holds in every reachable state.                 *)
THEOREM IssuerWaiters == Spec => []WakeInv
BY IssuerInvariant, WakeInit, WakeNext, PTL DEF Spec

(* No backend sleeps through the end of the refresh it waits for.          *)
THEOREM IssuerNoLostWakeup == Spec => []NoLostWakeup
<1>1. WakeInv => NoLostWakeup
  BY Zenon DEF WakeInv
<1> QED
  BY <1>1, IssuerWaiters, PTL
=============================================================================
