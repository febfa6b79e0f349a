----------------------------- MODULE IssuerKey ------------------------------
(***************************************************************************)
(* src/issuer_key.c, pg_oauth_issuer_key_fetch_cached, run by many         *)
(* backends on the shared cache: find the issuer's metadata and its JWKS   *)
(* document in the cache, fetch what is missing, and select the key a      *)
(* token names.  A backend runs one validation per connection.             *)
(*                                                                         *)
(* Every access to the cache is one step (it holds the LWLock), an HTTP    *)
(* request is one step at the instant its response is produced, and the    *)
(* completion of a refresh and its broadcast are two.  Time may pass and   *)
(* other backends may run between any two steps.                           *)
(*                                                                         *)
(* Documents are abstract: a metadata document is the JWKS URL it names, a *)
(* JWKS document the verdict of jwks_select for each key identifier.  Each *)
(* carries where it came from, when, and what its HTTP headers allow, so   *)
(* that properties can say which documents a validation may use.           *)
(***************************************************************************)
EXTENDS SharedCache

CONSTANTS
    Policies,    \* validation policies; the cache key contains all of one
    Kids,        \* key identifiers tokens name
    Urls,        \* JWKS URLs metadata documents name
    NoUrl,       \* no URL: the key of a metadata entry; invalid metadata
    Oversized,   \* cache keys longer than PG_OAUTH_CACHE_MAX_KEY_SIZE
    JwksBodies,  \* JWKS documents
    Verdict,     \* Verdict[body][kid]: the result of jwks_select
    MetaLifetimes, JwksLifetimes,
                 \* results http_freshness_calculate has for the responses
    Grace,       \* jwks_stale_grace_ms
    Cooldown     \* unknown_kid_refresh_cooldown_ms

\* What a document is: the endpoint it was fetched from, under which policy.
Origin(resource, p, u) == [resource |-> resource, policy |-> p, jwks_url |-> u]
Origins ==
    [resource: {"metadata", "jwks"}, policy: Policies, jwks_url: Urls \cup {NoUrl}]

\* pg_oauth_cache_key_build: the canonical key contains all of the policy.
MetaKey_AnyPolicy(p) ==
    Origin("metadata", CHOOSE q \in Policies : TRUE, NoUrl)

MetaKey(p) == Origin("metadata", p, NoUrl)
JwksKey(p, u) == Origin("jwks", p, u)

AllKeys == {MetaKey(p) : p \in Policies}
             \cup {JwksKey(p, u) : p \in Policies, u \in Urls}

Lifetime ==
    [valid: BOOLEAN, cacheable: BOOLEAN, revalidation_required: BOOLEAN,
     ttl: Nat]

Document ==
    [source: Origins, at: 0 .. Horizon, body: Urls \cup {NoUrl} \cup JwksBodies,
     life: MetaLifetimes \cup JwksLifetimes]

ASSUME IssuerAssumption ==
    /\ Policies # {}
    /\ Kids # {}
    /\ NoUrl \notin Urls
    /\ Keys = AllKeys
    /\ Oversized \subseteq AllKeys
    /\ Payloads = Document
    /\ MetaLifetimes \cup JwksLifetimes \subseteq Lifetime
    /\ Verdict \in [JwksBodies -> [Kids -> {"ok", "not_found", "invalid"}]]
    /\ Grace \in Nat
    /\ Cooldown \in Nat

VARIABLES
    pc,           \* where each backend is in the function
    call,         \* its arguments and local variables
    refresh       \* the token of the refresh it owns

vars == <<entries, next_serial, clock, cv, wait, elapsed, asleep_at,
          pc, call, refresh>>

Locations ==
    {"idle", "meta_lookup", "meta_begin", "meta_wait", "meta_http",
     "meta_complete", "meta_notify", "jwks_lookup", "jwks_begin", "jwks_wait",
     "jwks_http", "jwks_complete", "jwks_notify"}

\* now is now_ms, cache_now cache_now_ms; metadata and selected are the
\* documents metadata.jwks_uri and result->selected were taken from, response
\* the last HTTP response; from_stale is selected_from_stale and unknown_kid
\* says that result->jwks_error is PG_OAUTH_JWKS_KEY_NOT_FOUND.  accepted
\* stands for PG_OAUTH_ISSUER_KEY_OK; the error codes are not told apart.
Call ==
    [policy: Policies, kid: Kids, now: 0 .. Horizon, cache_now: Time,
     metadata: Payloads \cup {NoPayload}, selected: Payloads \cup {NoPayload},
     response: Payloads \cup {NoPayload}, from_stale: BOOLEAN,
     unknown_kid: BOOLEAN, accepted: BOOLEAN]

NewCall(p, k, now) ==
    [policy |-> p, kid |-> k, now |-> now, cache_now |-> now,
     metadata |-> NoPayload, selected |-> NoPayload, response |-> NoPayload,
     from_stale |-> FALSE, unknown_kid |-> FALSE, accepted |-> FALSE]

IdleCall == NewCall(CHOOSE p \in Policies : TRUE, CHOOSE k \in Kids : TRUE, 0)

Init ==
    /\ SharedInit
    /\ pc = [b \in Backends |-> "idle"]
    /\ call = [b \in Backends |-> IdleCall]
    /\ refresh = [b \in Backends |-> NoRefresh]

-----------------------------------------------------------------------------
MetadataKey(b) == MetaKey(call[b].policy)
JwksDocKey(b) == JwksKey(call[b].policy, call[b].metadata.body)

\* The key a backend waits for.
WaitKey(b) == IF pc[b] = "meta_wait" THEN MetadataKey(b) ELSE JwksDocKey(b)

jwks_select(b, doc) == Verdict[doc.body][call[b].kid]

At(b, l) == pc[b] = l
Goto(b, l) == pc' = [pc EXCEPT ![b] = l]

\* Jump to the end of the function, where all it holds is freed, and return
\* an error.
Fail(b) ==
    /\ Goto(b, "idle")
    /\ call' = [call EXCEPT ![b] = IdleCall]

\* Return the key selected from doc.  The call stays visible while idle.
Accept(b, doc) ==
    /\ Goto(b, "idle")
    /\ call' = [call EXCEPT ![b].selected = doc, ![b].accepted = TRUE]

Failure == [success |-> FALSE, cacheable |-> FALSE,
            revalidation_required |-> FALSE, ttl |-> 0, payload |-> NoPayload]

Success(doc) ==
    [success |-> TRUE, cacheable |-> doc.life.cacheable,
     revalidation_required |-> doc.life.revalidation_required,
     ttl |-> doc.life.ttl, payload |-> doc]

\* complete_response: headers that do not parse make the refresh a failure.
response_outcome(doc) == IF doc.life.valid THEN Success(doc) ELSE Failure

-----------------------------------------------------------------------------
(* A client connects: the callback reads its clock and calls the function. *)

Connect(b) ==
    /\ At(b, "idle")
    /\ Goto(b, "meta_lookup")
    /\ \E p \in Policies, k \in Kids :
            call' = [call EXCEPT ![b] = NewCall(p, k, clock)]
    /\ UNCHANGED <<sharedVars, refresh>>

\* The result buffer or the metadata cache key cannot be built.
SetupFails(b) ==
    /\ At(b, "meta_lookup")
    /\ Fail(b)
    /\ UNCHANGED <<sharedVars, refresh>>

-----------------------------------------------------------------------------
(* Metadata *)

MetaLookup(b) ==
    LET k == MetadataKey(b)
    IN  /\ At(b, "meta_lookup")
        /\ k \notin Oversized
        /\ Lookup(k, call[b].now, FALSE)
        /\ IF freshness(k, call[b].now, FALSE) = "fresh"
           THEN /\ Goto(b, "jwks_lookup")
                /\ call' = [call EXCEPT ![b].metadata = copy_payload(k)]
           ELSE /\ Goto(b, "meta_begin")
                /\ UNCHANGED call
        /\ UNCHANGED <<clock, waitVars, refresh>>

MetaBegin(b) ==
    LET k == MetadataKey(b)
        result == begin_result(k, call[b].now, FALSE, 0)
    IN  /\ At(b, "meta_begin")
        /\ BeginRefresh(k, call[b].now, FALSE, 0)
        /\ \/ /\ result = "started"
              /\ refresh' = [refresh EXCEPT ![b] = begin_token(k, call[b].now)]
              /\ Goto(b, "meta_http")
              /\ UNCHANGED <<waitVars, call>>
           \/ /\ result = "in_progress" /\ WaitTimeout > 0
              /\ WaitCall(b)
              /\ Goto(b, "meta_wait")
              /\ UNCHANGED <<call, refresh>>
           \/ /\ result # "started"
              /\ result = "in_progress" => WaitTimeout = 0
              /\ Fail(b)
              /\ UNCHANGED <<waitVars, refresh>>
        /\ UNCHANGED clock

\* The wait is over: look again, at the time the wait says has passed.
MetaRelookup(b) ==
    LET k == MetadataKey(b)
        now == call[b].cache_now + elapsed[b]
    IN  /\ At(b, "meta_wait")
        /\ wait[b] = "released"
        /\ WaitReturn(b)
        /\ IF now > TimeMax
           THEN Fail(b) /\ UNCHANGED cacheVars
           ELSE /\ Lookup(k, now, FALSE)
                /\ IF freshness(k, now, FALSE) = "fresh"
                   THEN /\ Goto(b, "jwks_lookup")
                        /\ call' = [call EXCEPT ![b].cache_now = now,
                                                ![b].metadata = copy_payload(k)]
                   ELSE Fail(b)
        /\ UNCHANGED <<clock, refresh>>

\* pg_oauth_http_get_json: an error (a timeout, a cancelled transfer and a
\* refused host among them) or a 2xx JSON response.
MetaHttp(b) ==
    /\ At(b, "meta_http")
    /\ \/ UNCHANGED call
       \/ \E u \in Urls \cup {NoUrl}, l \in MetaLifetimes :
                call' = [call EXCEPT ![b].response =
                            [source |-> Origin("metadata", call[b].policy, NoUrl),
                             at |-> clock,
                             body |-> u, life |-> l]]
    /\ Goto(b, "meta_complete")
    /\ UNCHANGED <<sharedVars, refresh>>

\* metadata_parse, then the completion that fits.  The refresh is completed
\* with now_ms and no grace.
MetaComplete(b) ==
    LET doc == call[b].response
        parsed == doc # NoPayload /\ doc.body # NoUrl
        outcome == IF parsed THEN response_outcome(doc) ELSE Failure
        result == complete_result(refresh[b], outcome)
    IN  /\ At(b, "meta_complete")
        /\ CompleteRefresh(refresh[b], call[b].now, outcome, 0)
        /\ refresh' = [refresh EXCEPT ![b] = NoRefresh]
        /\ call' = [call EXCEPT ![b] =
                        IF outcome.success /\ result
                        THEN [@ EXCEPT !.response = NoPayload, !.metadata = doc]
                        ELSE IdleCall]
        /\ Goto(b, IF result THEN "meta_notify" ELSE "idle")
        /\ UNCHANGED <<clock, waitVars>>

\* pg_oauth_shared_cache_complete_refresh broadcasts after it has released the
\* lock, and only when the completion was accepted.
Notify(b) ==
    /\ pc[b] \in {"meta_notify", "jwks_notify"}
    /\ Broadcast
    /\ Goto(b, IF At(b, "meta_notify") /\ call[b].metadata # NoPayload
               THEN "jwks_lookup" ELSE "idle")
    /\ UNCHANGED <<entries, next_serial, clock, wait, elapsed, asleep_at,
                   call, refresh>>

-----------------------------------------------------------------------------
(* JWKS *)

\* http_url_host runs out of memory.
HostFails(b) ==
    /\ At(b, "jwks_lookup")
    /\ Fail(b)
    /\ UNCHANGED <<sharedVars, refresh>>

JwksKeyFails(b) ==
    /\ At(b, "jwks_lookup")
    /\ JwksDocKey(b) \in Oversized
    /\ Fail(b)
    /\ UNCHANGED <<sharedVars, refresh>>

JwksLookup(b) ==
    LET k == JwksDocKey(b)
        now == call[b].cache_now
        f == freshness(k, now, Grace > 0)
        doc == copy_payload(k)
        verdict == jwks_select(b, doc)
    IN  /\ At(b, "jwks_lookup")
        /\ k \notin Oversized
        /\ Lookup(k, now, Grace > 0)
        /\ \/ /\ f = "miss"
              /\ Goto(b, "jwks_begin")
              /\ UNCHANGED call
           \/ /\ f = "fresh" /\ verdict = "ok"
              /\ Accept(b, doc)
           \/ /\ f # "miss" /\ verdict = "invalid"
              /\ Fail(b)
           \/ /\ f = "stale" /\ verdict = "ok"
              /\ Goto(b, "jwks_begin")
              /\ call' = [call EXCEPT ![b].selected = doc,
                                      ![b].from_stale = TRUE]
           \/ /\ f # "miss" /\ verdict = "not_found"
              /\ Goto(b, "jwks_begin")
              /\ call' = [call EXCEPT ![b].unknown_kid = TRUE]
        /\ UNCHANGED <<clock, waitVars, refresh>>

JwksBegin(b) ==
    LET k == JwksDocKey(b)
        now == call[b].cache_now
        result == begin_result(k, now, call[b].unknown_kid, Cooldown)
        waits == /\ ~call[b].from_stale
                 /\ result = "in_progress"
                 /\ WaitTimeout > 0
    IN  /\ At(b, "jwks_begin")
        /\ BeginRefresh(k, now, call[b].unknown_kid, Cooldown)
        /\ \/ /\ result = "started"
              /\ refresh' = [refresh EXCEPT ![b] = begin_token(k, now)]
              /\ Goto(b, "jwks_http")
              /\ UNCHANGED <<waitVars, call>>
           \/ /\ waits
              /\ WaitCall(b)
              /\ Goto(b, "jwks_wait")
              /\ UNCHANGED <<call, refresh>>
           \/ /\ result # "started" /\ ~waits
              /\ IF call[b].from_stale THEN Accept(b, call[b].selected)
                 ELSE Fail(b)
              /\ UNCHANGED <<waitVars, refresh>>
        /\ UNCHANGED clock

JwksRelookup(b) ==
    LET k == JwksDocKey(b)
        now == call[b].cache_now + elapsed[b]
        doc == copy_payload(k)
    IN  /\ At(b, "jwks_wait")
        /\ wait[b] = "released"
        /\ WaitReturn(b)
        /\ IF now > TimeMax
           THEN Fail(b) /\ UNCHANGED cacheVars
           ELSE /\ Lookup(k, now, Grace > 0)
                /\ IF /\ freshness(k, now, Grace > 0) # "miss"
                      /\ jwks_select(b, doc) = "ok"
                   THEN Accept(b, doc)
                   ELSE Fail(b)
        /\ UNCHANGED <<clock, refresh>>

JwksHttp(b) ==
    /\ At(b, "jwks_http")
    /\ \/ UNCHANGED call
       \/ \E body \in JwksBodies, l \in JwksLifetimes :
                call' = [call EXCEPT ![b].response =
                            [source |-> Origin("jwks", call[b].policy,
                                             call[b].metadata.body),
                             at |-> clock,
                             body |-> body, life |-> l]]
    /\ Goto(b, "jwks_complete")
    /\ UNCHANGED <<sharedVars, refresh>>

\* Without a response the key selected from the stale copy is returned; a
\* response is authoritative and the stale selection is discarded.
keeps_stale_Always(b) == call[b].from_stale

keeps_stale(b) == call[b].from_stale /\ call[b].response = NoPayload

JwksComplete(b) ==
    LET doc == call[b].response
        chosen == doc # NoPayload /\ jwks_select(b, doc) = "ok"
        outcome == IF chosen THEN response_outcome(doc) ELSE Failure
        result == complete_result(refresh[b], outcome)
    IN  /\ At(b, "jwks_complete")
        /\ CompleteRefresh(refresh[b], call[b].cache_now, outcome, Grace)
        /\ refresh' = [refresh EXCEPT ![b] = NoRefresh]
        /\ call' = [call EXCEPT ![b] =
                        IF keeps_stale(b) THEN [@ EXCEPT !.accepted = TRUE]
                        ELSE IF outcome.success /\ result
                        THEN [@ EXCEPT !.accepted = TRUE, !.selected = doc]
                        ELSE IdleCall]
        /\ Goto(b, IF result THEN "jwks_notify" ELSE "idle")
        /\ UNCHANGED <<clock, waitVars>>

-----------------------------------------------------------------------------
(* Waiting, returning, and what happens to a backend from outside *)

Waiting(b) == pc[b] \in {"meta_wait", "jwks_wait"}

WaitStep(b) ==
    /\ Waiting(b)
    /\ \/ WaitPrepare(b)
       \/ WaitCheck(b, WaitKey(b))
       \/ WaitWake(b)
       \/ WaitRecheck(b, WaitKey(b))
    /\ UNCHANGED <<pc, call, refresh>>

WaitFails(b) ==
    /\ Waiting(b)
    /\ wait[b] = "failed"
    /\ WaitReturn(b)
    /\ Fail(b)
    /\ UNCHANGED <<cacheVars, clock, refresh>>

\* ConditionVariableTimedSleep services interrupts: a termination request or
\* the authentication timeout ends the backend in its sleep.
ExitAsleep(b) ==
    /\ Waiting(b)
    /\ wait[b] = "sleep"
    /\ WaitReturn(b)
    /\ Fail(b)
    /\ UNCHANGED <<cacheVars, clock, refresh>>

\* A backend crashes: the postmaster ends all others and reinitialises shared
\* memory, so the segment is created anew.
CrashRestart ==
    /\ entries' = [i \in Slots |-> ZeroEntry]
    /\ next_serial' = 1
    /\ cv' = {}
    /\ wait' = [b \in Backends |-> "none"]
    /\ elapsed' = [b \in Backends |-> 0]
    /\ asleep_at' = [b \in Backends |-> 0]
    /\ pc' = [b \in Backends |-> "idle"]
    /\ call' = [b \in Backends |-> IdleCall]
    /\ refresh' = [b \in Backends |-> NoRefresh]
    /\ UNCHANGED clock

Tick ==
    /\ clock < Horizon
    /\ clock' = clock + 1
    /\ UNCHANGED <<cacheVars, waitVars, pc, call, refresh>>

\* What the backend itself does between the call and its return.
BackendStep(b) ==
    \/ SetupFails(b)
    \/ MetaLookup(b)
    \/ MetaBegin(b)
    \/ MetaRelookup(b)
    \/ MetaHttp(b)
    \/ MetaComplete(b)
    \/ Notify(b)
    \/ HostFails(b)
    \/ JwksKeyFails(b)
    \/ JwksLookup(b)
    \/ JwksBegin(b)
    \/ JwksRelookup(b)
    \/ JwksHttp(b)
    \/ JwksComplete(b)
    \/ WaitStep(b)
    \/ WaitFails(b)

Next ==
    \/ \E b \in Backends :
            BackendStep(b) \/ Connect(b) \/ ExitAsleep(b)
    \/ CrashRestart
    \/ Tick

Spec == Init /\ [][Next]_vars

\* Backends are scheduled, transfers end (CURLOPT_TIMEOUT_MS) and time passes.
\* Clients, interrupts and crashes are under no obligation.
Fairness == WF_vars(Tick) /\ \A b \in Backends : WF_vars(BackendStep(b))

FairSpec == Spec /\ Fairness

-----------------------------------------------------------------------------
(* Types of the shared state and of every backend's call; the deadlines    *)
(* computed from its clock stay within 64 bits.                            *)
TypeOK ==
    /\ SharedTypeOK
    /\ pc \in [Backends -> Locations]
    /\ call \in [Backends -> Call]
    /\ refresh \in [Backends -> Refresh \cup {NoRefresh}]

Holds(b) ==
    pc[b] \in {"meta_http", "meta_complete", "jwks_http", "jwks_complete"}

HeldKey(b) ==
    IF pc[b] \in {"meta_http", "meta_complete"} THEN MetadataKey(b)
    ELSE JwksDocKey(b)

(* From begin_refresh to complete_refresh a backend's token stays the      *)
(* current one of an entry that is still its key's, across its HTTP        *)
(* transfer and everything others do meanwhile; so complete_refresh never  *)
(* rejects an owner.                                                       *)
OwnerKeepsEntry ==
    \A b \in Backends : Holds(b) =>
        /\ owns(refresh[b])
        /\ entries[refresh[b].entry_index].key = HeldKey(b)

(* An entry in progress has exactly one live backend that will complete    *)
(* it.  No path through the function, no wait, interrupt or restart leaves *)
(* an entry in progress that nobody works on.                              *)
RefreshHasOneOwner ==
    /\ \A i \in Slots : entries[i].refreshing =>
            \E b \in Backends : Holds(b) /\ refresh[b].entry_index = i
    /\ \A a, b \in Backends :
            /\ Holds(a)
            /\ Holds(b)
            /\ refresh[a].entry_index = refresh[b].entry_index
            => a = b

(* A backend never sleeps through the end of the refresh it waits for:     *)
(* while it is queued on refresh_cv, its key is still in progress or the   *)
(* completing backend has yet to broadcast.                                *)
NoLostWakeup ==
    \A b \in Backends :
        wait[b] = "sleep" /\ b \in cv =>
            \/ is_refreshing(WaitKey(b))
            \/ \E c \in Backends : pc[c] \in {"meta_notify", "jwks_notify"}

Accepted(b) == At(b, "idle") /\ call[b].accepted

(* The key a validation accepts comes from a JWKS document fetched under   *)
(* its own policy, from the URL that metadata fetched under the same       *)
(* policy names, and the document really has a usable key of that name.    *)
AcceptedFromOwnIssuer ==
    \A b \in Backends : Accepted(b) =>
        /\ call[b].metadata # NoPayload
        /\ call[b].metadata.source = Origin("metadata", call[b].policy, NoUrl)
        /\ call[b].selected # NoPayload
        /\ call[b].selected.source =
                Origin("jwks", call[b].policy, call[b].metadata.body)
        /\ jwks_select(b, call[b].selected) = "ok"

(* A JWKS document received during a validation is authoritative for it:   *)
(* no key from an older copy is accepted after it.                         *)
ReceivedJwksDecides ==
    \A b \in Backends :
        Accepted(b) /\ call[b].response # NoPayload =>
            call[b].selected = call[b].response

GraceOf(doc) == IF doc.life.revalidation_required THEN 0 ELSE Grace

\* doc may serve a validation that started at `now`, with `slack` to spare.
ReusableAt(doc, now, grace, slack) ==
    \/ now <= doc.at
    \/ doc.life.cacheable /\ now < doc.at + doc.life.ttl + grace + slack

(* No document outlives its lifetime: metadata serves no validation that   *)
(* starts ttl after the response was produced, and a JWKS document none    *)
(* that starts later than ttl, plus the grace if it need not be            *)
(* revalidated, plus one wait timeout.  The wait timeout is there because  *)
(* a backend that was woken early counts its whole timeout as elapsed and  *)
(* dates the JWKS it then publishes by that clock.                         *)
ReuseWithinLifetime ==
    \A b \in Backends : Accepted(b) =>
        /\ ReusableAt(call[b].metadata, call[b].now, 0, 0)
        /\ ReusableAt(call[b].selected, call[b].now,
                      GraceOf(call[b].selected), WaitTimeout)

(* A response marked no-store serves only the validation that fetched it.  *)
NoStoreNotShared ==
    \A b \in Backends :
        Accepted(b) /\ ~call[b].selected.life.cacheable =>
            call[b].selected = call[b].response

(* Every validation ends: neither the transfer it makes nor the refresh it *)
(* waits for holds it for ever.                                            *)
ValidationEnds ==
    \A b \in Backends : ~At(b, "idle") ~> At(b, "idle")

-----------------------------------------------------------------------------
(* What the documentation says and the code does not do; the run that      *)
(* checks it ends in a counterexample.                                     *)

(* ADR 0002: max-age and Expires are honoured, "capped by a local          *)
(* administrator maximum".  No JWKS document serves a validation that      *)
(* starts after its lifetime and grace.                                    *)
LifetimeHonoured ==
    \A b \in Backends : Accepted(b) =>
        ReusableAt(call[b].selected, call[b].now, GraceOf(call[b].selected), 0)
=============================================================================
