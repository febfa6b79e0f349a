----------------------------- MODULE Validator ------------------------------
(***************************************************************************)
(* src/pg_oauth_validator.c and src/validator.c: the callback PostgreSQL   *)
(* runs in a new backend to decide on a token, from its first line to the  *)
(* decision, with the attachment of src/shared_cache.c to the segment all  *)
(* backends share.  Signals arrive between any two steps.  The validator   *)
(* only polls InterruptPending; it is PostgreSQL that services an          *)
(* interrupt, inside a condition variable sleep and at the callback's own  *)
(* CHECK_FOR_INTERRUPTS, by ending the process or, when the interrupt is   *)
(* of another kind, by clearing it.                                        *)
(*                                                                         *)
(* What the stages find is left open; IssuerKey, HttpTransport and         *)
(* HttpFreshness look into the second one.                                 *)
(* An operator X_Y is X with a mistake, for the mutants of PROJECT.json.   *)
(***************************************************************************)
EXTENDS Integers

CONSTANTS
    Backends,
    Capacities    \* values of cache_max_entries within its limits

ASSUME ValidatorAssumption == Capacities \subseteq Nat \ {0}

VARIABLES
    setting,      \* cache_max_entries in the configuration
    segment,      \* capacity of the shared segment, 0 when there is none
    att           \* each backend's attempt to authenticate

validatorVars == <<setting, segment, att>>

Stages == {"envelope", "issuer_key", "signature", "claims", "identity"}

Locations ==
    {"out", "policy", "cache", "url", "token", "envelope", "metadata",
     "metadata_sleep", "metadata_http", "jwks", "jwks_sleep", "jwks_http",
     "signature", "claims", "identity", "finish", "check", "decide",
     "returned", "exited"}

\* Nothing decided: the outputs are denied before any validation work.
NewAttempt ==
    [pc |-> "policy", capacity |-> setting, held |-> {}, passed |-> {},
     interrupt |-> "none", cancelled |-> FALSE, stale |-> FALSE, ok |-> FALSE,
     answer |-> "none", authorized |-> FALSE, authn_id |-> FALSE]

ValidatorInit ==
    /\ setting \in Capacities
    /\ segment = 0
    /\ att = [b \in Backends |-> [NewAttempt EXCEPT !.pc = "out"]]

At(b, location) == att[b].pc = location

\* a with new values of the fields of r.
With(a, r) == [f \in DOMAIN a |-> IF f \in DOMAIN r THEN r[f] ELSE a[f]]

Set(b, r) ==
    /\ att' = [att EXCEPT ![b] = With(att[b], r)]
    /\ UNCHANGED <<setting, segment>>

Goto(b, location) == Set(b, [pc |-> location])

Holding(b, resource) == att[b].held \cup {resource}

\* return false, return true, and an error that ends the process.
ReturnFalse(b) ==
    Set(b, [pc |-> "returned", answer |-> "false", held |-> {}])

ReturnTrue(b) ==
    Set(b, [pc |-> "returned", answer |-> "true",
            held |-> att[b].held \ {"url", "host"}])

Raise(b) == Set(b, [pc |-> "exited", answer |-> "error"])

-----------------------------------------------------------------------------
(* The callback, up to the pipeline *)

Connect(b) ==
    /\ At(b, "out")
    /\ att' = [att EXCEPT ![b] = NewAttempt]
    /\ UNCHANGED <<setting, segment>>

\* hba_policy_read, config_snapshot, policy_build
ReadPolicy(b) ==
    /\ At(b, "policy")
    /\ ReturnFalse(b) \/ Goto(b, "cache")

\* The capacity recorded in a new segment.
initialize_shared_cache(capacity) == capacity

SegmentFits_Any(capacity) == TRUE

SegmentFits(capacity) == segment = capacity

\* configure_capacity and attach.  The named segment is created by whoever
\* comes first; PostgreSQL raises an error when its size is another one.
\* Then the clock.
AttachCache(b) ==
    /\ At(b, "cache")
    /\ \/ /\ segment = 0
          /\ segment' = initialize_shared_cache(att[b].capacity)
          /\ \/ att' = [att EXCEPT ![b].pc = "url"]
             \/ att' = [att EXCEPT ![b].pc = "returned", ![b].answer = "false"]
          /\ UNCHANGED setting
       \/ /\ segment # 0
          /\ SegmentFits(att[b].capacity)
          /\ ReturnFalse(b) \/ Goto(b, "url")
       \/ /\ segment # 0
          /\ ~SegmentFits(att[b].capacity)
          /\ Raise(b)

\* metadata_url, url_host, and the wall clock with the rest of the policy
MakeUrl(b) ==
    /\ At(b, "url")
    /\ \/ ReturnFalse(b)
       \/ Raise(b)
       \/ Set(b, [pc |-> "token", held |-> {"url", "host"}])

\* A missing, empty or overlong token is rejected.
ScanToken(b) ==
    /\ At(b, "token")
    /\ ReturnTrue(b) \/ Raise(b) \/ Goto(b, "envelope")

-----------------------------------------------------------------------------
(* pg_oauth_validate_access_token_cached *)

\* goto done with an error
FailStage(b) == Goto(b, "finish")

PassStage(b, stage, location, resource) ==
    Set(b, [pc |-> location, passed |-> att[b].passed \cup {stage},
            held |-> Holding(b, resource)])

ParseEnvelope(b) ==
    /\ At(b, "envelope")
    /\ FailStage(b) \/ PassStage(b, "envelope", "metadata", "envelope")

\* issuer_key_fetch_cached, metadata: cached, refreshed by another backend,
\* or this one's to refresh
FindMetadata(b) ==
    /\ At(b, "metadata")
    /\ \/ FailStage(b)
       \/ Goto(b, "jwks")
       \/ Goto(b, "metadata_sleep")
       \/ Set(b, [pc |-> "metadata_http", held |-> Holding(b, "refresh")])

\* What http_get_json reports when it finds an interrupt pending.
Cancelled(b) == att[b].interrupt # "none"

Released(b) == att[b].held \ {"refresh"}

FetchMetadata(b) ==
    /\ At(b, "metadata_http")
    /\ \/ Set(b, [pc |-> "finish", held |-> Released(b),
                  cancelled |-> Cancelled(b)])
       \/ /\ ~Cancelled(b)
          /\ Set(b, [pc |-> "jwks", held |-> Released(b)])

\* The same for the JWKS document, which may also be a stale one that holds
\* the key.
FindJwks(b) ==
    /\ At(b, "jwks")
    /\ \/ FailStage(b)
       \/ PassStage(b, "issuer_key", "signature", "key")
       \/ Goto(b, "jwks_sleep")
       \/ \E stale \in BOOLEAN :
            Set(b, [pc |-> "jwks_http", stale |-> stale,
                    held |-> Holding(b, "refresh")
                             \cup (IF stale THEN {"key"} ELSE {})])

\* An answer is authoritative, whatever the stale document said: it holds a
\* key or not, and may fail to be stored.  Without one the stale key is
\* accepted, also when the request was cancelled.
FetchJwks(b) ==
    /\ At(b, "jwks_http")
    /\ \/ /\ att[b].stale
          /\ Set(b, [pc |-> "signature", held |-> Released(b),
                     cancelled |-> Cancelled(b),
                     passed |-> att[b].passed \cup {"issuer_key"}])
       \/ /\ ~att[b].stale
          /\ Set(b, [pc |-> "finish", held |-> Released(b),
                     cancelled |-> Cancelled(b)])
       \/ /\ ~Cancelled(b)
          /\ \/ Set(b, [pc |-> "finish", held |-> Released(b) \ {"key"}])
             \/ Set(b, [pc |-> "finish", held |-> Released(b) \cup {"key"}])
             \/ Set(b, [pc |-> "signature", held |-> Released(b) \cup {"key"},
                        passed |-> att[b].passed \cup {"issuer_key"}])

\* ConditionVariableTimedSleep services interrupts; after it the backend
\* looks the document up once more.
Sleep(b) ==
    /\ att[b].pc \in {"metadata_sleep", "jwks_sleep"}
    /\ \/ att[b].interrupt = "die" /\ Raise(b)
       \/ att[b].interrupt = "other" /\ Set(b, [interrupt |-> "none"])
       \/ /\ att[b].interrupt = "none"
          /\ \/ FailStage(b)
             \/ At(b, "metadata_sleep") /\ Goto(b, "jwks")
             \/ /\ At(b, "jwks_sleep")
                /\ PassStage(b, "issuer_key", "signature", "key")

VerifySignature_Unchecked(b) ==
    /\ At(b, "signature")
    /\ \/ Goto(b, "claims")
       \/ PassStage(b, "signature", "claims", "key")

VerifySignature(b) ==
    /\ At(b, "signature")
    /\ \/ FailStage(b)
       \/ PassStage(b, "signature", "claims", "key")

ValidateClaims(b) ==
    /\ At(b, "claims")
    /\ \/ FailStage(b)
       \/ PassStage(b, "claims", "identity", "key")

BuildIdentity(b) ==
    /\ At(b, "identity")
    /\ \/ FailStage(b)
       \/ Set(b, [pc |-> "finish", passed |-> att[b].passed \cup {"identity"},
                  held |-> Holding(b, "identity"), ok |-> TRUE])

\* The label done
ClearStages_KeepKey(b) ==
    /\ At(b, "finish")
    /\ Set(b, [pc |-> "check", held |-> att[b].held \ {"envelope"}])

ClearStages(b) ==
    /\ At(b, "finish")
    /\ Set(b, [pc |-> "check", held |-> att[b].held \ {"envelope", "key"}])

-----------------------------------------------------------------------------
(* The decision *)

CheckInterrupt_Skipped(b) ==
    /\ At(b, "check")
    /\ Goto(b, "decide")

\* Everything is released before CHECK_FOR_INTERRUPTS.
CheckInterrupt(b) ==
    /\ At(b, "check")
    /\ LET left == att[b].held \ {"identity", "url", "host"}
       IN  \/ /\ att[b].interrupt = "none"
              /\ Goto(b, "decide")
           \/ /\ att[b].interrupt = "die"
              /\ Set(b, [pc |-> "exited", answer |-> "interrupt", held |-> left])
           \/ /\ att[b].interrupt = "other"
              /\ Set(b, [pc |-> "returned", answer |-> "false", held |-> left,
                         interrupt |-> "none"])

\* The copy of the identity, and that of an error detail, may raise an error.
Decide(b) ==
    /\ At(b, "decide")
    /\ LET left == att[b].held \ {"identity", "url", "host"}
       IN  \/ Raise(b)
           \/ /\ ~att[b].ok
              /\ Set(b, [pc |-> "returned", answer |-> "true", held |-> left])
           \/ /\ att[b].ok
              /\ Set(b, [pc |-> "returned", answer |-> "true", held |-> left,
                         authn_id |-> TRUE, authorized |-> TRUE])

-----------------------------------------------------------------------------
(* Around the callback *)

\* Authentication timeout or shutdown, or any other interrupt.
Signal(b) ==
    /\ att[b].pc \notin {"out", "returned", "exited"}
    /\ att[b].interrupt # "die"
    /\ \E kind \in {"die", "other"} :
            kind # att[b].interrupt /\ Set(b, [interrupt |-> kind])

\* The process is gone, at once or at the end of its session.
Disconnect(b) ==
    /\ att[b].pc \in {"returned", "exited"}
    /\ att' = [att EXCEPT ![b] = [NewAttempt EXCEPT !.pc = "out"]]
    /\ UNCHANGED <<setting, segment>>

Reload ==
    /\ setting' \in Capacities \ {setting}
    /\ UNCHANGED <<segment, att>>

Restart ==
    /\ segment' = 0
    /\ att' = [b \in Backends |-> [NewAttempt EXCEPT !.pc = "out"]]
    /\ UNCHANGED setting

Step(b) ==
    \/ ReadPolicy(b)
    \/ AttachCache(b)
    \/ MakeUrl(b)
    \/ ScanToken(b)
    \/ ParseEnvelope(b)
    \/ FindMetadata(b)
    \/ FetchMetadata(b)
    \/ FindJwks(b)
    \/ FetchJwks(b)
    \/ Sleep(b)
    \/ VerifySignature(b)
    \/ ValidateClaims(b)
    \/ BuildIdentity(b)
    \/ ClearStages(b)
    \/ CheckInterrupt(b)
    \/ Decide(b)

ValidatorNext ==
    \/ \E b \in Backends :
            Step(b) \/ Connect(b) \/ Disconnect(b) \/ Signal(b)
    \/ Reload
    \/ Restart

ValidatorSpec == ValidatorInit /\ [][ValidatorNext]_validatorVars

-----------------------------------------------------------------------------
(* Types, and that the segment has a capacity some configuration set.      *)
TypeOK ==
    /\ setting \in Capacities
    /\ segment \in Capacities \cup {0}
    /\ \A b \in Backends :
        /\ att[b].pc \in Locations
        /\ att[b].capacity \in Capacities
        /\ att[b].held \subseteq
                {"url", "host", "envelope", "key", "identity", "refresh"}
        /\ att[b].passed \subseteq Stages
        /\ att[b].interrupt \in {"none", "die", "other"}
        /\ att[b].answer \in {"none", "true", "false", "error", "interrupt"}
        /\ {att[b].cancelled, att[b].stale, att[b].ok, att[b].authorized,
             att[b].authn_id} \subseteq BOOLEAN

(* src/pg_oauth_validator.c: the callback "begins denied and authorizes    *)
(* only after the complete configured validation pipeline succeeds".       *)
(* Whatever stages fail, signals arrive and errors are raised, the result  *)
(* says authorized only with all five stages passed, an identity, and a    *)
(* decision returned.                                                      *)
AuthorizedAfterAllStages ==
    \A b \in Backends :
        att[b].authorized =>
            /\ att[b].passed = Stages
            /\ att[b].authn_id
            /\ att[b].answer = "true"

(* A request cut short by an interrupt never leads to a connection, not    *)
(* even when issuer_key.c took the failed refresh for an outage and        *)
(* accepted the stale key: the interrupt is still pending when the         *)
(* callback looks, as nothing services interrupts in between.              *)
CancelledNotAuthorized ==
    \A b \in Backends : att[b].cancelled => ~att[b].authorized

(* src/pg_oauth_validator.c: "Leave no transport, cache refresh, or        *)
(* identity allocation behind."  A callback that returns, or ends at its   *)
(* CHECK_FOR_INTERRUPTS, has released all it held; no way a process can    *)
(* end leaves a refresh that others would wait for.                        *)
NothingLeftBehind ==
    \A b \in Backends :
        /\ att[b].pc = "returned" \/ att[b].answer = "interrupt"
              => att[b].held = {}
        /\ att[b].pc = "exited" => "refresh" \notin att[b].held

(* docs/configuration.md: when cache_max_entries changes during a reload,  *)
(* "cache attachment and authentication fail closed until restart".        *)
(* However reloads and new connections interleave, no backend uses a       *)
(* segment laid out for another capacity than its own.                     *)
CapacityAgreed ==
    \A b \in Backends :
        att[b].pc \notin {"out", "policy", "cache", "returned", "exited"}
            => att[b].capacity = segment
=============================================================================
