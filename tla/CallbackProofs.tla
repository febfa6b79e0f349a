-------------------------- MODULE CallbackProofs ----------------------------
(***************************************************************************)
(* The validate callback (pg_oauth_validator.c) with any number of         *)
(* backends, and the encodings around it whatever the length of the texts: *)
(* Base64URL (base64url.c) has one spelling for each octet string, and     *)
(* policies that differ have different cache keys.                         *)
(***************************************************************************)
EXTENDS EncodingInputs, Validator, TLAPS

-----------------------------------------------------------------------------
(* The callback                                                            *)

\* The fields of an attempt.
CallFields ==
    {"pc", "capacity", "held", "passed", "interrupt", "cancelled", "stale",
     "ok", "answer", "authorized", "authn_id"}

\* What a backend can hold at each location.
Holds(a) ==
    /\ a.pc \in {"out", "policy", "cache", "url", "returned"} => a.held = {}
    /\ a.pc \in {"token", "envelope"} => a.held \subseteq {"url", "host"}
    /\ a.pc \in {"metadata", "metadata_sleep", "jwks", "jwks_sleep"} =>
            a.held \subseteq {"url", "host", "envelope"}
    /\ a.pc = "metadata_http" =>
            a.held \subseteq {"url", "host", "envelope", "refresh"}
    /\ a.pc = "jwks_http" =>
            a.held \subseteq {"url", "host", "envelope", "refresh", "key"}
    /\ a.pc \in {"signature", "claims", "identity"} =>
            a.held \subseteq {"url", "host", "envelope", "key"}
    /\ a.pc = "finish" =>
            a.held \subseteq {"url", "host", "envelope", "key", "identity"}
    /\ a.pc \in {"check", "decide"} =>
            a.held \subseteq {"url", "host", "identity"}
    /\ a.pc = "exited" => "refresh" \notin a.held
    /\ a.answer = "interrupt" => a.held = {}
    /\ a.pc \notin {"returned", "exited"} => a.answer = "none"

\* The stages passed at each location.
Passed(a) ==
    /\ a.pc \in {"out", "policy", "cache", "url", "token", "envelope"} =>
            a.passed = {}
    /\ a.pc \in {"metadata", "metadata_sleep", "metadata_http",
                 "jwks", "jwks_sleep", "jwks_http"} =>
            a.passed = {"envelope"}
    /\ a.pc = "signature" => a.passed = {"envelope", "issuer_key"}
    /\ a.pc = "claims" => a.passed = {"envelope", "issuer_key", "signature"}
    /\ a.pc = "identity" =>
            a.passed = {"envelope", "issuer_key", "signature", "claims"}
    /\ a.ok => /\ a.passed = Stages
               /\ a.pc \in {"finish", "check", "decide", "returned", "exited"}
    /\ a.authorized => /\ a.pc = "returned" /\ a.answer = "true"
                       /\ a.passed = Stages /\ a.authn_id

\* A cancelled request leaves its interrupt pending up to the callback's check.
Pending(a) ==
    /\ a.cancelled =>
            a.pc \in {"signature", "claims", "identity", "finish", "check",
                      "returned", "exited"}
    /\ a.cancelled /\ a.pc \notin {"returned", "exited"} => a.interrupt # "none"
    /\ a.cancelled => ~a.authorized

\* TypeOK for one attempt, without its flags.
Typed(a) ==
    /\ DOMAIN a = CallFields
    /\ a.pc \in Locations
    /\ a.capacity \in Capacities
    /\ a.held \subseteq
            {"url", "host", "envelope", "key", "identity", "refresh"}
    /\ a.passed \subseteq Stages
    /\ a.interrupt \in {"none", "die", "other"}
    /\ a.answer \in {"none", "true", "false", "error", "interrupt"}

Flags(a) ==
    {a.cancelled, a.stale, a.ok, a.authorized, a.authn_id} \subseteq BOOLEAN

\* A backend past attaching has the segment's capacity.
Agreed(a, capacity) ==
    a.pc \notin {"out", "policy", "cache", "returned", "exited"} =>
        a.capacity = capacity

Good(a, capacity) ==
    /\ Typed(a) /\ Flags(a)
    /\ Holds(a) /\ Passed(a) /\ Pending(a) /\ Agreed(a, capacity)

\* The inductive invariant.
IInv ==
    /\ setting \in Capacities
    /\ segment \in Capacities \cup {0}
    /\ DOMAIN att = Backends
    /\ \A b \in Backends : Good(att[b], segment)

-----------------------------------------------------------------------------
\* A backend's step leaves the invariant when its new attempt is a good one:
\* no step touches the attempt of another backend.
LEMMA ReplaceKeeps ==
    ASSUME IInv, NEW b \in Backends, NEW new, Good(new, segment),
           att' = [att EXCEPT ![b] = new], UNCHANGED <<setting, segment>>
    PROVE  IInv'
  BY Zenon DEF IInv

\* The same for a step that sets some of the fields.
LEMMA SetKeeps ==
    ASSUME IInv, NEW b \in Backends, NEW r, Set(b, r), Good(With(att[b], r), segment)
    PROVE  IInv'
  BY ReplaceKeeps, Zenon DEF Set

\* What a connection begins with is good.
LEMMA NewIsGood ==
    ASSUME setting \in Capacities, NEW capacity
    PROVE  /\ Good(NewAttempt, capacity)
           /\ Good([NewAttempt EXCEPT !.pc = "out"], capacity)
  BY Zenon DEF NewAttempt, Good, Typed, Flags, Holds, Passed, Pending, Agreed,
         CallFields, Locations, Stages

\* pg_oauth_hba_policy_read and pg_oauth_policy_build hold nothing.
LEMMA ReadPolicyKeeps ==
    ASSUME IInv, NEW b \in Backends, ReadPolicy(b)
    PROVE  IInv'
<1> DEFINE a == att[b]
<1>1. Good(a, segment) /\ a.pc = "policy"
  BY Zenon DEF IInv, ReadPolicy, At
<1>2. Good(With(a, [pc |-> "returned", answer |-> "false", held |-> {}]), segment)
  BY <1>1, ZenonT(60) DEF Good, Typed, Flags, Holds, Passed, Pending, Agreed,
         With, CallFields, Locations, Stages
<1>3. Good(With(a, [pc |-> "cache"]), segment)
  BY <1>1, ZenonT(60) DEF Good, Typed, Flags, Holds, Passed, Pending, Agreed,
         With, CallFields, Locations, Stages
<1>4. QED
  BY <1>2, <1>3, SetKeeps, ZenonT(30) DEF ReadPolicy, ReturnFalse, Goto

\* The first backend lays the segment out for its own capacity: no other one
\* is past attaching then.  Later ones attach only with that capacity.
LEMMA AttachCacheKeeps ==
    ASSUME IInv, NEW b \in Backends, AttachCache(b)
    PROVE  IInv'
<1> DEFINE a == att[b]
<1>1. Good(a, segment) /\ a.pc = "cache"
  BY Zenon DEF IInv, AttachCache, At
<1>2. CASE segment = 0 /\ segment' = a.capacity /\ UNCHANGED setting
           /\ (\/ att' = [att EXCEPT ![b].pc = "url"]
               \/ att' = [att EXCEPT ![b].pc = "returned", ![b].answer = "false"])
  <2>1. PICK new : /\ att' = [att EXCEPT ![b] = new]
                   /\ \/ new = [a EXCEPT !.pc = "url"]
                      \/ new = [a EXCEPT !.pc = "returned", !.answer = "false"]
    BY <1>2, Zenon
  <2>2. Good(new, a.capacity)
    <3>1. CASE new = [a EXCEPT !.pc = "url"]
      BY <1>1, <3>1 DEF Good, Typed, Flags, Holds, Passed, Pending, Agreed,
           CallFields, Locations, Stages
    <3>2. CASE new = [a EXCEPT !.pc = "returned", !.answer = "false"]
      BY <1>1, <3>2 DEF Good, Typed, Flags, Holds, Passed, Pending, Agreed,
           CallFields, Locations, Stages
    <3>3. QED
      BY <2>1, <3>1, <3>2, Zenon
  <2>3. \A c \in Backends : Good(att[c], a.capacity)
    BY <1>1, <1>2, ValidatorAssumption DEF IInv, Good, Typed, Agreed
  <2>4. a.capacity \in Capacities
    BY <1>1, Zenon DEF Good, Typed
  <2>5. QED
    BY <1>2, <2>1, <2>2, <2>3, <2>4, Zenon DEF IInv
<1>3. Good(With(a, [pc |-> "returned", answer |-> "false", held |-> {}]), segment)
  BY <1>1, ZenonT(60) DEF Good, Typed, Flags, Holds, Passed, Pending, Agreed, With,
       CallFields, Locations, Stages
<1>4. segment = a.capacity => Good(With(a, [pc |-> "url"]), segment)
  BY <1>1, ZenonT(60) DEF Good, Typed, Flags, Holds, Passed, Pending, Agreed, With,
       CallFields, Locations, Stages
<1>5. Good(With(a, [pc |-> "exited", answer |-> "error"]), segment)
  BY <1>1, ZenonT(60) DEF Good, Typed, Flags, Holds, Passed, Pending, Agreed, With,
       CallFields, Locations, Stages
<1>6. QED
  BY <1>2, <1>3, <1>4, <1>5, SetKeeps, Zenon
     DEF AttachCache, initialize_shared_cache, SegmentFits, ReturnFalse, Goto, Raise

\* The URL and its host are the first things held.
LEMMA MakeUrlKeeps ==
    ASSUME IInv, NEW b \in Backends, MakeUrl(b)
    PROVE  IInv'
<1> DEFINE a == att[b]
<1>1. Good(a, segment) /\ a.pc = "url"
  BY Zenon DEF IInv, MakeUrl, At
<1>2. Good(With(a, [pc |-> "returned", answer |-> "false", held |-> {}]), segment)
  BY <1>1, ZenonT(60) DEF Good, Typed, Flags, Holds, Passed, Pending, Agreed,
         With, CallFields, Locations, Stages
<1>3. Good(With(a, [pc |-> "exited", answer |-> "error"]), segment)
  BY <1>1, ZenonT(60) DEF Good, Typed, Flags, Holds, Passed, Pending, Agreed,
         With, CallFields, Locations, Stages
<1>4. Good(With(a, [pc |-> "token", held |-> {"url", "host"}]), segment)
  BY <1>1, ZenonT(60) DEF Good, Typed, Flags, Holds, Passed, Pending, Agreed,
         With, CallFields, Locations, Stages
<1>5. QED
  BY <1>2, <1>3, <1>4, SetKeeps, ZenonT(30) DEF MakeUrl, ReturnFalse, Raise

\* A refused token releases both.
LEMMA ScanTokenKeeps ==
    ASSUME IInv, NEW b \in Backends, ScanToken(b)
    PROVE  IInv'
<1> DEFINE a == att[b]
<1>1. Good(a, segment) /\ a.pc = "token"
  BY Zenon DEF IInv, ScanToken, At
<1>2. Good(With(a, [pc |-> "returned", answer |-> "true",
                         held |-> a.held \ {"url", "host"}]), segment)
  BY <1>1, ZenonT(60) DEF Good, Typed, Flags, Holds, Passed, Pending, Agreed,
         With, CallFields, Locations, Stages
<1>3. Good(With(a, [pc |-> "exited", answer |-> "error"]), segment)
  BY <1>1, ZenonT(60) DEF Good, Typed, Flags, Holds, Passed, Pending, Agreed,
         With, CallFields, Locations, Stages
<1>4. Good(With(a, [pc |-> "envelope"]), segment)
  BY <1>1, ZenonT(60) DEF Good, Typed, Flags, Holds, Passed, Pending, Agreed,
         With, CallFields, Locations, Stages
<1>5. QED
  BY <1>2, <1>3, <1>4, SetKeeps, ZenonT(30) DEF ScanToken, ReturnTrue, Raise,
         Goto

\* The first stage.
LEMMA ParseEnvelopeKeeps ==
    ASSUME IInv, NEW b \in Backends, ParseEnvelope(b)
    PROVE  IInv'
<1> DEFINE a == att[b]
<1>1. Good(a, segment) /\ a.pc = "envelope"
  BY Zenon DEF IInv, ParseEnvelope, At
<1>2. Good(With(a, [pc |-> "finish"]), segment)
  BY <1>1, ZenonT(60) DEF Good, Typed, Flags, Holds, Passed, Pending, Agreed,
         With, CallFields, Locations, Stages
<1>3. Good(With(a, [pc |-> "metadata", passed |-> a.passed \cup {"envelope"},
                         held |-> Holding(b, "envelope")]), segment)
  BY <1>1, ZenonT(60) DEF Good, Typed, Flags, Holds, Passed, Pending, Agreed,
         With, CallFields, Locations, Stages, Holding
<1>4. QED
  BY <1>2, <1>3, SetKeeps, ZenonT(30) DEF ParseEnvelope, FailStage, Goto,
         PassStage

\* A refresh is held only across a transfer.
LEMMA FindMetadataKeeps ==
    ASSUME IInv, NEW b \in Backends, FindMetadata(b)
    PROVE  IInv'
<1> DEFINE a == att[b]
<1>1. Good(a, segment) /\ a.pc = "metadata"
  BY Zenon DEF IInv, FindMetadata, At
<1>2. Good(With(a, [pc |-> "finish"]), segment)
  BY <1>1, ZenonT(60) DEF Good, Typed, Flags, Holds, Passed, Pending, Agreed,
         With, CallFields, Locations, Stages
<1>3. Good(With(a, [pc |-> "jwks"]), segment)
  BY <1>1, ZenonT(60) DEF Good, Typed, Flags, Holds, Passed, Pending, Agreed,
         With, CallFields, Locations, Stages
<1>4. Good(With(a, [pc |-> "metadata_sleep"]), segment)
  BY <1>1, ZenonT(60) DEF Good, Typed, Flags, Holds, Passed, Pending, Agreed,
         With, CallFields, Locations, Stages
<1>5. Good(With(a, [pc |-> "metadata_http", held |-> Holding(b, "refresh")]), segment)
  BY <1>1, ZenonT(60) DEF Good, Typed, Flags, Holds, Passed, Pending, Agreed,
         With, CallFields, Locations, Stages, Holding
<1>6. QED
  BY <1>2, <1>3, <1>4, <1>5, SetKeeps, ZenonT(30) DEF FindMetadata, FailStage,
         Goto

\* A cancelled request fails with its interrupt pending.
LEMMA FetchMetadataKeeps ==
    ASSUME IInv, NEW b \in Backends, FetchMetadata(b)
    PROVE  IInv'
<1> DEFINE a == att[b]
<1>1. Good(a, segment) /\ a.pc = "metadata_http"
  BY Zenon DEF IInv, FetchMetadata, At
<1>2. Good(With(a, [pc |-> "finish", held |-> Released(b),
                         cancelled |-> Cancelled(b)]), segment)
  BY <1>1, ZenonT(60) DEF Good, Typed, Flags, Holds, Passed, Pending, Agreed,
         With, CallFields, Locations, Stages, Released, Cancelled
<1>3. Good(With(a, [pc |-> "jwks", held |-> Released(b)]), segment)
  BY <1>1, ZenonT(60) DEF Good, Typed, Flags, Holds, Passed, Pending, Agreed,
         With, CallFields, Locations, Stages, Released
<1>4. QED
  BY <1>2, <1>3, SetKeeps, ZenonT(30) DEF FetchMetadata

\* The same for the key, with the key of a stale document in hand or not.
LEMMA FindJwksKeeps ==
    ASSUME IInv, NEW b \in Backends, FindJwks(b)
    PROVE  IInv'
<1> DEFINE a == att[b]
<1>1. Good(a, segment) /\ a.pc = "jwks"
  BY Zenon DEF IInv, FindJwks, At
<1>2. Good(With(a, [pc |-> "finish"]), segment)
  BY <1>1, ZenonT(60) DEF Good, Typed, Flags, Holds, Passed, Pending, Agreed,
         With, CallFields, Locations, Stages
<1>3. Good(With(a, [pc |-> "signature", passed |-> a.passed \cup {"issuer_key"},
                         held |-> Holding(b, "key")]), segment)
  BY <1>1, ZenonT(60) DEF Good, Typed, Flags, Holds, Passed, Pending, Agreed,
         With, CallFields, Locations, Stages, Holding
<1>4. Good(With(a, [pc |-> "jwks_sleep"]), segment)
  BY <1>1, ZenonT(60) DEF Good, Typed, Flags, Holds, Passed, Pending, Agreed,
         With, CallFields, Locations, Stages
<1>5. Good(With(a, [pc |-> "jwks_http", stale |-> TRUE,
                         held |-> Holding(b, "refresh") \cup {"key"}]), segment)
  BY <1>1, ZenonT(60) DEF Good, Typed, Flags, Holds, Passed, Pending, Agreed,
         With, CallFields, Locations, Stages, Holding
<1>6. Good(With(a, [pc |-> "jwks_http", stale |-> FALSE,
                         held |-> Holding(b, "refresh") \cup {}]), segment)
  BY <1>1, ZenonT(60) DEF Good, Typed, Flags, Holds, Passed, Pending, Agreed,
         With, CallFields, Locations, Stages, Holding
<1>7. QED
  BY <1>2, <1>3, <1>4, <1>5, <1>6, SetKeeps, ZenonT(30) DEF FindJwks,
         FailStage, Goto, PassStage

\* A stale key may be accepted after a cancelled request; its interrupt is
\* pending then.
LEMMA FetchJwksKeeps ==
    ASSUME IInv, NEW b \in Backends, FetchJwks(b)
    PROVE  IInv'
<1> DEFINE a == att[b]
<1>1. Good(a, segment) /\ a.pc = "jwks_http"
  BY Zenon DEF IInv, FetchJwks, At
<1>2. Good(With(a, [pc |-> "signature", held |-> Released(b),
                         cancelled |-> Cancelled(b),
                         passed |-> a.passed \cup {"issuer_key"}]), segment)
  BY <1>1, ZenonT(60) DEF Good, Typed, Flags, Holds, Passed, Pending, Agreed,
         With, CallFields, Locations, Stages, Released, Cancelled
<1>3. Good(With(a, [pc |-> "finish", held |-> Released(b),
                         cancelled |-> Cancelled(b)]), segment)
  BY <1>1, ZenonT(60) DEF Good, Typed, Flags, Holds, Passed, Pending, Agreed,
         With, CallFields, Locations, Stages, Released, Cancelled
<1>4. Good(With(a, [pc |-> "finish", held |-> Released(b) \ {"key"}]), segment)
  BY <1>1, ZenonT(60) DEF Good, Typed, Flags, Holds, Passed, Pending, Agreed,
         With, CallFields, Locations, Stages, Released
<1>5. Good(With(a, [pc |-> "finish", held |-> Released(b) \cup {"key"}]), segment)
  BY <1>1, ZenonT(60) DEF Good, Typed, Flags, Holds, Passed, Pending, Agreed,
         With, CallFields, Locations, Stages, Released
<1>6. Good(With(a, [pc |-> "signature", held |-> Released(b) \cup {"key"},
                         passed |-> a.passed \cup {"issuer_key"}]), segment)
  BY <1>1, ZenonT(60) DEF Good, Typed, Flags, Holds, Passed, Pending, Agreed,
         With, CallFields, Locations, Stages, Released
<1>7. QED
  BY <1>2, <1>3, <1>4, <1>5, <1>6, SetKeeps, ZenonT(30) DEF FetchJwks

\* PostgreSQL services an interrupt in the sleep, when nothing is cancelled yet.
LEMMA SleepKeeps ==
    ASSUME IInv, NEW b \in Backends, Sleep(b)
    PROVE  IInv'
<1> DEFINE a == att[b]
<1>1. Good(a, segment) /\ a.pc \in {"metadata_sleep", "jwks_sleep"}
  BY Zenon DEF IInv, Sleep
<1>2. Good(With(a, [pc |-> "exited", answer |-> "error"]), segment)
  BY <1>1, ZenonT(60) DEF Good, Typed, Flags, Holds, Passed, Pending, Agreed,
         With, CallFields, Locations, Stages
<1>3. Good(With(a, [interrupt |-> "none"]), segment)
  BY <1>1, ZenonT(60) DEF Good, Typed, Flags, Holds, Passed, Pending, Agreed,
         With, CallFields, Locations, Stages
<1>4. Good(With(a, [pc |-> "finish"]), segment)
  BY <1>1, ZenonT(60) DEF Good, Typed, Flags, Holds, Passed, Pending, Agreed,
         With, CallFields, Locations, Stages
<1>5. a.pc = "metadata_sleep"
          => Good(With(a, [pc |-> "jwks"]), segment)
  BY <1>1, ZenonT(60) DEF Good, Typed, Flags, Holds, Passed, Pending, Agreed,
         With, CallFields, Locations, Stages
<1>6. a.pc = "jwks_sleep"
          => Good(With(a, [pc |-> "signature", passed |-> a.passed \cup {"issuer_key"},
                         held |-> Holding(b, "key")]), segment)
  BY <1>1, ZenonT(60) DEF Good, Typed, Flags, Holds, Passed, Pending, Agreed,
         With, CallFields, Locations, Stages, Holding
<1>7. QED
  BY <1>2, <1>3, <1>4, <1>5, <1>6, SetKeeps, ZenonT(30) DEF Sleep, Raise,
         FailStage, Goto, PassStage, At

\* The third stage.
LEMMA VerifySignatureKeeps ==
    ASSUME IInv, NEW b \in Backends, VerifySignature(b)
    PROVE  IInv'
<1> DEFINE a == att[b]
<1>1. Good(a, segment) /\ a.pc = "signature"
  BY Zenon DEF IInv, VerifySignature, At
<1>2. Good(With(a, [pc |-> "finish"]), segment)
  BY <1>1, ZenonT(60) DEF Good, Typed, Flags, Holds, Passed, Pending, Agreed,
         With, CallFields, Locations, Stages
<1>3. Good(With(a, [pc |-> "claims", passed |-> a.passed \cup {"signature"},
                         held |-> Holding(b, "key")]), segment)
  BY <1>1, ZenonT(60) DEF Good, Typed, Flags, Holds, Passed, Pending, Agreed,
         With, CallFields, Locations, Stages, Holding
<1>4. QED
  BY <1>2, <1>3, SetKeeps, ZenonT(30) DEF VerifySignature, FailStage, Goto,
         PassStage

\* The fourth stage.
LEMMA ValidateClaimsKeeps ==
    ASSUME IInv, NEW b \in Backends, ValidateClaims(b)
    PROVE  IInv'
<1> DEFINE a == att[b]
<1>1. Good(a, segment) /\ a.pc = "claims"
  BY Zenon DEF IInv, ValidateClaims, At
<1>2. Good(With(a, [pc |-> "finish"]), segment)
  BY <1>1, ZenonT(60) DEF Good, Typed, Flags, Holds, Passed, Pending, Agreed,
         With, CallFields, Locations, Stages
<1>3. Good(With(a, [pc |-> "identity", passed |-> a.passed \cup {"claims"},
                         held |-> Holding(b, "key")]), segment)
  BY <1>1, ZenonT(60) DEF Good, Typed, Flags, Holds, Passed, Pending, Agreed,
         With, CallFields, Locations, Stages, Holding
<1>4. QED
  BY <1>2, <1>3, SetKeeps, ZenonT(30) DEF ValidateClaims, FailStage, Goto,
         PassStage

\* The last stage: with it the pipeline reports success.
LEMMA BuildIdentityKeeps ==
    ASSUME IInv, NEW b \in Backends, BuildIdentity(b)
    PROVE  IInv'
<1> DEFINE a == att[b]
<1>1. Good(a, segment) /\ a.pc = "identity"
  BY Zenon DEF IInv, BuildIdentity, At
<1>2. Good(With(a, [pc |-> "finish"]), segment)
  BY <1>1, ZenonT(60) DEF Good, Typed, Flags, Holds, Passed, Pending, Agreed,
         With, CallFields, Locations, Stages
<1>3. Good(With(a, [pc |-> "finish", passed |-> a.passed \cup {"identity"},
                         held |-> Holding(b, "identity"), ok |-> TRUE]), segment)
  BY <1>1, ZenonT(60) DEF Good, Typed, Flags, Holds, Passed, Pending, Agreed,
         With, CallFields, Locations, Stages, Holding
<1>4. QED
  BY <1>2, <1>3, SetKeeps, ZenonT(30) DEF BuildIdentity, FailStage, Goto

\* The pipeline's end releases what the stages allocated but the identity.
LEMMA ClearStagesKeeps ==
    ASSUME IInv, NEW b \in Backends, ClearStages(b)
    PROVE  IInv'
<1> DEFINE a == att[b]
<1>1. Good(a, segment) /\ a.pc = "finish"
  BY Zenon DEF IInv, ClearStages, At
<1>2. Good(With(a, [pc |-> "check", held |-> a.held \ {"envelope", "key"}]), segment)
  BY <1>1, ZenonT(60) DEF Good, Typed, Flags, Holds, Passed, Pending, Agreed,
         With, CallFields, Locations, Stages
<1>3. QED
  BY <1>2, SetKeeps, ZenonT(30) DEF ClearStages

\* A cancelled request ends here: its interrupt is still pending.
LEMMA CheckInterruptKeeps ==
    ASSUME IInv, NEW b \in Backends, CheckInterrupt(b)
    PROVE  IInv'
<1> DEFINE a == att[b]
<1>1. Good(a, segment) /\ a.pc = "check"
  BY Zenon DEF IInv, CheckInterrupt, At
<1>2. a.interrupt = "none"
          => Good(With(a, [pc |-> "decide"]), segment)
  BY <1>1, ZenonT(60) DEF Good, Typed, Flags, Holds, Passed, Pending, Agreed,
         With, CallFields, Locations, Stages
<1>3. Good(With(a, [pc |-> "exited", answer |-> "interrupt",
                         held |-> a.held \ {"identity", "url", "host"}]), segment)
  BY <1>1, ZenonT(60) DEF Good, Typed, Flags, Holds, Passed, Pending, Agreed,
         With, CallFields, Locations, Stages
<1>4. Good(With(a, [pc |-> "returned", answer |-> "false",
                         held |-> a.held \ {"identity", "url", "host"},
                         interrupt |-> "none"]), segment)
  BY <1>1, ZenonT(60) DEF Good, Typed, Flags, Holds, Passed, Pending, Agreed,
         With, CallFields, Locations, Stages
<1>5. QED
  BY <1>2, <1>3, <1>4, SetKeeps, ZenonT(30) DEF CheckInterrupt, Goto

\* Only a pipeline that reported success authorizes.
LEMMA DecideKeeps ==
    ASSUME IInv, NEW b \in Backends, Decide(b)
    PROVE  IInv'
<1> DEFINE a == att[b]
<1>1. Good(a, segment) /\ a.pc = "decide"
  BY Zenon DEF IInv, Decide, At
<1>2. Good(With(a, [pc |-> "exited", answer |-> "error"]), segment)
  BY <1>1, ZenonT(60) DEF Good, Typed, Flags, Holds, Passed, Pending, Agreed,
         With, CallFields, Locations, Stages
<1>3. Good(With(a, [pc |-> "returned", answer |-> "true",
                         held |-> a.held \ {"identity", "url", "host"}]), segment)
  BY <1>1, ZenonT(60) DEF Good, Typed, Flags, Holds, Passed, Pending, Agreed,
         With, CallFields, Locations, Stages
<1>4. a.ok
          => Good(With(a, [pc |-> "returned", answer |-> "true",
                         held |-> a.held \ {"identity", "url", "host"},
                         authn_id |-> TRUE, authorized |-> TRUE]), segment)
  BY <1>1, ZenonT(60) DEF Good, Typed, Flags, Holds, Passed, Pending, Agreed,
         With, CallFields, Locations, Stages
<1>5. QED
  BY <1>2, <1>3, <1>4, SetKeeps, ZenonT(30) DEF Decide, Raise

\* An interrupt arrives: none is ever taken back outside of the places above.
LEMMA SignalKeeps ==
    ASSUME IInv, NEW b \in Backends, Signal(b)
    PROVE  IInv'
<1> DEFINE a == att[b]
<1>1. Good(a, segment) /\ a.pc \notin {"out", "returned", "exited"}
  BY Zenon DEF IInv, Signal
<1>2. ASSUME NEW signal \in {"die", "other"}
      PROVE  Good(With(a, [interrupt |-> signal]), segment)
  <2> DEFINE new == With(a, [interrupt |-> signal])
  <2>1. /\ DOMAIN new = CallFields /\ new.interrupt = signal
        /\ new.pc = a.pc /\ new.capacity = a.capacity /\ new.held = a.held
        /\ new.passed = a.passed /\ new.cancelled = a.cancelled
        /\ new.stale = a.stale /\ new.ok = a.ok /\ new.answer = a.answer
        /\ new.authorized = a.authorized /\ new.authn_id = a.authn_id
    BY <1>1, Zenon DEF Good, Typed, With, CallFields
  <2> HIDE DEF new
  <2>2. Typed(new) /\ Flags(new)
    BY <1>1, <2>1 DEF Good, Typed, Flags
  <2>3. Holds(new)
    BY <1>1, <2>1, Zenon DEF Good, Holds
  <2>4. Passed(new)
    BY <1>1, <2>1, Zenon DEF Good, Passed
  <2>5. Pending(new) /\ Agreed(new, segment)
    BY <1>1, <2>1, Zenon DEF Good, Pending, Agreed
  <2>6. QED
    BY <2>2, <2>3, <2>4, <2>5, Zenon DEF Good, new
<1>3. QED
  BY <1>2, SetKeeps, Zenon DEF Signal

-----------------------------------------------------------------------------
\* The invariant holds at first.
LEMMA InitIInv == ValidatorInit => IInv
  BY NewIsGood, Zenon DEF ValidatorInit, IInv

\* Every step of a backend, a reload and a restart preserve it.
LEMMA NextIInv == IInv /\ [ValidatorNext]_validatorVars => IInv'
<1> SUFFICES ASSUME IInv, [ValidatorNext]_validatorVars PROVE IInv'
  OBVIOUS
<1>1. ASSUME NEW b \in Backends, Step(b) PROVE IInv'
  BY <1>1, ReadPolicyKeeps, AttachCacheKeeps, MakeUrlKeeps, ScanTokenKeeps,
     ParseEnvelopeKeeps, FindMetadataKeeps, FetchMetadataKeeps, FindJwksKeeps,
     FetchJwksKeeps, SleepKeeps, VerifySignatureKeeps, ValidateClaimsKeeps,
     BuildIdentityKeeps, ClearStagesKeeps, CheckInterruptKeeps, DecideKeeps, Zenon
     DEF Step
<1>2. ASSUME NEW b \in Backends, Connect(b) \/ Disconnect(b) PROVE IInv'
  <2>1. Good(NewAttempt, segment) /\ Good([NewAttempt EXCEPT !.pc = "out"], segment)
    BY NewIsGood, Zenon DEF IInv
  <2>2. QED
    BY <1>2, <2>1, ReplaceKeeps, Zenon DEF Connect, Disconnect
<1>3. CASE Reload
  BY <1>3, Zenon DEF Reload, IInv
<1>4. CASE Restart
  BY <1>4, NewIsGood, Zenon DEF Restart, IInv
<1>5. CASE UNCHANGED validatorVars
  BY <1>5, Zenon DEF validatorVars, IInv
<1>6. QED
  BY <1>1, <1>2, <1>3, <1>4, <1>5, SignalKeeps, Zenon DEF ValidatorNext

\* All reachable states satisfy the invariant.
THEOREM CallbackInvariant == ValidatorSpec => []IInv
  BY InitIInv, NextIInv, PTL DEF ValidatorSpec

\* The settings, the segment and the attempts keep their types.
THEOREM CallbackTypes == ValidatorSpec => []TypeOK
<1>1. IInv => TypeOK
  BY Zenon DEF IInv, Good, Typed, Flags, TypeOK
<1>2. QED
  BY <1>1, CallbackInvariant, PTL

\* However stages fail, signals arrive and errors are raised, the callback says
\* authorized only with all five stages passed and an identity.
THEOREM CallbackAuthorizes == ValidatorSpec => []AuthorizedAfterAllStages
<1>1. IInv => AuthorizedAfterAllStages
  BY Zenon DEF IInv, Good, Passed, AuthorizedAfterAllStages
<1>2. QED
  BY <1>1, CallbackInvariant, PTL

\* A request that an interrupt cut short never leads to a connection, although
\* a stale key may be accepted after it.
THEOREM CallbackDropsCancelled == ValidatorSpec => []CancelledNotAuthorized
<1>1. IInv => CancelledNotAuthorized
  BY Zenon DEF IInv, Good, Pending, CancelledNotAuthorized
<1>2. QED
  BY <1>1, CallbackInvariant, PTL

\* The callback returns with nothing held, and no process ends with a refresh.
THEOREM CallbackLeavesNothing == ValidatorSpec => []NothingLeftBehind
<1>1. IInv => NothingLeftBehind
  BY Zenon DEF IInv, Good, Holds, NothingLeftBehind
<1>2. QED
  BY <1>1, CallbackInvariant, PTL

\* No backend works in a segment laid out for another capacity.
THEOREM CallbackAgrees == ValidatorSpec => []CapacityAgreed
<1>1. IInv => CapacityAgreed
  BY Zenon DEF IInv, Good, Agreed, CapacityAgreed
<1>2. QED
  BY <1>1, CallbackInvariant, PTL

-----------------------------------------------------------------------------
(* Base64URL and cache keys                                                *)


(* A sequence with one element more.                                       *)
LEMMA Appended ==
    ASSUME NEW S, NEW s \in Seq(S), NEW e \in S
    PROVE  /\ Append(s, e) \in Seq(S) /\ Append(s, e) # <<>>
           /\ Len(Append(s, e)) = Len(s) + 1
           /\ \A i \in 1 .. Len(s) : Append(s, e)[i] = s[i]
           /\ Append(s, e)[Len(s) + 1] = e
  BY SMT

(* A part of a sequence.                                                   *)
LEMMA Part ==
    ASSUME NEW S, NEW s, NEW i \in Int, NEW j \in Int, \A k \in i .. j : s[k] \in S
    PROVE  /\ SubSeq(s, i, j) \in Seq(S)
           /\ Len(SubSeq(s, i, j)) = IF i <= j THEN j - i + 1 ELSE 0
           /\ \A k \in 1 .. j - i + 1 : SubSeq(s, i, j)[k] = s[i + k - 1]
  BY SMT

(* One sequence after another.                                             *)
LEMMA Concatenated ==
    ASSUME NEW S, NEW s \in Seq(S), NEW t \in Seq(S)
    PROVE  /\ s \o t \in Seq(S) /\ Len(s \o t) = Len(s) + Len(t)
           /\ \A i \in 1 .. Len(s) + Len(t) :
                    (s \o t)[i] = IF i <= Len(s) THEN s[i] ELSE t[i - Len(s)]
  BY SMT

(* Sequences are equal when their elements are.                            *)
LEMMA SameSequence ==
    ASSUME NEW S, NEW s \in Seq(S), NEW t \in Seq(S),
           Len(s) = Len(t), \A i \in 1 .. Len(s) : s[i] = t[i]
    PROVE  s = t
  BY SMT

(* A sequence over a set is one over every larger set.                     *)
LEMMA WiderElements ==
    ASSUME NEW S, NEW T, NEW s \in Seq(S), S \subseteq T
    PROVE  s \in Seq(T)
  BY SMT

\* The state of the enumeration.
OctetsOK ==
    /\ kind \in Kinds
    /\ text \in Seq(Byte)
    /\ kind = "key" => text \in Seq(1 .. 255)

(* Every input is a string of bytes, and a C string where the code has one. *)
THEOREM InputOctets == Spec => []OctetsOK
<1>1. Init => OctetsOK
  <2>1. <<>> \in Seq(Byte) /\ <<>> \in Seq(1 .. 255)
    OBVIOUS
  <2> QED
    BY Zenon, <2>1 DEF Init, OctetsOK
<1>2. ASSUME OctetsOK, [Next]_vars PROVE OctetsOK'
  <2>1. CASE Extend
    <3>1. PICK c \in Alphabet[kind] : text' = Append(text, c)
      BY <2>1, Zenon DEF Extend
    <3>2. c \in Byte /\ (kind = "key" => c \in 1 .. 255)
      BY <1>2, InputAssumption, ZenonT(60) DEF OctetsOK, Byte
    <3>3. kind' = kind /\ scheme' = scheme
      BY <2>1, Zenon DEF Extend
    <3>4. text' \in Seq(Byte) /\ (kind = "key" => text' \in Seq(1 .. 255))
      BY ZenonT(60), <1>2, <3>1, <3>2, Appended DEF OctetsOK
    <3> QED
      BY Zenon, <1>2, <3>3, <3>4 DEF OctetsOK
  <2>2. CASE UNCHANGED vars
    BY <1>2, <2>2, Zenon DEF OctetsOK, vars
  <2> QED
    BY <1>2, <2>1, <2>2, Zenon DEF Next
<1> QED
  BY <1>1, <1>2, PTL DEF Spec

-----------------------------------------------------------------------------
(* base64url.c: output positions of one block depend on that block only,   *)
(* and a block is an arithmetic identity.                                  *)

(* base64url_value inverts base64url_alphabet, and the other way round on  *)
(* the bytes that base64url_value accepts.                                 *)
LEMMA AlphabetInverse ==
    \A v \in 0 .. 63 : /\ base64url_alphabet(v) \in Byte
                       /\ base64url_value(base64url_alphabet(v)) = v
  BY DEF base64url_alphabet, base64url_value, Byte

\* Every byte that base64url_value accepts is the one base64url_alphabet gives.
LEMMA ValueInverse ==
    \A c \in Byte : base64url_value(c) >= 0 =>
        /\ base64url_value(c) \in 0 .. 63
        /\ base64url_alphabet(base64url_value(c)) = c
  BY DEF base64url_alphabet, base64url_value, Byte

(* decoded_size and encoded_size are inverse on the lengths that occur.    *)
LEMMA DecodedSize ==
    ASSUME NEW n \in Nat, n % 4 # 1
    PROVE  /\ decoded_size(n) \in Nat
           /\ encoded_size(decoded_size(n)) = n
  BY DEF decoded_size, encoded_size

\* An encoded length is one that decodes, and decodes to the length it came from.
LEMMA EncodedSize ==
    ASSUME NEW n \in Nat
    PROVE  /\ encoded_size(n) \in Nat
           /\ encoded_size(n) % 4 # 1
           /\ decoded_size(encoded_size(n)) = n
  BY DEF decoded_size, encoded_size

(* The two checks of pg_oauth_base64url_encoded_size refuse exactly the    *)
(* lengths whose encoded size does not fit in a size_t: neither the        *)
(* product nor the sum it computes can wrap.                               *)
THEOREM SizeGuardExact ==
    ASSUME NEW n \in Nat
    PROVE  encoded_size_fits(n) <=> encoded_size(n) <= SizeMax
  BY SizeAssumption DEF encoded_size_fits, encoded_size

-----------------------------------------------------------------------------
(* The bits of a block of two, three or four characters, and the octets    *)
(* and characters they come apart into.                                    *)
Bits2(v1, v2) == v1 * 64 + v2
Bits3(v1, v2, v3) == v1 * 4096 + v2 * 64 + v3
Bits4(v1, v2, v3, v4) == v1 * 262144 + v2 * 4096 + v3 * 64 + v4

Octet1(v1, v2) == v1 * 4 + v2 \div 16
Octet2(v2, v3) == (v2 % 16) * 16 + v3 \div 4
Octet3(v3, v4) == (v3 % 4) * 64 + v4

(* The bits of the second and of the third character of a block that the   *)
(* first and the second octet do not use.                                  *)
Low2(v2) == v2 % 16
Low3(v3) == v3 % 4

(* decoded_octet takes these octets out of a block of either length.       *)
LEMMA BlockDecodes ==
    ASSUME NEW v1 \in 0 .. 63, NEW v2 \in 0 .. 63
    PROVE  \A v3, v4 \in 0 .. 63 :
                /\ decoded_octet(Bits4(v1, v2, v3, v4), 4, 0) = Octet1(v1, v2)
                /\ decoded_octet(Bits4(v1, v2, v3, v4), 4, 1) = Octet2(v2, v3)
                /\ decoded_octet(Bits4(v1, v2, v3, v4), 4, 2) = Octet3(v3, v4)
<1> SUFFICES ASSUME NEW v3 \in 0 .. 63, NEW v4 \in 0 .. 63
             PROVE  /\ decoded_octet(Bits4(v1, v2, v3, v4), 4, 0) = Octet1(v1, v2)
                    /\ decoded_octet(Bits4(v1, v2, v3, v4), 4, 1) = Octet2(v2, v3)
                    /\ decoded_octet(Bits4(v1, v2, v3, v4), 4, 2) = Octet3(v3, v4)
  BY Zenon
<1>1. PICK bits : bits = Bits4(v1, v2, v3, v4)
  OBVIOUS
<1>2. /\ bits \in Nat
      /\ v2 \div 16 \in 0 .. 3 /\ v2 % 16 \in 0 .. 15
      /\ v3 \div 4 \in 0 .. 15 /\ v3 % 4 \in 0 .. 3
      /\ v2 = (v2 \div 16) * 16 + (v2 % 16)
      /\ v3 = (v3 \div 4) * 4 + (v3 % 4)
  BY <1>1, SMT DEF Bits4
<1>3. decoded_octet(bits, 4, 0) = Octet1(v1, v2)
  BY <1>1, <1>2, SMT DEF decoded_octet, Bits4, Octet1
<1>4. decoded_octet(bits, 4, 1) = Octet2(v2, v3)
  <2>1. bits \div 256 = v1 * 1024 + v2 * 16 + v3 \div 4
    BY <1>1, <1>2, SMT DEF Bits4
  <2>2. (bits \div 256) % 256 = (v2 % 16) * 16 + v3 \div 4
    BY <1>2, <2>1, SMT
  <2>. QED  BY <2>2, SMT DEF decoded_octet, Octet2
<1>5. decoded_octet(bits, 4, 2) = Octet3(v3, v4)
  BY <1>1, <1>2, SMT DEF decoded_octet, Bits4, Octet3
<1>. QED  BY <1>1, <1>3, <1>4, <1>5, Zenon

\* The last block, of two or three characters, decodes to one or two octets.
LEMMA ShortBlockDecodes ==
    ASSUME NEW v1 \in 0 .. 63, NEW v2 \in 0 .. 63
    PROVE  /\ decoded_octet(Bits2(v1, v2), 2, 0) = Octet1(v1, v2)
           /\ \A v3 \in 0 .. 63 :
                /\ decoded_octet(Bits3(v1, v2, v3), 3, 0) = Octet1(v1, v2)
                /\ decoded_octet(Bits3(v1, v2, v3), 3, 1) = Octet2(v2, v3)
<1>1. decoded_octet(Bits2(v1, v2), 2, 0) = Octet1(v1, v2)
  BY SMT DEF decoded_octet, Bits2, Octet1
<1>2. \A v3 \in 0 .. 63 :
            decoded_octet(Bits3(v1, v2, v3), 3, 0) = Octet1(v1, v2)
  BY SMT DEF decoded_octet, Bits3, Octet1
<1>3. \A v3 \in 0 .. 63 :
            decoded_octet(Bits3(v1, v2, v3), 3, 1) = Octet2(v2, v3)
  BY SMT DEF decoded_octet, Bits3, Octet2
<1>. QED  BY <1>1, <1>2, <1>3, Zenon

-----------------------------------------------------------------------------
value(s, i) == base64url_value(s[i])

(* Every character of a valid text has a value of six bits.                *)
LEMMA ValidValues ==
    ASSUME NEW s \in Seq(Byte), valid(s)
    PROVE  \A i \in 1 .. Len(s) : value(s, i) \in 0 .. 63
<1> TAKE i \in 1 .. Len(s)
<1>1. s[i] \in Byte
  OBVIOUS
<1>2. base64url_value(s[i]) >= 0
  BY Zenon DEF valid
<1>. QED  BY <1>1, <1>2, ValueInverse, Zenon DEF value

(* Character k of a text of n characters is in block q at place j; the     *)
(* block has c characters and decodes to c - 1 octets.                     *)
LEMMA CharacterBlock ==
    ASSUME NEW n \in Nat, n % 4 # 1, NEW k \in 1 .. n
    PROVE  \E q \in Nat, j \in 1 .. 4, c \in {2, 3, 4} :
                /\ k = q * 4 + j /\ j <= c /\ q * 4 + c <= n
                /\ c = block_length(n, q, 4)
                /\ q * 3 + c - 1 <= decoded_size(n)
                /\ c # 4 => n = q * 4 + c /\ n % 4 = c
<1>1. PICK q \in Nat, j \in 1 .. 4 : k = q * 4 + j
  <2>1. k = ((k - 1) \div 4) * 4 + (((k - 1) % 4) + 1)
    BY SMT
  <2>. QED  BY <2>1, SMT
<1>2. PICK c : c = block_length(n, q, 4)
  OBVIOUS
<1>3. /\ c \in {2, 3, 4} /\ j <= c /\ q * 4 + c <= n
      /\ c # 4 => n = q * 4 + c /\ n % 4 = c
  BY <1>1, <1>2, SMT DEF block_length
<1>4. q * 3 + c - 1 <= decoded_size(n)
  BY <1>1, <1>2, <1>3, SMT DEF block_length, decoded_size
<1>. QED  BY <1>1, <1>2, <1>3, <1>4, Zenon

\* The characters of a block are characters of the text.
LEMMA InBlock ==
    ASSUME NEW n \in Nat, NEW q \in Nat, NEW c \in {2, 3, 4},
           q * 4 + c <= n, NEW j \in 1 .. 4, j <= c
    PROVE  q * 4 + j \in 1 .. n
  BY SMT

Block(s, q, c) ==
    /\ q \in Nat /\ c \in {2, 3, 4}
    /\ c = block_length(Len(s), q, 4)
    /\ q * 4 + c <= Len(s) /\ q * 3 + c - 1 <= decoded_size(Len(s))

(* What decode writes for block q of a text, which has c characters.       *)
LEMMA DecodedBlock ==
    ASSUME NEW s \in Seq(Byte), valid(s), NEW q, NEW c, Block(s, q, c)
    PROVE  /\ decode(s)[q * 3 + 1] = Octet1(value(s, q * 4 + 1), value(s, q * 4 + 2))
           /\ c > 2 => decode(s)[q * 3 + 2] =
                            Octet2(value(s, q * 4 + 2), value(s, q * 4 + 3))
           /\ c > 3 => decode(s)[q * 3 + 3] =
                            Octet3(value(s, q * 4 + 3), value(s, q * 4 + 4))
<1>1. /\ Len(s) \in Nat /\ decoded_size(Len(s)) \in Nat
      /\ q \in Nat /\ c \in {2, 3, 4}
      /\ q * 4 + c <= Len(s) /\ q * 3 + c - 1 <= decoded_size(Len(s))
  <2>1. Len(s) \in Nat /\ Len(s) % 4 # 1
    BY DEF valid
  <2>2. decoded_size(Len(s)) \in Nat
    BY <2>1, DecodedSize, Zenon
  <2>. QED  BY <2>1, <2>2, Zenon DEF Block
<1>2. ASSUME NEW j \in 1 .. 3, j < c
      PROVE  decode(s)[q * 3 + j] =
                decoded_octet(decoded_bits(s, q, c), c, j - 1)
  <2>1. PICK k : k = q * 3 + j
    OBVIOUS
  <2>2. /\ k \in 1 .. decoded_size(Len(s))
        /\ (k - 1) \div 3 = q
        /\ (k - 1) % 3 = j - 1
    BY <1>1, <1>2, <2>1, SMT
  <2>3. decode(s)[k] = decoded_octet(decoded_bits(s, q, c), c, j - 1)
    BY <2>2, Zenon DEF decode, Block
  <2>. QED  BY <2>1, <2>3, Zenon
<1>3. ASSUME NEW j \in 1 .. 4, j <= c
      PROVE  value(s, q * 4 + j) \in 0 .. 63
  BY <1>1, <1>3, InBlock, ValidValues, Zenon
<1>4. /\ decode(s)[q * 3 + 1] = decoded_octet(decoded_bits(s, q, c), c, 0)
      /\ c > 2 => decode(s)[q * 3 + 2] = decoded_octet(decoded_bits(s, q, c), c, 1)
      /\ c > 3 => decode(s)[q * 3 + 3] = decoded_octet(decoded_bits(s, q, c), c, 2)
  BY <1>1, <1>2
<1>5. CASE c = 4
  <2>1. decoded_bits(s, q, c) = Bits4(value(s, q * 4 + 1), value(s, q * 4 + 2),
                                    value(s, q * 4 + 3), value(s, q * 4 + 4))
    BY <1>5, SMT DEF decoded_bits, Bits4, value
  <2>2. /\ value(s, q * 4 + 1) \in 0 .. 63 /\ value(s, q * 4 + 2) \in 0 .. 63
        /\ value(s, q * 4 + 3) \in 0 .. 63 /\ value(s, q * 4 + 4) \in 0 .. 63
    BY <1>1, <1>3, <1>5
  <2>3. PICK v1 \in 0 .. 63, v2 \in 0 .. 63, v3 \in 0 .. 63, v4 \in 0 .. 63 :
                /\ v1 = value(s, q * 4 + 1) /\ v2 = value(s, q * 4 + 2)
                /\ v3 = value(s, q * 4 + 3) /\ v4 = value(s, q * 4 + 4)
    BY <2>2, Zenon
  <2>5. \A w3, w4 \in 0 .. 63 :
                /\ decoded_octet(Bits4(v1, v2, w3, w4), 4, 0) = Octet1(v1, v2)
                /\ decoded_octet(Bits4(v1, v2, w3, w4), 4, 1) = Octet2(v2, w3)
                /\ decoded_octet(Bits4(v1, v2, w3, w4), 4, 2) = Octet3(w3, w4)
    BY BlockDecodes, ZenonT(60)
  <2>4. /\ decoded_octet(Bits4(v1, v2, v3, v4), 4, 0) = Octet1(v1, v2)
        /\ decoded_octet(Bits4(v1, v2, v3, v4), 4, 1) = Octet2(v2, v3)
        /\ decoded_octet(Bits4(v1, v2, v3, v4), 4, 2) = Octet3(v3, v4)
    BY <2>5, Zenon
  <2>. QED  BY <1>4, <1>5, <2>1, <2>3, <2>4, Zenon
<1>6. CASE c = 3
  <2>1. decoded_bits(s, q, c) = Bits3(value(s, q * 4 + 1), value(s, q * 4 + 2),
                                    value(s, q * 4 + 3))
    BY <1>6, SMT DEF decoded_bits, Bits3, value
  <2>2. /\ value(s, q * 4 + 1) \in 0 .. 63 /\ value(s, q * 4 + 2) \in 0 .. 63
        /\ value(s, q * 4 + 3) \in 0 .. 63
    BY <1>1, <1>3, <1>6
  <2>3. PICK v1, v2, v3 : /\ v1 = value(s, q * 4 + 1) /\ v2 = value(s, q * 4 + 2)
                          /\ v3 = value(s, q * 4 + 3)
    OBVIOUS
  <2>4. /\ decoded_octet(Bits3(v1, v2, v3), 3, 0) = Octet1(v1, v2)
        /\ decoded_octet(Bits3(v1, v2, v3), 3, 1) = Octet2(v2, v3)
    BY <2>2, <2>3, ShortBlockDecodes, Zenon
  <2>. QED  BY <1>4, <1>6, <2>1, <2>3, <2>4
<1>7. CASE c = 2
  <2>1. decoded_bits(s, q, c) = Bits2(value(s, q * 4 + 1), value(s, q * 4 + 2))
    BY <1>7, SMT DEF decoded_bits, Bits2, value
  <2>2. value(s, q * 4 + 1) \in 0 .. 63 /\ value(s, q * 4 + 2) \in 0 .. 63
    BY <1>1, <1>3, <1>7
  <2>3. PICK v1, v2 : v1 = value(s, q * 4 + 1) /\ v2 = value(s, q * 4 + 2)
    OBVIOUS
  <2>4. decoded_octet(Bits2(v1, v2), 2, 0) = Octet1(v1, v2)
    BY <2>2, <2>3, ShortBlockDecodes, Zenon
  <2>. QED  BY <1>4, <1>7, <2>1, <2>3, <2>4
<1>. QED  BY <1>1, <1>5, <1>6, <1>7, Zenon

(* Two accepted texts that decode to the same octets are the same text:    *)
(* pg_oauth_base64url_valid leaves one spelling for each octet string.     *)
THEOREM Canonical ==
    ASSUME NEW s \in Seq(Byte), NEW t \in Seq(Byte), valid(s), valid(t),
           decode(s) = decode(t)
    PROVE  s = t
<1>1. /\ Len(s) \in Nat /\ Len(s) % 4 # 1 /\ Len(t) \in Nat /\ Len(t) % 4 # 1
  BY DEF valid
<1>2. Len(s) = Len(t)
  <2>1. decoded_size(Len(s)) \in Nat /\ decoded_size(Len(t)) \in Nat
    BY <1>1, DecodedSize, Zenon
  <2>2. DOMAIN decode(s) = 1 .. decoded_size(Len(s))
        /\ DOMAIN decode(t) = 1 .. decoded_size(Len(t))
    BY Zenon DEF decode
  <2>3. decoded_size(Len(s)) = decoded_size(Len(t))
    BY <2>1, <2>2
  <2>. QED  BY <1>1, <2>3, DecodedSize, Zenon
<1>3. ASSUME NEW k \in 1 .. Len(s)
      PROVE  value(s, k) = value(t, k)
  <2>1. PICK q \in Nat, j \in 1 .. 4, c \in {2, 3, 4} :
                /\ k = q * 4 + j /\ j <= c /\ q * 4 + c <= Len(s)
                /\ c = block_length(Len(s), q, 4)
                /\ q * 3 + c - 1 <= decoded_size(Len(s))
                /\ c # 4 => Len(s) = q * 4 + c /\ Len(s) % 4 = c
    BY <1>1, CharacterBlock, Zenon
  <2>2. Block(s, q, c) /\ Block(t, q, c)
    BY <1>2, <2>1, Zenon DEF Block
  <2>3. ASSUME NEW i \in 1 .. 4, i <= c
        PROVE  value(s, q * 4 + i) \in 0 .. 63 /\ value(t, q * 4 + i) \in 0 .. 63
    <3>1. q * 4 + i \in 1 .. Len(s)
      BY <1>1, <2>1, <2>3, InBlock, Zenon
    <3>. QED  BY <1>2, <3>1, ValidValues, Zenon
  <2>4. /\ Octet1(value(s, q * 4 + 1), value(s, q * 4 + 2)) =
                Octet1(value(t, q * 4 + 1), value(t, q * 4 + 2))
        /\ c > 2 => Octet2(value(s, q * 4 + 2), value(s, q * 4 + 3)) =
                        Octet2(value(t, q * 4 + 2), value(t, q * 4 + 3))
        /\ c > 3 => Octet3(value(s, q * 4 + 3), value(s, q * 4 + 4)) =
                        Octet3(value(t, q * 4 + 3), value(t, q * 4 + 4))
    BY <2>2, DecodedBlock, ZenonT(60)
  <2>5. /\ c = 2 => Low2(value(s, q * 4 + 2)) = Low2(value(t, q * 4 + 2))
        /\ c = 3 => Low3(value(s, q * 4 + 3)) = Low3(value(t, q * 4 + 3))
    <3>1. /\ Len(s) % 4 = 2 => value(s, Len(s)) % 16 = 0 /\ value(t, Len(s)) % 16 = 0
          /\ Len(s) % 4 = 3 => value(s, Len(s)) % 4 = 0 /\ value(t, Len(s)) % 4 = 0
      BY <1>2, Zenon DEF valid, value
    <3>2. /\ c = 2 => Len(s) % 4 = 2 /\ Len(s) = q * 4 + 2
          /\ c = 3 => Len(s) % 4 = 3 /\ Len(s) = q * 4 + 3
      <4>1. c = 2 \/ c = 3 => c # 4
        OBVIOUS
      <4>. QED  BY <2>1, <4>1, Zenon
    <3>. QED  BY <3>1, <3>2, Zenon DEF Low2, Low3
  <2>6. PICK v1, v2, v3, v4, w1, w2, w3, w4 :
            /\ v1 = value(s, q * 4 + 1) /\ v2 = value(s, q * 4 + 2)
            /\ v3 = value(s, q * 4 + 3) /\ v4 = value(s, q * 4 + 4)
            /\ w1 = value(t, q * 4 + 1) /\ w2 = value(t, q * 4 + 2)
            /\ w3 = value(t, q * 4 + 3) /\ w4 = value(t, q * 4 + 4)
    OBVIOUS
  <2>7. /\ v1 \in 0 .. 63 /\ w1 \in 0 .. 63 /\ v2 \in 0 .. 63 /\ w2 \in 0 .. 63
        /\ c > 2 => v3 \in 0 .. 63 /\ w3 \in 0 .. 63
        /\ c > 3 => v4 \in 0 .. 63 /\ w4 \in 0 .. 63
    BY <2>3, <2>6
  <2>8. c > 3 => v4 = w4 /\ Low3(v3) = Low3(w3)
    <3> HAVE c > 3
    <3>1. Octet3(v3, v4) = Octet3(w3, w4)
      BY <2>4, <2>6, Zenon
    <3>2. v3 \in 0 .. 63 /\ w3 \in 0 .. 63 /\ v4 \in 0 .. 63 /\ w4 \in 0 .. 63
      BY <2>7
    <3>. QED  BY <3>1, <3>2, SMT DEF Octet3, Low3
  <2>9. c > 2 => v3 = w3 /\ Low2(v2) = Low2(w2)
    <3> HAVE c > 2
    <3>1. Octet2(v2, v3) = Octet2(w2, w3)
      BY <2>4, <2>6, Zenon
    <3>2. v2 \in 0 .. 63 /\ w2 \in 0 .. 63 /\ v3 \in 0 .. 63 /\ w3 \in 0 .. 63
      BY <2>7, Zenon
    <3>3. Low3(v3) = Low3(w3)
      BY <2>5, <2>6, <2>8
    <3>. QED  BY <3>1, <3>2, <3>3, SMT DEF Octet2, Low2, Low3
  <2>10. v1 = w1 /\ v2 = w2
    <3>1. Octet1(v1, v2) = Octet1(w1, w2)
      BY <2>4, <2>6, Zenon
    <3>2. v1 \in 0 .. 63 /\ w1 \in 0 .. 63 /\ v2 \in 0 .. 63 /\ w2 \in 0 .. 63
      BY <2>7, Zenon
    <3>3. Low2(v2) = Low2(w2)
      BY <2>5, <2>6, <2>9
    <3>. QED  BY <3>1, <3>2, <3>3, SMT DEF Octet1, Low2
  <2>. QED
    <3>0. j \in 1 .. 4 /\ c \in {2, 3, 4} /\ j <= c
      BY Zenon, <2>1
    <3>1. j = 1 \/ j = 2 \/ (j = 3 /\ c > 2) \/ (j = 4 /\ c > 3)
      BY SMT, <3>0
    <3>2. k = q * 4 + j
      BY Zenon, <2>1
    <3>3. CASE j = 1
      BY Zenon, <2>6, <2>10, <3>2, <3>3
    <3>4. CASE j = 2
      BY Zenon, <2>6, <2>10, <3>2, <3>4
    <3>5. CASE j = 3 /\ c > 2
      BY Zenon, <2>6, <2>9, <3>2, <3>5
    <3>6. CASE j = 4 /\ c > 3
      BY Zenon, <2>6, <2>8, <3>2, <3>6
    <3>. QED  BY Zenon, <3>1, <3>3, <3>4, <3>5, <3>6
<1>4. ASSUME NEW k \in 1 .. Len(s)
      PROVE  s[k] = t[k]
  <2>1. s[k] \in Byte /\ t[k] \in Byte
    BY <1>2
  <2>2. base64url_value(s[k]) >= 0 /\ base64url_value(t[k]) >= 0
    BY <1>2, Zenon DEF valid
  <2>3. base64url_value(s[k]) = base64url_value(t[k])
    BY <1>3, Zenon DEF value
  <2>. QED  BY <2>1, <2>2, <2>3, ValueInverse, Zenon
<1>. QED  BY <1>2, <1>4

(* The values of the characters that a block of octets comes apart into.   *)
Char1(b1) == b1 \div 4
Char2(b1, b2) == (b1 % 4) * 16 + b2 \div 16
Char3(b2, b3) == (b2 % 16) * 4 + b3 \div 64
Char4(b3) == b3 % 64

(* The bits of a block of one, two or three octets.                        *)
OctetBits1(b1) == b1 * 16
OctetBits2(b1, b2) == b1 * 1024 + b2 * 4
OctetBits3(b1, b2, b3) == b1 * 65536 + b2 * 256 + b3

(* encoded_value takes these values out of a block of any length; the      *)
(* octets that a short block lacks count as zero.                          *)
LEMMA BlockEncodes ==
    ASSUME NEW b1 \in Byte, NEW b2 \in Byte, NEW b3 \in Byte
    PROVE  /\ encoded_value(OctetBits3(b1, b2, b3), 3, 0) = Char1(b1)
           /\ encoded_value(OctetBits3(b1, b2, b3), 3, 1) = Char2(b1, b2)
           /\ encoded_value(OctetBits3(b1, b2, b3), 3, 2) = Char3(b2, b3)
           /\ encoded_value(OctetBits3(b1, b2, b3), 3, 3) = Char4(b3)
           /\ encoded_value(OctetBits2(b1, b2), 2, 0) = Char1(b1)
           /\ encoded_value(OctetBits2(b1, b2), 2, 1) = Char2(b1, b2)
           /\ encoded_value(OctetBits2(b1, b2), 2, 2) = Char3(b2, 0)
           /\ encoded_value(OctetBits1(b1), 1, 0) = Char1(b1)
           /\ encoded_value(OctetBits1(b1), 1, 1) = Char2(b1, 0)
<1>1. PICK a1 \in 0 .. 63, r1 \in 0 .. 3 :
            b1 = a1 * 4 + r1 /\ b1 \div 4 = a1 /\ b1 % 4 = r1
  <2>1. b1 \div 4 \in 0 .. 63 /\ b1 % 4 \in 0 .. 3 /\ b1 = (b1 \div 4) * 4 + (b1 % 4)
    BY SMT DEF Byte
  <2> QED
    BY Zenon, <2>1
<1>2. PICK a2 \in 0 .. 15, r2 \in 0 .. 15 :
            b2 = a2 * 16 + r2 /\ b2 \div 16 = a2 /\ b2 % 16 = r2
  <2>1. b2 \div 16 \in 0 .. 15 /\ b2 % 16 \in 0 .. 15 /\ b2 = (b2 \div 16) * 16 + (b2 % 16)
    BY SMT DEF Byte
  <2> QED
    BY Zenon, <2>1
<1>3. PICK a3 \in 0 .. 3, r3 \in 0 .. 63 :
            b3 = a3 * 64 + r3 /\ b3 \div 64 = a3 /\ b3 % 64 = r3
  <2>1. b3 \div 64 \in 0 .. 3 /\ b3 % 64 \in 0 .. 63 /\ b3 = (b3 \div 64) * 64 + (b3 % 64)
    BY SMT DEF Byte
  <2> QED
    BY Zenon, <2>1
<1>4. PICK bits : bits = OctetBits3(b1, b2, b3)
  BY Zenon
<1>5. /\ bits = a1 * 262144 + r1 * 65536 + a2 * 4096 + r2 * 256 + a3 * 64 + r3
      /\ bits \div 262144 = a1
      /\ bits \div 4096 = a1 * 64 + r1 * 16 + a2
      /\ bits \div 64 = a1 * 4096 + r1 * 1024 + a2 * 64 + r2 * 4 + a3
      /\ bits % 64 = r3
  <2>1. bits = a1 * 262144 + r1 * 65536 + a2 * 4096 + r2 * 256 + a3 * 64 + r3
    BY SMT, <1>1, <1>2, <1>3, <1>4 DEF OctetBits3
  <2>2. bits \div 262144 = a1
    BY SMT, <2>1
  <2>3. bits \div 4096 = a1 * 64 + r1 * 16 + a2
    BY SMT, <2>1
  <2>4. bits \div 64 = a1 * 4096 + r1 * 1024 + a2 * 64 + r2 * 4 + a3
    BY SMT, <2>1
  <2>5. bits % 64 = r3
    BY SMT, <2>1
  <2> QED
    BY <2>1, <2>2, <2>3, <2>4, <2>5
<1>6. /\ (bits \div 262144) % 64 = a1
      /\ (bits \div 4096) % 64 = r1 * 16 + a2
      /\ (bits \div 64) % 64 = r2 * 4 + a3
  BY SMT, <1>5
<1>7. /\ encoded_value(bits, 3, 0) = a1 /\ encoded_value(bits, 3, 1) = r1 * 16 + a2
      /\ encoded_value(bits, 3, 2) = r2 * 4 + a3 /\ encoded_value(bits, 3, 3) = r3
  BY SMT, <1>5, <1>6 DEF encoded_value
<1>8. PICK two : two = OctetBits2(b1, b2)
  BY Zenon
<1>9. /\ (two \div 4096) % 64 = a1
      /\ (two \div 64) % 64 = r1 * 16 + a2
      /\ two % 64 = r2 * 4
  <2>1. two = a1 * 4096 + r1 * 1024 + a2 * 64 + r2 * 4
    BY SMT, <1>1, <1>2, <1>8 DEF OctetBits2
  <2>2. two \div 4096 = a1
    BY SMT, <2>1
  <2>3. two \div 64 = a1 * 64 + r1 * 16 + a2
    BY SMT, <2>1
  <2>4. two % 64 = r2 * 4
    BY SMT, <2>1
  <2> QED
    BY SMT, <2>2, <2>3, <2>4
<1>10. /\ encoded_value(two, 2, 0) = a1 /\ encoded_value(two, 2, 1) = r1 * 16 + a2
       /\ encoded_value(two, 2, 2) = r2 * 4
  BY SMT, <1>9 DEF encoded_value
<1>11. /\ ((b1 * 16) \div 64) % 64 = a1
       /\ (b1 * 16) % 64 = r1 * 16
  BY SMT, <1>1
<1>12. encoded_value(OctetBits1(b1), 1, 0) = a1 /\ encoded_value(OctetBits1(b1), 1, 1) = r1 * 16
  BY SMT, <1>11 DEF encoded_value, OctetBits1
<1>13. /\ Char1(b1) = a1 /\ Char2(b1, b2) = r1 * 16 + a2
       /\ Char3(b2, b3) = r2 * 4 + a3 /\ Char4(b3) = r3
       /\ Char3(b2, 0) = r2 * 4 /\ Char2(b1, 0) = r1 * 16
  BY SMT, <1>1, <1>2, <1>3 DEF Char1, Char2, Char3, Char4
<1> QED
  BY Zenon, <1>4, <1>7, <1>8, <1>10, <1>12, <1>13

(* The values have six bits, put the octets together again, and leave no   *)
(* bit set that a short block does not use.                                *)
LEMMA BlockReturns ==
    ASSUME NEW b1 \in Byte, NEW b2 \in Byte, NEW b3 \in Byte
    PROVE  /\ Char1(b1) \in 0 .. 63 /\ Char2(b1, b2) \in 0 .. 63
           /\ Char3(b2, b3) \in 0 .. 63 /\ Char4(b3) \in 0 .. 63
           /\ Octet1(Char1(b1), Char2(b1, b2)) = b1
           /\ Octet2(Char2(b1, b2), Char3(b2, b3)) = b2
           /\ Octet3(Char3(b2, b3), Char4(b3)) = b3
           /\ Char2(b1, 0) % 16 = 0 /\ Char3(b2, 0) % 4 = 0
<1>1. PICK a1 \in 0 .. 63, r1 \in 0 .. 3 :
            b1 = a1 * 4 + r1 /\ b1 \div 4 = a1 /\ b1 % 4 = r1
  <2>1. b1 \div 4 \in 0 .. 63 /\ b1 % 4 \in 0 .. 3 /\ b1 = (b1 \div 4) * 4 + (b1 % 4)
    BY SMT DEF Byte
  <2> QED
    BY Zenon, <2>1
<1>2. PICK a2 \in 0 .. 15, r2 \in 0 .. 15 :
            b2 = a2 * 16 + r2 /\ b2 \div 16 = a2 /\ b2 % 16 = r2
  <2>1. b2 \div 16 \in 0 .. 15 /\ b2 % 16 \in 0 .. 15 /\ b2 = (b2 \div 16) * 16 + (b2 % 16)
    BY SMT DEF Byte
  <2> QED
    BY Zenon, <2>1
<1>3. PICK a3 \in 0 .. 3, r3 \in 0 .. 63 :
            b3 = a3 * 64 + r3 /\ b3 \div 64 = a3 /\ b3 % 64 = r3
  <2>1. b3 \div 64 \in 0 .. 3 /\ b3 % 64 \in 0 .. 63 /\ b3 = (b3 \div 64) * 64 + (b3 % 64)
    BY SMT DEF Byte
  <2> QED
    BY Zenon, <2>1
<1>4. /\ Char1(b1) = a1 /\ Char2(b1, b2) = r1 * 16 + a2
      /\ Char3(b2, b3) = r2 * 4 + a3 /\ Char4(b3) = r3
      /\ Char3(b2, 0) = r2 * 4 /\ Char2(b1, 0) = r1 * 16
  BY SMT, <1>1, <1>2, <1>3 DEF Char1, Char2, Char3, Char4
<1>5. /\ (r1 * 16 + a2) \div 16 = r1 /\ (r1 * 16 + a2) % 16 = a2
      /\ (r2 * 4 + a3) \div 4 = r2 /\ (r2 * 4 + a3) % 4 = a3
      /\ (r1 * 16) % 16 = 0 /\ (r2 * 4) % 4 = 0
      /\ r1 * 16 + a2 \in 0 .. 63 /\ r2 * 4 + a3 \in 0 .. 63
  BY SMT
<1>6. Octet1(a1, r1 * 16 + a2) = b1
  BY Zenon, <1>1, <1>5 DEF Octet1
<1>7. Octet2(r1 * 16 + a2, r2 * 4 + a3) = b2
  BY Zenon, <1>2, <1>5 DEF Octet2
<1>8. Octet3(r2 * 4 + a3, r3) = b3
  BY Zenon, <1>3, <1>5 DEF Octet3
<1> QED
  BY Zenon, <1>4, <1>5, <1>6, <1>7, <1>8

(* Positions in a text of blocks of four.                                  *)
LEMMA Fourth ==
    ASSUME NEW q \in Nat, NEW j \in 1 .. 4
    PROVE  /\ (q * 4 + j - 1) \div 4 = q /\ (q * 4 + j - 1) % 4 = j - 1
  BY SMT

\* The order of positions is that of the blocks, then that of the places.
LEMMA FourthOrder ==
    ASSUME NEW q \in Nat, NEW j \in 1 .. 4, NEW d \in Nat, NEW r \in 0 .. 3,
           q * 4 + j <= d * 4 + r
    PROVE  q < d \/ (q = d /\ j <= r)
  BY SMT

\* Something encodes to something.
LEMMA EncodedNotEmpty ==
    ASSUME NEW n \in Nat, n # 0 PROVE encoded_size(n) # 0
  BY SMT DEF encoded_size

(* The octets of block q of a string of n octets.                          *)
Octets(n, q, c) ==
    /\ q \in Nat /\ c \in 1 .. 3
    /\ q * 3 + c <= n
    /\ c = block_length(n, q, 3)
    /\ c # 3 => n = q * 3 + c

\* Octet k is in a block.
LEMMA OctetBlock ==
    ASSUME NEW n \in Nat, NEW k \in 1 .. n
    PROVE  \E q \in Nat, j \in 1 .. 3, c \in 1 .. 3 :
                k = q * 3 + j /\ j <= c /\ Octets(n, q, c)
<1>1. PICK q \in Nat, j \in 1 .. 3 : k = q * 3 + j
  <2>1. k = ((k - 1) \div 3) * 3 + (((k - 1) % 3) + 1)
    BY SMT
  <2> QED
    BY <2>1, SMT
<1>2. PICK c : c = block_length(n, q, 3)
  BY Zenon
<1>3. c \in 1 .. 3 /\ j <= c /\ q * 3 + c <= n /\ (c # 3 => n = q * 3 + c)
  BY <1>1, <1>2, SMT DEF block_length
<1> QED
  BY <1>1, <1>2, <1>3, Zenon DEF Octets

\* A block of c octets has c + 1 characters, at the same place of the text.
LEMMA OctetsCharacters ==
    ASSUME NEW n \in Nat, NEW q, NEW c, Octets(n, q, c)
    PROVE  /\ q * 4 + c + 1 <= encoded_size(n)
           /\ c + 1 = block_length(encoded_size(n), q, 4)
           /\ c # 3 => encoded_size(n) = q * 4 + c + 1
<1>1. /\ q \in Nat /\ c \in 1 .. 3 /\ q * 3 + c <= n
      /\ c # 3 => n = q * 3 + c
  BY Zenon DEF Octets
<1>2. CASE c = 3
  <2>1. q + 1 <= n \div 3
    BY SMT, <1>1, <1>2
  <2>2. n \div 3 \in Nat /\ n % 3 \in 0 .. 2
    BY SMT
  <2>3. q * 4 + 4 <= encoded_size(n)
    BY SMT, <1>1, <2>1, <2>2 DEF encoded_size
  <2> QED
    BY SMT, <1>1, <1>2, <2>3 DEF block_length
<1>3. CASE c # 3
  <2>1. n \div 3 = q /\ n % 3 = c
    BY SMT, <1>1, <1>3
  <2>2. encoded_size(n) = q * 4 + c + 1
    BY SMT, <1>1, <1>3, <2>1 DEF encoded_size
  <2> QED
    BY SMT, <1>1, <1>3, <2>2 DEF block_length
<1> QED
  BY Zenon, <1>2, <1>3

\* Character k of an encoded text stands for octets of a block.
LEMMA EncodedPlace ==
    ASSUME NEW n \in Nat, NEW k \in 1 .. encoded_size(n)
    PROVE  \E q \in Nat, j \in 1 .. 4, c \in 1 .. 3 :
                k = q * 4 + j /\ j <= c + 1 /\ Octets(n, q, c)
<1>1. encoded_size(n) \in Nat
  BY Zenon, EncodedSize
<1>2. PICK q \in Nat, j \in 1 .. 4 : k = q * 4 + j
  <2>1. k = ((k - 1) \div 4) * 4 + (((k - 1) % 4) + 1)
    BY <1>1, SMT
  <2> QED
    BY <1>1, <2>1, SMT
<1>3. PICK c : c = block_length(n, q, 3)
  BY Zenon
<1>4. PICK d \in Nat, r \in 0 .. 2 : n = d * 3 + r /\ n \div 3 = d /\ n % 3 = r
  <2>1. n \div 3 \in Nat /\ n % 3 \in 0 .. 2 /\ n = (n \div 3) * 3 + (n % 3)
    BY SMT
  <2> QED
    BY Zenon, <2>1
<1>5. encoded_size(n) = d * 4 + (IF r # 0 THEN r + 1 ELSE 0)
  BY <1>4, Zenon DEF encoded_size
<1>6. q < d \/ (q = d /\ j <= r + 1 /\ r # 0)
  <2>1. q * 4 + j <= encoded_size(n)
    BY SMT, <1>1, <1>2
  <2>2. CASE r = 0
    <3>1. q * 4 + j <= d * 4 + 0
      BY Zenon, <1>5, <2>1, <2>2
    <3>2. 0 \in 0 .. 3
      OBVIOUS
    <3>3. q < d \/ (q = d /\ j <= 0)
      BY Zenon, <3>1, <3>2, FourthOrder
    <3>4. ~(j <= 0)
      OBVIOUS
    <3> QED
      BY Zenon, <3>3, <3>4
  <2>3. CASE r # 0
    <3>1. q * 4 + j <= d * 4 + (r + 1)
      BY Zenon, <1>5, <2>1, <2>3
    <3>2. r + 1 \in 0 .. 3
      OBVIOUS
    <3>3. q < d \/ (q = d /\ j <= r + 1)
      BY Zenon, <3>1, <3>2, FourthOrder
    <3> QED
      BY Zenon, <2>3, <3>3
  <2> QED
    BY Zenon, <2>2, <2>3
<1>7. /\ c \in 1 .. 3 /\ j <= c + 1 /\ q * 3 + c <= n
      /\ c # 3 => n = q * 3 + c
  <2>1. CASE q < d
    <3>1. q * 3 + 3 <= n
      BY SMT, <1>4, <2>1
    <3> QED
      BY SMT, <1>3, <3>1 DEF block_length
  <2>2. CASE q = d /\ j <= r + 1 /\ r # 0
    <3>1. n = q * 3 + r
      BY Zenon, <1>4, <2>2
    <3> QED
      BY SMT, <1>3, <2>2, <3>1 DEF block_length
  <2> QED
    BY Zenon, <1>6, <2>1, <2>2
<1> QED
  BY <1>2, <1>3, <1>7, Zenon DEF Octets

(* What encode writes for a block of octets.                               *)
LEMMA EncodedBlock ==
    ASSUME NEW b \in Seq(Byte), NEW q, NEW c, Octets(Len(b), q, c)
    PROVE  \E b1, b2, b3 \in Byte :
            /\ b[q * 3 + 1] = b1
            /\ IF c > 1 THEN b[q * 3 + 2] = b2 ELSE b2 = 0
            /\ IF c > 2 THEN b[q * 3 + 3] = b3 ELSE b3 = 0
            /\ encode(b)[q * 4 + 1] = base64url_alphabet(Char1(b1))
            /\ encode(b)[q * 4 + 2] = base64url_alphabet(Char2(b1, b2))
            /\ c > 1 => encode(b)[q * 4 + 3] = base64url_alphabet(Char3(b2, b3))
            /\ c > 2 => encode(b)[q * 4 + 4] = base64url_alphabet(Char4(b3))
<1>1. /\ Len(b) \in Nat /\ q \in Nat /\ c \in 1 .. 3 /\ q * 3 + c <= Len(b)
      /\ c = block_length(Len(b), q, 3)
  BY DEF Octets
<1>2. encoded_size(Len(b)) \in Nat /\ q * 4 + c + 1 <= encoded_size(Len(b))
  BY Zenon, <1>1, OctetsCharacters, EncodedSize
<1>3. ASSUME NEW j \in 1 .. 4, j <= c + 1
      PROVE  encode(b)[q * 4 + j] =
                base64url_alphabet(encoded_value(encoded_bits(b, q, c), c, j - 1))
  <2>1. PICK k : k = q * 4 + j
    BY Zenon
  <2>2. /\ k \in 1 .. encoded_size(Len(b))
        /\ (k - 1) \div 4 = q
        /\ (k - 1) % 4 = j - 1
    <3>1. k \in 1 .. encoded_size(Len(b))
      BY SMTT(30), <1>1, <1>2, <1>3, <2>1
    <3>2. (q * 4 + j - 1) \div 4 = q /\ (q * 4 + j - 1) % 4 = j - 1
      BY Zenon, <1>1, Fourth
    <3>3. k - 1 = q * 4 + j - 1
      BY <1>1, <2>1
    <3> QED
      BY Zenon, <3>1, <3>2, <3>3
  <2>3. encode(b)[k] =
            base64url_alphabet(encoded_value(encoded_bits(b, q, c), c, j - 1))
    BY Zenon, <1>1, <2>2 DEF encode
  <2> QED
    BY Zenon, <2>1, <2>3
<1>4. /\ encode(b)[q * 4 + 1] =
            base64url_alphabet(encoded_value(encoded_bits(b, q, c), c, 0))
      /\ encode(b)[q * 4 + 2] =
            base64url_alphabet(encoded_value(encoded_bits(b, q, c), c, 1))
      /\ c > 1 => encode(b)[q * 4 + 3] =
            base64url_alphabet(encoded_value(encoded_bits(b, q, c), c, 2))
      /\ c > 2 => encode(b)[q * 4 + 4] =
            base64url_alphabet(encoded_value(encoded_bits(b, q, c), c, 3))
  BY SMT, <1>1, <1>3
<1>5. 0 \in Byte
  BY DEF Byte
<1>6. ASSUME NEW j \in 1 .. 3, j <= c PROVE b[q * 3 + j] \in Byte
  <2>1. q * 3 + j \in 1 .. Len(b)
    BY SMT, <1>1, <1>6
  <2> QED
    BY <2>1
<1>7. b[q * 3 + 1] \in Byte
  BY SMT, <1>1, <1>6
<1>8. CASE c = 3
  <2>1. b[q * 3 + 2] \in Byte /\ b[q * 3 + 3] \in Byte
    BY SMT, <1>6, <1>8
  <2>2. PICK b1 \in Byte, b2 \in Byte, b3 \in Byte :
            b1 = b[q * 3 + 1] /\ b2 = b[q * 3 + 2] /\ b3 = b[q * 3 + 3]
    BY Zenon, <1>7, <2>1
  <2>3. encoded_bits(b, q, c) = OctetBits3(b1, b2, b3)
    BY SMT, <1>8, <2>2 DEF encoded_bits, OctetBits3
  <2>4. /\ encode(b)[q * 4 + 1] = base64url_alphabet(Char1(b1))
        /\ encode(b)[q * 4 + 2] = base64url_alphabet(Char2(b1, b2))
        /\ c > 1 => encode(b)[q * 4 + 3] = base64url_alphabet(Char3(b2, b3))
        /\ c > 2 => encode(b)[q * 4 + 4] = base64url_alphabet(Char4(b3))
    <3>1. /\ encoded_value(OctetBits3(b1, b2, b3), 3, 0) = Char1(b1)
          /\ encoded_value(OctetBits3(b1, b2, b3), 3, 1) = Char2(b1, b2)
          /\ encoded_value(OctetBits3(b1, b2, b3), 3, 2) = Char3(b2, b3)
          /\ encoded_value(OctetBits3(b1, b2, b3), 3, 3) = Char4(b3)
      BY ZenonT(60), BlockEncodes
    <3> QED
      BY Zenon, <1>4, <1>8, <2>3, <3>1
  <2>5. c > 1 /\ c > 2
    BY <1>8
  <2> QED
    BY Zenon, <2>2, <2>4, <2>5
<1>9. CASE c = 2
  <2>1. b[q * 3 + 2] \in Byte
    BY SMT, <1>6, <1>9
  <2>2. PICK b1 \in Byte, b2 \in Byte : b1 = b[q * 3 + 1] /\ b2 = b[q * 3 + 2]
    BY Zenon, <1>7, <2>1
  <2>3. encoded_bits(b, q, c) = OctetBits2(b1, b2)
    BY SMT, <1>9, <2>2 DEF encoded_bits, OctetBits2
  <2>4. /\ encode(b)[q * 4 + 1] = base64url_alphabet(Char1(b1))
        /\ encode(b)[q * 4 + 2] = base64url_alphabet(Char2(b1, b2))
        /\ c > 1 => encode(b)[q * 4 + 3] = base64url_alphabet(Char3(b2, 0))
    BY ZenonT(60), <1>4, <1>9, <2>3, BlockEncodes
  <2>5. c > 1 /\ ~(c > 2)
    BY <1>9
  <2> QED
    BY Zenon, <1>5, <2>2, <2>4, <2>5
<1>10. CASE c = 1
  <2>2. PICK b1 \in Byte : b1 = b[q * 3 + 1]
    BY Zenon, <1>7
  <2>3. encoded_bits(b, q, c) = OctetBits1(b1)
    BY SMT, <1>10, <2>2 DEF encoded_bits, OctetBits1
  <2>4. /\ encode(b)[q * 4 + 1] = base64url_alphabet(Char1(b1))
        /\ encode(b)[q * 4 + 2] = base64url_alphabet(Char2(b1, 0))
    BY Zenon, <1>4, <1>10, <2>3, BlockEncodes
  <2>5. ~(c > 1) /\ ~(c > 2)
    BY <1>10
  <2> QED
    BY Zenon, <1>5, <2>2, <2>4, <2>5
<1> QED
  BY <1>1, <1>8, <1>9, <1>10

(* What is encoded is accepted, and it decodes to what was encoded.        *)
THEOREM EncodedReturns ==
    ASSUME NEW b \in Seq(Byte), b # <<>>
    PROVE  /\ encode(b) \in Seq(Byte)
           /\ valid(encode(b)) /\ decode(encode(b)) = b
<1> DEFINE n == Len(b)
           m == encoded_size(n)
           s == encode(b)
<1>1. /\ n \in Nat /\ n # 0 /\ m \in Nat /\ m % 4 # 1 /\ decoded_size(m) = n
  <2>1. n \in Nat /\ n # 0
    OBVIOUS
  <2> QED
    BY Zenon, <2>1, EncodedSize
<1>2. m # 0
  BY Zenon, <1>1, EncodedNotEmpty
<1>3. ASSUME NEW k \in 1 .. m
      PROVE  /\ s[k] \in Byte /\ base64url_value(s[k]) >= 0
             /\ m % 4 = 2 /\ k = m => base64url_value(s[k]) % 16 = 0
             /\ m % 4 = 3 /\ k = m => base64url_value(s[k]) % 4 = 0
  <2>1. PICK q \in Nat, j \in 1 .. 4, c \in 1 .. 3 :
                k = q * 4 + j /\ j <= c + 1 /\ Octets(n, q, c)
    BY Zenon, <1>1, EncodedPlace
  <2>2. PICK b1 \in Byte, b2 \in Byte, b3 \in Byte :
            /\ IF c > 1 THEN b[q * 3 + 2] = b2 ELSE b2 = 0
            /\ IF c > 2 THEN b[q * 3 + 3] = b3 ELSE b3 = 0
            /\ s[q * 4 + 1] = base64url_alphabet(Char1(b1))
            /\ s[q * 4 + 2] = base64url_alphabet(Char2(b1, b2))
            /\ c > 1 => s[q * 4 + 3] = base64url_alphabet(Char3(b2, b3))
            /\ c > 2 => s[q * 4 + 4] = base64url_alphabet(Char4(b3))
    BY Zenon, <2>1, EncodedBlock
  <2>3. /\ Char1(b1) \in 0 .. 63 /\ Char2(b1, b2) \in 0 .. 63
        /\ Char3(b2, b3) \in 0 .. 63 /\ Char4(b3) \in 0 .. 63
        /\ Char2(b1, 0) % 16 = 0 /\ Char3(b2, 0) % 4 = 0
    BY ZenonT(60), BlockReturns
  <2>4. PICK v \in 0 .. 63 : /\ s[k] = base64url_alphabet(v)
                             /\ j = 2 => v = Char2(b1, b2)
                             /\ j = 3 => v = Char3(b2, b3)
    <3>0. 1 # 2 /\ 1 # 3 /\ 2 # 3 /\ 4 # 2 /\ 4 # 3
      OBVIOUS
    <3>1. CASE j = 1
      BY Zenon, <2>1, <2>2, <2>3, <3>0, <3>1
    <3>2. CASE j = 2
      BY Zenon, <2>1, <2>2, <2>3, <3>0, <3>2
    <3>3. CASE j = 3
      <4>1. c > 1
        BY <2>1, <3>3
      <4> QED
        BY Zenon, <2>1, <2>2, <2>3, <3>0, <3>3, <4>1
    <3>4. CASE j = 4
      <4>1. c > 2
        BY <2>1, <3>4
      <4> QED
        BY Zenon, <2>1, <2>2, <2>3, <3>0, <3>4, <4>1
    <3> QED
      BY <3>1, <3>2, <3>3, <3>4
  <2>5. s[k] \in Byte /\ base64url_value(s[k]) = v /\ v >= 0
    <3>1. base64url_alphabet(v) \in Byte /\ base64url_value(base64url_alphabet(v)) = v
      BY AlphabetInverse, Zenon
    <3>2. v >= 0
      OBVIOUS
    <3> QED
      BY Zenon, <2>4, <3>1, <3>2
  <2>6. ASSUME m % 4 = 2, k = m PROVE v % 16 = 0
    <3>1. j = 2 /\ c = 1
      <4>1. q * 4 + c + 1 <= m /\ (c # 3 => m = q * 4 + c + 1)
        BY ZenonT(60), <1>1, <2>1, OctetsCharacters
      <4> QED
        BY SMT, <1>1, <2>1, <2>6, <4>1
    <3>2. b2 = 0
      <4>1. ~(c > 1)
        BY <3>1
      <4> QED
        BY Zenon, <2>2, <4>1
    <3> QED
      <4>1. v = Char2(b1, 0)
        BY Zenon, <2>4, <3>1, <3>2
      <4> QED
        BY Zenon, <2>3, <4>1
  <2>7. ASSUME m % 4 = 3, k = m PROVE v % 4 = 0
    <3>1. j = 3 /\ c = 2
      <4>1. q * 4 + c + 1 <= m /\ (c # 3 => m = q * 4 + c + 1)
        BY Zenon, <1>1, <2>1, OctetsCharacters
      <4> QED
        BY SMTT(30), <1>1, <2>1, <2>7, <4>1
    <3>2. b3 = 0
      <4>1. ~(c > 2)
        BY <3>1
      <4> QED
        BY Zenon, <2>2, <4>1
    <3> QED
      <4>1. v = Char3(b2, 0)
        BY Zenon, <2>4, <3>1, <3>2
      <4> QED
        BY Zenon, <2>3, <4>1
  <2> QED
    BY Zenon, <2>5, <2>6, <2>7
<1>4. s \in Seq(Byte) /\ Len(s) = m
  <2>1. DOMAIN s = 1 .. m
    BY Zenon DEF encode
  <2>2. s = [k \in 1 .. m |-> s[k]]
    BY Zenon, <2>1 DEF encode
  <2>3. s \in [1 .. m -> Byte]
    BY Zenon, <1>3, <2>2
  <2> QED
    BY <1>1, <2>3
<1>5. valid(s)
  <2>1. \A k \in 1 .. m : base64url_value(s[k]) >= 0
    BY Zenon, <1>3
  <2>2. m \in 1 .. m
    BY <1>1, <1>2
  <2> QED
    BY Zenon, <1>1, <1>2, <1>3, <1>4, <2>1, <2>2 DEF valid
<1>6. ASSUME NEW k \in 1 .. n PROVE decode(s)[k] = b[k]
  <2>1. PICK q \in Nat, j \in 1 .. 3, c \in 1 .. 3 :
                k = q * 3 + j /\ j <= c /\ Octets(n, q, c)
    BY Zenon, <1>1, OctetBlock
  <2>2. PICK b1 \in Byte, b2 \in Byte, b3 \in Byte :
            /\ b[q * 3 + 1] = b1
            /\ IF c > 1 THEN b[q * 3 + 2] = b2 ELSE b2 = 0
            /\ IF c > 2 THEN b[q * 3 + 3] = b3 ELSE b3 = 0
            /\ s[q * 4 + 1] = base64url_alphabet(Char1(b1))
            /\ s[q * 4 + 2] = base64url_alphabet(Char2(b1, b2))
            /\ c > 1 => s[q * 4 + 3] = base64url_alphabet(Char3(b2, b3))
            /\ c > 2 => s[q * 4 + 4] = base64url_alphabet(Char4(b3))
    BY Zenon, <2>1, EncodedBlock
  <2>3. /\ Char1(b1) \in 0 .. 63 /\ Char2(b1, b2) \in 0 .. 63
        /\ Char3(b2, b3) \in 0 .. 63 /\ Char4(b3) \in 0 .. 63
        /\ Octet1(Char1(b1), Char2(b1, b2)) = b1
        /\ Octet2(Char2(b1, b2), Char3(b2, b3)) = b2
        /\ Octet3(Char3(b2, b3), Char4(b3)) = b3
    BY ZenonT(60), BlockReturns
  <2>4. /\ value(s, q * 4 + 1) = Char1(b1)
        /\ value(s, q * 4 + 2) = Char2(b1, b2)
        /\ c > 1 => value(s, q * 4 + 3) = Char3(b2, b3)
        /\ c > 2 => value(s, q * 4 + 4) = Char4(b3)
    BY Zenon, <2>2, <2>3, AlphabetInverse DEF value
  <2>5. Block(s, q, c + 1)
    <3>1. /\ q * 4 + c + 1 <= m /\ c + 1 = block_length(m, q, 4)
      BY Zenon, <1>1, <2>1, OctetsCharacters
    <3>2. q * 3 + c <= n
      BY Zenon, <2>1 DEF Octets
    <3> QED
      BY SMTT(30), <1>1, <1>4, <2>1, <3>1, <3>2 DEF Block
  <2>6. /\ decode(s)[q * 3 + 1] = Octet1(value(s, q * 4 + 1), value(s, q * 4 + 2))
        /\ c + 1 > 2 => decode(s)[q * 3 + 2] =
                            Octet2(value(s, q * 4 + 2), value(s, q * 4 + 3))
        /\ c + 1 > 3 => decode(s)[q * 3 + 3] =
                            Octet3(value(s, q * 4 + 3), value(s, q * 4 + 4))
    BY Zenon, <1>4, <1>5, <2>5, DecodedBlock
  <2>7. /\ decode(s)[q * 3 + 1] = b[q * 3 + 1]
        /\ c > 1 /\ c + 1 > 2 => decode(s)[q * 3 + 2] = b[q * 3 + 2]
        /\ c > 1 /\ c > 2 /\ c + 1 > 3 => decode(s)[q * 3 + 3] = b[q * 3 + 3]
    BY Zenon, <2>2, <2>3, <2>4, <2>6
  <2>8. \/ j = 1
        \/ j = 2 /\ c > 1 /\ c + 1 > 2
        \/ j = 3 /\ c > 1 /\ c > 2 /\ c + 1 > 3
    BY SMT, <2>1
  <2> QED
    BY Zenon, <2>1, <2>7, <2>8
<1>7. decode(s) = b
  <2>1. DOMAIN decode(s) = 1 .. n
    BY Zenon, <1>1, <1>4 DEF decode
  <2>2. decode(s) = [k \in 1 .. n |-> decode(s)[k]]
    BY Zenon, <1>1, <1>4 DEF decode
  <2>3. b = [k \in 1 .. n |-> b[k]]
    OBVIOUS
  <2> QED
    BY Zenon, <1>6, <2>2, <2>3
<1> QED
  BY Zenon, <1>4, <1>5, <1>7

(* What an accepted text decodes to are octets, of the announced number.   *)
LEMMA DecodedOctets ==
    ASSUME NEW s \in Seq(Byte), valid(s)
    PROVE  /\ decode(s) \in Seq(Byte)
           /\ Len(decode(s)) = decoded_size(Len(s)) /\ decode(s) # <<>>
<1>1. PICK n : n = decoded_size(Len(s))
  BY Zenon
<1>2. /\ Len(s) \in Nat /\ Len(s) % 4 # 1 /\ n \in Nat
      /\ encoded_size(n) = Len(s) /\ Len(s) # 0
  <2>1. Len(s) \in Nat
    OBVIOUS
  <2> QED
    BY Zenon, <1>1, <2>1, DecodedSize DEF valid
<1>3. n # 0
  <2>1. encoded_size(0) = 0
    BY SMT DEF encoded_size
  <2> QED
    BY Zenon, <1>2, <2>1
<1>4. ASSUME NEW v \in 0 .. 63, NEW w \in 0 .. 63
      PROVE  Octet1(v, w) \in Byte /\ Octet2(v, w) \in Byte /\ Octet3(v, w) \in Byte
  <2>1. w \div 16 \in 0 .. 3 /\ v % 16 \in 0 .. 15 /\ w \div 4 \in 0 .. 15 /\ v % 4 \in 0 .. 3
    BY SMT
  <2> QED
    BY SMT, <2>1 DEF Octet1, Octet2, Octet3, Byte
<1>5. ASSUME NEW k \in 1 .. n PROVE decode(s)[k] \in Byte
  <2>1. PICK q \in Nat, j \in 1 .. 3, c \in 1 .. 3 :
                k = q * 3 + j /\ j <= c /\ Octets(n, q, c)
    BY Zenon, <1>2, OctetBlock
  <2>2. Block(s, q, c + 1)
    <3>1. /\ q * 4 + c + 1 <= Len(s) /\ c + 1 = block_length(Len(s), q, 4)
      BY ZenonT(60), <1>2, <2>1, OctetsCharacters
    <3>2. q * 3 + c <= n
      BY Zenon, <2>1 DEF Octets
    <3> QED
      BY SMT, <1>1, <1>2, <2>1, <3>1, <3>2 DEF Block
  <2>3. ASSUME NEW i \in 1 .. 4, i <= c + 1
        PROVE  value(s, q * 4 + i) \in 0 .. 63
    <3>1. c + 1 \in {2, 3, 4} /\ q * 4 + (c + 1) <= Len(s)
      BY Zenon, <2>2 DEF Block
    <3>2. q * 4 + i \in 1 .. Len(s)
      BY Zenon, <1>2, <2>1, <2>3, <3>1, InBlock
    <3> QED
      BY Zenon, <3>2, ValidValues
  <2>4. /\ value(s, q * 4 + 1) \in 0 .. 63 /\ value(s, q * 4 + 2) \in 0 .. 63
        /\ c > 1 => value(s, q * 4 + 3) \in 0 .. 63
        /\ c > 2 => value(s, q * 4 + 4) \in 0 .. 63
    BY <2>1, <2>3
  <2>5. /\ decode(s)[q * 3 + 1] = Octet1(value(s, q * 4 + 1), value(s, q * 4 + 2))
        /\ c + 1 > 2 => decode(s)[q * 3 + 2] =
                            Octet2(value(s, q * 4 + 2), value(s, q * 4 + 3))
        /\ c + 1 > 3 => decode(s)[q * 3 + 3] =
                            Octet3(value(s, q * 4 + 3), value(s, q * 4 + 4))
    BY Zenon, <2>2, DecodedBlock
  <2>6. \/ j = 1
        \/ j = 2 /\ c > 1 /\ c + 1 > 2
        \/ j = 3 /\ c > 1 /\ c > 2 /\ c + 1 > 3
    BY SMT, <2>1
  <2> QED
    BY ZenonT(60), <1>4, <2>1, <2>4, <2>5, <2>6
<1>6. decode(s) \in [1 .. n -> Byte]
  <2>1. DOMAIN decode(s) = 1 .. n
    BY Zenon, <1>1 DEF decode
  <2>2. decode(s) = [k \in 1 .. n |-> decode(s)[k]]
    BY Zenon, <1>1, <2>1 DEF decode
  <2> QED
    BY Zenon, <1>5, <2>2
<1>7. decode(s) \in Seq(Byte) /\ Len(decode(s)) = n
  BY <1>2, <1>6
<1>8. decode(s) # <<>>
  <2>1. Len(<<>>) = 0
    OBVIOUS
  <2> QED
    BY Zenon, <1>3, <1>7, <2>1
<1> QED
  BY Zenon, <1>1, <1>7, <1>8

(* An accepted text is what its octets encode to.                          *)
THEOREM DecodedReturns ==
    ASSUME NEW s \in Seq(Byte), valid(s)
    PROVE  encode(decode(s)) = s
<1>1. /\ encode(decode(s)) \in Seq(Byte) /\ valid(encode(decode(s)))
      /\ decode(encode(decode(s))) = decode(s)
  BY Zenon, DecodedOctets, EncodedReturns
<1> QED
  BY Zenon, <1>1, Canonical

-----------------------------------------------------------------------------
(* pg_oauth_cache_key_build                                                *)

Bytes == Seq(Octet)

\* Concatenation of byte strings, position by position.
LEMMA Concat ==
    ASSUME NEW a \in Bytes, NEW b \in Bytes
    PROVE  /\ a \o b \in Bytes /\ Len(a \o b) = Len(a) + Len(b)
           /\ Len(a) \in Nat
           /\ \A i \in 1 .. Len(a) : (a \o b)[i] = a[i]
           /\ \A i \in 1 .. Len(b) : (a \o b)[Len(a) + i] = b[i]
<1>1. a \o b \in Bytes /\ Len(a \o b) = Len(a) + Len(b)
  BY Concatenated, Zenon DEF Bytes
<1>2. Len(a) \in Nat /\ Len(b) \in Nat
  BY DEF Bytes
<1>3. \A i \in 1 .. Len(a) : (a \o b)[i] = a[i]
  BY DEF Bytes
<1>4. \A i \in 1 .. Len(b) : (a \o b)[Len(a) + i] = b[i]
  BY DEF Bytes
<1>. QED  BY <1>1, <1>2, <1>3, <1>4, Zenon

(* Equal concatenations have equal parts when the first ones are of the    *)
(* same length.                                                            *)
LEMMA Peel ==
    ASSUME NEW a \in Bytes, NEW b \in Bytes, NEW r \in Bytes, NEW t \in Bytes,
           Len(a) = Len(b), a \o r = b \o t
    PROVE  a = b /\ r = t
<1>1. /\ Len(a \o r) = Len(a) + Len(r) /\ Len(a) \in Nat
      /\ \A i \in 1 .. Len(a) : (a \o r)[i] = a[i]
      /\ \A i \in 1 .. Len(r) : (a \o r)[Len(a) + i] = r[i]
  BY Concat, Zenon
<1>2. /\ Len(b \o t) = Len(b) + Len(t) /\ Len(b) \in Nat
      /\ \A i \in 1 .. Len(b) : (b \o t)[i] = b[i]
      /\ \A i \in 1 .. Len(t) : (b \o t)[Len(b) + i] = t[i]
  BY Concat, Zenon
<1>3. \A i \in 1 .. Len(a) : a[i] = b[i]
  BY <1>1, <1>2, Zenon
<1>4. Len(r) = Len(t) /\ \A i \in 1 .. Len(r) : r[i] = t[i]
  <2>1. Len(r) \in Nat /\ Len(t) \in Nat
    BY DEF Bytes
  <2>2. Len(a) + Len(r) = Len(a) + Len(t)
    BY <1>1, <1>2, Zenon
  <2>3. Len(r) = Len(t)
    BY <1>1, <2>1, <2>2
  <2>. QED  BY <1>1, <1>2, <2>3, Zenon
<1>5. a = b
  BY <1>3, SameSequence, Zenon DEF Bytes
<1>6. r = t
  BY <1>4, SameSequence, Zenon DEF Bytes
<1>. QED  BY <1>5, <1>6, Zenon

\* A common prefix can be taken off.
LEMMA Cancel ==
    ASSUME NEW a \in Bytes, NEW r \in Bytes, NEW t \in Bytes, a \o r = a \o t
    PROVE  r = t
  BY Peel, Zenon

(* Two, four and eight bytes determine the number they are written from.   *)
LEMMA U16 ==
    ASSUME NEW v \in Nat
    PROVE  /\ u16(v) \in Bytes /\ Len(u16(v)) = 2
           /\ \A w \in Nat : u16(v) = u16(w) => v % Word = w % Word
<1>1. (v \div 256) % 256 \in Octet /\ v % 256 \in Octet
  BY SMT DEF Octet, Word
<1>2. ASSUME NEW w \in Nat, u16(v) = u16(w)  PROVE  v % Word = w % Word
  <2>1. (v \div 256) % 256 = (w \div 256) % 256 /\ v % 256 = w % 256
    BY <1>2, SMT DEF u16, Word
  <2>. QED  BY <2>1, SMT DEF Word
<1>. QED  BY <1>1, <1>2, SMT DEF u16, Bytes, Word

\* append_u32 writes four bytes.
LEMMA U32Bytes ==
    ASSUME NEW v \in Nat
    PROVE  u32(v) \in Bytes /\ Len(u32(v)) = 4
<1>1. v \div Word \in Nat
  BY SMT DEF Word
<1>2. PICK h \in Nat : h = v \div Word
  BY <1>1, Zenon
<1>3. u16(h) \in Bytes /\ u16(v) \in Bytes /\ Len(u16(h)) = 2 /\ Len(u16(v)) = 2
  BY U16, Zenon
<1>4. u32(v) = u16(h) \o u16(v)
  BY <1>2, Zenon DEF u32
<1>5. /\ u16(h) \o u16(v) \in Bytes
      /\ Len(u16(h) \o u16(v)) = Len(u16(h)) + Len(u16(v))
  BY <1>3, Concat, Zenon
<1>. QED  BY <1>3, <1>4, <1>5

\* The four bytes determine both halves of the number.
LEMMA U32Halves ==
    ASSUME NEW v \in Nat, NEW w \in Nat, u32(v) = u32(w)
    PROVE  /\ (v \div Word) % Word = (w \div Word) % Word
           /\ v % Word = w % Word
<1>1. PICK h \in Nat, g \in Nat : h = v \div Word /\ g = w \div Word
  BY SMT DEF Word
<1>2. u16(h) = u16(g) /\ u16(v) = u16(w)
  <2>1. u16(h) \o u16(v) = u16(g) \o u16(w)
    BY <1>1, Zenon DEF u32
  <2>2. /\ u16(h) \in Bytes /\ u16(v) \in Bytes /\ Len(u16(h)) = 2
        /\ u16(g) \in Bytes /\ u16(w) \in Bytes /\ Len(u16(g)) = 2
    BY U16, Zenon
  <2>3. Len(u16(h)) = Len(u16(g))
    BY <2>2, Zenon
  <2>. QED  BY <2>1, <2>2, <2>3, Peel, Zenon
<1>3. h % Word = g % Word /\ v % Word = w % Word
  BY <1>2, U16, SMT DEF Word
<1>. QED  BY <1>1, <1>3, SMT DEF Word

\* append_u32 writes different bytes for different numbers.
LEMMA U32Tells ==
    ASSUME NEW v \in U32, NEW w \in U32, u32(v) = u32(w)
    PROVE  v = w
<1>1. /\ (v \div Word) % Word = (w \div Word) % Word
      /\ v % Word = w % Word
  BY U32Halves, SMT DEF U32, Word
<1>. QED  BY <1>1, SMT DEF U32, Word

\* append_u64 writes eight bytes.
LEMMA U64Bytes ==
    ASSUME NEW v \in Nat
    PROVE  u64(v) \in Bytes /\ Len(u64(v)) = 8
<1>1. (v \div Word) \div Word \in Nat
  BY SMT DEF Word
<1>2. PICK h \in Nat : h = (v \div Word) \div Word
  BY <1>1, Zenon
<1>3. /\ u32(h) \in Bytes /\ u32(v) \in Bytes
      /\ Len(u32(h)) = 4 /\ Len(u32(v)) = 4
  BY U32Bytes, Zenon
<1>4. u64(v) = u32(h) \o u32(v)
  BY <1>2, Zenon DEF u64
<1>5. /\ u32(h) \o u32(v) \in Bytes
      /\ Len(u32(h) \o u32(v)) = Len(u32(h)) + Len(u32(v))
  BY <1>3, Concat, Zenon
<1>. QED  BY <1>3, <1>4, <1>5

\* append_u64 writes different bytes for different numbers.
LEMMA U64Tells ==
    ASSUME NEW v \in U64, NEW w \in U64, u64(v) = u64(w)
    PROVE  v = w
<1>1. v \in Nat /\ w \in Nat
  BY SMT DEF U64, Word
<1>2. PICK h \in U32, g \in U32 :
            h = (v \div Word) \div Word /\ g = (w \div Word) \div Word
  BY SMT DEF U64, Word
<1>3. h \in Nat /\ g \in Nat
  BY <1>2, SMT DEF U32, Word
<1>4. u32(h) = u32(g) /\ u32(v) = u32(w)
  <2>1. u32(h) \o u32(v) = u32(g) \o u32(w)
    BY <1>2, Zenon DEF u64
  <2>2. /\ u32(h) \in Bytes /\ u32(v) \in Bytes
        /\ u32(g) \in Bytes /\ u32(w) \in Bytes
        /\ Len(u32(h)) = 4 /\ Len(u32(g)) = 4
    BY <1>1, <1>3, U32Bytes, Zenon
  <2>3. Len(u32(h)) = Len(u32(g))
    BY <2>2, Zenon
  <2>. QED  BY <2>1, <2>2, <2>3, Peel, Zenon
<1>5. h = g
  BY <1>4, U32Tells, Zenon DEF Word
<1>6. /\ (v \div Word) % Word = (w \div Word) % Word
      /\ v % Word = w % Word
  BY <1>1, <1>4, U32Halves, SMT DEF Word
<1>. QED  BY <1>1, <1>2, <1>5, <1>6, SMT DEF Word

(* Each kind of append, taken off the front of two equal byte strings.     *)
LEMMA ByteStep ==
    ASSUME NEW v \in Octet, NEW w \in Octet, NEW r \in Bytes, NEW t \in Bytes
    PROVE  /\ append_u8(v, r) \in Bytes
           /\ append_u8(v, r) = append_u8(w, t) => v = w /\ r = t
<1>1. v % 256 = v /\ w % 256 = w
  BY SMT DEF Octet
<1>2. <<v>> \in Bytes /\ <<w>> \in Bytes /\ Len(<<v>>) = Len(<<w>>)
      /\ (<<v>> = <<w>> => v = w)
  BY DEF Bytes
<1>3. <<v>> \o r \in Bytes
  BY <1>2, Concat, Zenon
<1>4. append_u8(v, r) = <<v>> \o r /\ append_u8(w, t) = <<w>> \o t
  BY <1>1, Zenon DEF append_u8
<1>5. <<v>> \o r = <<w>> \o t => <<v>> = <<w>> /\ r = t
  BY <1>2, Peel, Zenon
<1>. QED  BY <1>2, <1>3, <1>4, <1>5, Zenon

\* The same for append_u32.
LEMMA U32Step ==
    ASSUME NEW v \in U32, NEW w \in U32, NEW r \in Bytes, NEW t \in Bytes
    PROVE  /\ append_u32(v, r) \in Bytes
           /\ append_u32(v, r) = append_u32(w, t) => v = w /\ r = t
<1>1. v \in Nat /\ w \in Nat
  BY Zenon DEF U32
<1>2. /\ u32(v) \in Bytes /\ u32(w) \in Bytes /\ Len(u32(v)) = 4 /\ Len(u32(w)) = 4
  BY <1>1, U32Bytes, Zenon
<1>3. u32(v) \o r \in Bytes
  BY <1>2, Concat, Zenon
<1>4. Len(u32(v)) = Len(u32(w))
  BY <1>2, Zenon
<1>. QED  BY <1>2, <1>3, <1>4, Peel, U32Tells, Zenon DEF append_u32

\* The same for append_u64.
LEMMA U64Step ==
    ASSUME NEW v \in U64, NEW w \in U64, NEW r \in Bytes, NEW t \in Bytes
    PROVE  /\ append_u64(v, r) \in Bytes
           /\ append_u64(v, r) = append_u64(w, t) => v = w /\ r = t
<1>1. v \in Nat /\ w \in Nat
  BY Zenon DEF U64
<1>2. /\ u64(v) \in Bytes /\ u64(w) \in Bytes /\ Len(u64(v)) = 8 /\ Len(u64(w)) = 8
  BY <1>1, U64Bytes, Zenon
<1>3. u64(v) \o r \in Bytes
  BY <1>2, Concat, Zenon
<1>4. Len(u64(v)) = Len(u64(w))
  BY <1>2, Zenon
<1>. QED  BY <1>2, <1>3, <1>4, Peel, U64Tells, Zenon DEF append_u64

\* The strings that append_string accepts.
KeyText == {s \in Text : Len(s) < KeyMax}

\* The same for append_string: its length prefix says where the text ends.
LEMMA StringStep ==
    ASSUME NEW a \in KeyText, NEW b \in KeyText, NEW r \in Bytes, NEW t \in Bytes
    PROVE  /\ append_string(a, r) \in Bytes
           /\ append_string(a, r) = append_string(b, t) => a = b /\ r = t
<1>1. a \in Bytes /\ b \in Bytes
  BY WiderElements DEF KeyText, Text, Bytes, Octet
<1>2. Len(a) \in U32 /\ Len(b) \in U32
  BY KeyAssumption DEF KeyText, Text, U32, Word
<1>3. a \o r \in Bytes /\ b \o t \in Bytes
  BY <1>1, Concat, Zenon
<1>4. append_string(a, r) \in Bytes
  BY <1>2, <1>3, U32Step, Zenon DEF append_string
<1>5. append_string(a, r) = append_string(b, t) => Len(a) = Len(b) /\ a \o r = b \o t
  BY <1>2, <1>3, U32Step, Zenon DEF append_string
<1>. QED  BY <1>1, <1>4, <1>5, Peel, Zenon

-----------------------------------------------------------------------------
\* The policies whose fields the C types and append_string admit.
KeyPolicy ==
    [resource : {METADATA, JWKS}, issuer : KeyText, metadata_url : KeyText,
     jwks_url : KeyText \cup {Null}, policy_name : KeyText,
     required_scopes : KeyText, audiences : KeyText,
     allowed_token_types : Octet, allow_missing_token_type : BOOLEAN,
     identity_claim : KeyText, role_claim : KeyText,
     allowed_jwks_hosts : KeyText, ca_file : KeyText,
     allowed_algorithms : U32, clock_skew_ms : U32, max_token_size : U32,
     max_metadata_size : U32, max_jwks_size : U32, max_jwks_keys : U32,
     minimum_rsa_bits : U32, maximum_rsa_bits : U32,
     jwks_stale_grace_ms : U64, metadata_default_ttl_ms : U64,
     jwks_default_ttl_ms : U64, cache_max_ttl_ms : U64,
     unknown_kid_refresh_cooldown_ms : U64, allow_insecure_http : BOOLEAN]

\* The fields of a policy that fits a key.
LEMMA FieldTypes ==
    ASSUME NEW p \in KeyPolicy
    PROVE  /\ p.issuer \in KeyText
           /\ p.metadata_url \in KeyText
           /\ orEmpty(p.jwks_url) \in KeyText
           /\ p.policy_name \in KeyText
           /\ p.required_scopes \in KeyText
           /\ p.audiences \in KeyText
           /\ p.identity_claim \in KeyText
           /\ p.role_claim \in KeyText
           /\ p.allowed_jwks_hosts \in KeyText
           /\ p.ca_file \in KeyText
           /\ p.allowed_token_types \in Octet
           /\ p.allow_missing_token_type \in BOOLEAN
           /\ p.allow_insecure_http \in BOOLEAN
           /\ p.allowed_algorithms \in U32
           /\ p.clock_skew_ms \in U32
           /\ p.max_token_size \in U32
           /\ p.max_metadata_size \in U32
           /\ p.max_jwks_size \in U32
           /\ p.max_jwks_keys \in U32
           /\ p.minimum_rsa_bits \in U32
           /\ p.maximum_rsa_bits \in U32
           /\ p.jwks_stale_grace_ms \in U64
           /\ p.metadata_default_ttl_ms \in U64
           /\ p.jwks_default_ttl_ms \in U64
           /\ p.cache_max_ttl_ms \in U64
           /\ p.unknown_kid_refresh_cooldown_ms \in U64
<1>1. \A x \in KeyText \cup {Null} : orEmpty(x) \in KeyText
  BY KeyAssumption DEF U32, Word, orEmpty, KeyText, Text
<1>. QED  BY <1>1, Zenon DEF KeyPolicy

\* A Boolean as a byte.
LEMMA Flag ==
    ASSUME NEW a \in BOOLEAN
    PROVE  flag(a) \in Octet /\ \A b \in BOOLEAN : flag(a) = flag(b) => a = b
  BY DEF flag, Octet

(* Each group of appends determines its fields, last append first.         *)
SameEndpoints(p, q) ==
    /\ p.issuer = q.issuer
    /\ p.metadata_url = q.metadata_url
    /\ orEmpty(p.jwks_url) = orEmpty(q.jwks_url)

\* The issuer and the two URLs can be read back from the key.
LEMMA EndpointsTell ==
    ASSUME NEW p \in KeyPolicy, NEW q \in KeyPolicy, NEW y \in Bytes, NEW z \in Bytes
    PROVE  /\ endpoints(p, y) \in Bytes /\ endpoints(q, z) \in Bytes
           /\ endpoints(p, y) = endpoints(q, z) =>
                    SameEndpoints(p, q) /\ y = z
<1> DEFINE f3(x, e) == append_string(orEmpty(x.jwks_url), e)
           f2(x, e) == append_string(x.metadata_url, f3(x, e))
           f1(x, e) == append_string(x.issuer, f2(x, e))
<1>1. /\ f3(p, y) \in Bytes /\ f3(q, z) \in Bytes
      /\ f3(p, y) = f3(q, z) =>
            orEmpty(p.jwks_url) = orEmpty(q.jwks_url) /\ y = z
  BY FieldTypes, StringStep
<1> HIDE DEF f3
<1>2. /\ f2(p, y) \in Bytes /\ f2(q, z) \in Bytes
      /\ f2(p, y) = f2(q, z) =>
            p.metadata_url = q.metadata_url /\ f3(p, y) = f3(q, z)
  BY <1>1, FieldTypes, StringStep
<1> HIDE DEF f2
<1>3. /\ f1(p, y) \in Bytes /\ f1(q, z) \in Bytes
      /\ f1(p, y) = f1(q, z) =>
            p.issuer = q.issuer /\ f2(p, y) = f2(q, z)
  BY <1>2, FieldTypes, StringStep
<1> HIDE DEF f1
<1>4. endpoints(p, y) = f1(p, y) /\ endpoints(q, z) = f1(q, z)
  BY Zenon DEF endpoints, f1, f2, f3
<1>. QED
  BY <1>1, <1>2, <1>3, <1>4,
     Zenon DEF SameEndpoints

SameRules(p, q) ==
    /\ p.policy_name = q.policy_name
    /\ p.required_scopes = q.required_scopes
    /\ p.audiences = q.audiences
    /\ p.allowed_token_types = q.allowed_token_types
    /\ p.allow_missing_token_type = q.allow_missing_token_type
    /\ p.identity_claim = q.identity_claim
    /\ p.role_claim = q.role_claim
    /\ p.allowed_jwks_hosts = q.allowed_jwks_hosts
    /\ p.ca_file = q.ca_file

\* So can the rules of the policy,
LEMMA RulesTell ==
    ASSUME NEW p \in KeyPolicy, NEW q \in KeyPolicy, NEW y \in Bytes, NEW z \in Bytes
    PROVE  /\ rules(p, y) \in Bytes /\ rules(q, z) \in Bytes
           /\ rules(p, y) = rules(q, z) =>
                    SameRules(p, q) /\ y = z
<1> DEFINE f9(x, e) == append_string(x.ca_file, e)
           f8(x, e) == append_string(x.allowed_jwks_hosts, f9(x, e))
           f7(x, e) == append_string(x.role_claim, f8(x, e))
           f6(x, e) == append_string(x.identity_claim, f7(x, e))
           f5(x, e) == append_u8(flag(x.allow_missing_token_type), f6(x, e))
           f4(x, e) == append_u8(x.allowed_token_types, f5(x, e))
           f3(x, e) == append_string(x.audiences, f4(x, e))
           f2(x, e) == append_string(x.required_scopes, f3(x, e))
           f1(x, e) == append_string(x.policy_name, f2(x, e))
<1>1. /\ f9(p, y) \in Bytes /\ f9(q, z) \in Bytes
      /\ f9(p, y) = f9(q, z) =>
            p.ca_file = q.ca_file /\ y = z
  BY FieldTypes, StringStep
<1> HIDE DEF f9
<1>2. /\ f8(p, y) \in Bytes /\ f8(q, z) \in Bytes
      /\ f8(p, y) = f8(q, z) =>
            p.allowed_jwks_hosts = q.allowed_jwks_hosts /\ f9(p, y) = f9(q, z)
  BY <1>1, FieldTypes, StringStep
<1> HIDE DEF f8
<1>3. /\ f7(p, y) \in Bytes /\ f7(q, z) \in Bytes
      /\ f7(p, y) = f7(q, z) =>
            p.role_claim = q.role_claim /\ f8(p, y) = f8(q, z)
  BY <1>2, FieldTypes, StringStep, SMTT(30)
<1> HIDE DEF f7
<1>4. /\ f6(p, y) \in Bytes /\ f6(q, z) \in Bytes
      /\ f6(p, y) = f6(q, z) =>
            p.identity_claim = q.identity_claim /\ f7(p, y) = f7(q, z)
  BY <1>3, FieldTypes, StringStep
<1> HIDE DEF f6
<1>5. /\ f5(p, y) \in Bytes /\ f5(q, z) \in Bytes
      /\ f5(p, y) = f5(q, z) =>
            p.allow_missing_token_type = q.allow_missing_token_type /\ f6(p, y) = f6(q, z)
  BY <1>4, FieldTypes, ByteStep, Flag
<1> HIDE DEF f5
<1>6. /\ f4(p, y) \in Bytes /\ f4(q, z) \in Bytes
      /\ f4(p, y) = f4(q, z) =>
            p.allowed_token_types = q.allowed_token_types /\ f5(p, y) = f5(q, z)
  BY <1>5, FieldTypes, ByteStep
<1> HIDE DEF f4
<1>7. /\ f3(p, y) \in Bytes /\ f3(q, z) \in Bytes
      /\ f3(p, y) = f3(q, z) =>
            p.audiences = q.audiences /\ f4(p, y) = f4(q, z)
  BY <1>6, FieldTypes, StringStep
<1> HIDE DEF f3
<1>8. /\ f2(p, y) \in Bytes /\ f2(q, z) \in Bytes
      /\ f2(p, y) = f2(q, z) =>
            p.required_scopes = q.required_scopes /\ f3(p, y) = f3(q, z)
  BY <1>7, FieldTypes, StringStep
<1> HIDE DEF f2
<1>9. /\ f1(p, y) \in Bytes /\ f1(q, z) \in Bytes
      /\ f1(p, y) = f1(q, z) =>
            p.policy_name = q.policy_name /\ f2(p, y) = f2(q, z)
  BY <1>8, FieldTypes, StringStep
<1> HIDE DEF f1
<1>10. rules(p, y) = f1(p, y) /\ rules(q, z) = f1(q, z)
  BY Zenon DEF rules, f1, f2, f3, f4, f5, f6, f7, f8, f9
<1>. QED
  BY <1>1, <1>2, <1>3, <1>4, <1>5, <1>6, <1>7, <1>8, <1>9, <1>10,
     Zenon DEF SameRules

SameLimits(p, q) ==
    /\ p.allowed_algorithms = q.allowed_algorithms
    /\ p.clock_skew_ms = q.clock_skew_ms
    /\ p.max_token_size = q.max_token_size
    /\ p.max_metadata_size = q.max_metadata_size
    /\ p.max_jwks_size = q.max_jwks_size
    /\ p.max_jwks_keys = q.max_jwks_keys
    /\ p.minimum_rsa_bits = q.minimum_rsa_bits
    /\ p.maximum_rsa_bits = q.maximum_rsa_bits
    /\ p.jwks_stale_grace_ms = q.jwks_stale_grace_ms
    /\ p.metadata_default_ttl_ms = q.metadata_default_ttl_ms
    /\ p.jwks_default_ttl_ms = q.jwks_default_ttl_ms
    /\ p.cache_max_ttl_ms = q.cache_max_ttl_ms
    /\ p.unknown_kid_refresh_cooldown_ms = q.unknown_kid_refresh_cooldown_ms
    /\ p.allow_insecure_http = q.allow_insecure_http

\* and its limits.
LEMMA LimitsTell ==
    ASSUME NEW p \in KeyPolicy, NEW q \in KeyPolicy, NEW y \in Bytes, NEW z \in Bytes
    PROVE  /\ limits(p, y) \in Bytes /\ limits(q, z) \in Bytes
           /\ limits(p, y) = limits(q, z) =>
                    SameLimits(p, q) /\ y = z
<1> DEFINE f14(x, e) == append_u8(flag(x.allow_insecure_http), e)
           f13(x, e) == append_u64(x.unknown_kid_refresh_cooldown_ms, f14(x, e))
           f12(x, e) == append_u64(x.cache_max_ttl_ms, f13(x, e))
           f11(x, e) == append_u64(x.jwks_default_ttl_ms, f12(x, e))
           f10(x, e) == append_u64(x.metadata_default_ttl_ms, f11(x, e))
           f9(x, e) == append_u64(x.jwks_stale_grace_ms, f10(x, e))
           f8(x, e) == append_u32(x.maximum_rsa_bits, f9(x, e))
           f7(x, e) == append_u32(x.minimum_rsa_bits, f8(x, e))
           f6(x, e) == append_u32(x.max_jwks_keys, f7(x, e))
           f5(x, e) == append_u32(x.max_jwks_size, f6(x, e))
           f4(x, e) == append_u32(x.max_metadata_size, f5(x, e))
           f3(x, e) == append_u32(x.max_token_size, f4(x, e))
           f2(x, e) == append_u32(x.clock_skew_ms, f3(x, e))
           f1(x, e) == append_u32(x.allowed_algorithms, f2(x, e))
<1>1. /\ f14(p, y) \in Bytes /\ f14(q, z) \in Bytes
      /\ f14(p, y) = f14(q, z) =>
            p.allow_insecure_http = q.allow_insecure_http /\ y = z
  BY FieldTypes, ByteStep, Flag
<1> HIDE DEF f14
<1>2. /\ f13(p, y) \in Bytes /\ f13(q, z) \in Bytes
      /\ f13(p, y) = f13(q, z) =>
            p.unknown_kid_refresh_cooldown_ms = q.unknown_kid_refresh_cooldown_ms /\ f14(p, y) = f14(q, z)
  BY <1>1, FieldTypes, U64Step
<1> HIDE DEF f13
<1>3. /\ f12(p, y) \in Bytes /\ f12(q, z) \in Bytes
      /\ f12(p, y) = f12(q, z) =>
            p.cache_max_ttl_ms = q.cache_max_ttl_ms /\ f13(p, y) = f13(q, z)
  BY <1>2, FieldTypes, U64Step
<1> HIDE DEF f12
<1>4. /\ f11(p, y) \in Bytes /\ f11(q, z) \in Bytes
      /\ f11(p, y) = f11(q, z) =>
            p.jwks_default_ttl_ms = q.jwks_default_ttl_ms /\ f12(p, y) = f12(q, z)
  BY <1>3, FieldTypes, U64Step
<1> HIDE DEF f11
<1>5. /\ f10(p, y) \in Bytes /\ f10(q, z) \in Bytes
      /\ f10(p, y) = f10(q, z) =>
            p.metadata_default_ttl_ms = q.metadata_default_ttl_ms /\ f11(p, y) = f11(q, z)
  BY <1>4, FieldTypes, U64Step
<1> HIDE DEF f10
<1>6. /\ f9(p, y) \in Bytes /\ f9(q, z) \in Bytes
      /\ f9(p, y) = f9(q, z) =>
            p.jwks_stale_grace_ms = q.jwks_stale_grace_ms /\ f10(p, y) = f10(q, z)
  BY <1>5, FieldTypes, U64Step
<1> HIDE DEF f9
<1>7. /\ f8(p, y) \in Bytes /\ f8(q, z) \in Bytes
      /\ f8(p, y) = f8(q, z) =>
            p.maximum_rsa_bits = q.maximum_rsa_bits /\ f9(p, y) = f9(q, z)
  BY <1>6, FieldTypes, U32Step, SMTT(30)
<1> HIDE DEF f8
<1>8. /\ f7(p, y) \in Bytes /\ f7(q, z) \in Bytes
      /\ f7(p, y) = f7(q, z) =>
            p.minimum_rsa_bits = q.minimum_rsa_bits /\ f8(p, y) = f8(q, z)
  BY <1>7, FieldTypes, U32Step, SMTT(30)
<1> HIDE DEF f7
<1>9. /\ f6(p, y) \in Bytes /\ f6(q, z) \in Bytes
      /\ f6(p, y) = f6(q, z) =>
            p.max_jwks_keys = q.max_jwks_keys /\ f7(p, y) = f7(q, z)
  BY <1>8, FieldTypes, U32Step
<1> HIDE DEF f6
<1>10. /\ f5(p, y) \in Bytes /\ f5(q, z) \in Bytes
       /\ f5(p, y) = f5(q, z) =>
            p.max_jwks_size = q.max_jwks_size /\ f6(p, y) = f6(q, z)
  BY <1>9, FieldTypes, U32Step
<1> HIDE DEF f5
<1>11. /\ f4(p, y) \in Bytes /\ f4(q, z) \in Bytes
       /\ f4(p, y) = f4(q, z) =>
            p.max_metadata_size = q.max_metadata_size /\ f5(p, y) = f5(q, z)
  BY <1>10, FieldTypes, U32Step
<1> HIDE DEF f4
<1>12. /\ f3(p, y) \in Bytes /\ f3(q, z) \in Bytes
       /\ f3(p, y) = f3(q, z) =>
            p.max_token_size = q.max_token_size /\ f4(p, y) = f4(q, z)
  BY <1>11, FieldTypes, U32Step
<1> HIDE DEF f3
<1>13. /\ f2(p, y) \in Bytes /\ f2(q, z) \in Bytes
       /\ f2(p, y) = f2(q, z) =>
            p.clock_skew_ms = q.clock_skew_ms /\ f3(p, y) = f3(q, z)
  BY <1>12, FieldTypes, U32Step
<1> HIDE DEF f2
<1>14. /\ f1(p, y) \in Bytes /\ f1(q, z) \in Bytes
       /\ f1(p, y) = f1(q, z) =>
            p.allowed_algorithms = q.allowed_algorithms /\ f2(p, y) = f2(q, z)
  BY <1>13, FieldTypes, U32Step
<1> HIDE DEF f1
<1>15. limits(p, y) = f1(p, y) /\ limits(q, z) = f1(q, z)
  BY Zenon DEF limits, f1, f2, f3, f4, f5, f6, f7, f8, f9, f10, f11, f12, f13, f14
<1>. QED
  BY <1>1, <1>2, <1>3, <1>4, <1>5, <1>6, <1>7, <1>8, <1>9, <1>10, <1>11,
     <1>12, <1>13, <1>14, <1>15,
     ZenonT(60) DEF SameLimits

(* A NULL jwks_url, which only a metadata key may have, is the empty one.  *)
SameFields(p, q) ==
    [p EXCEPT !.jwks_url = orEmpty(p.jwks_url)] =
        [q EXCEPT !.jwks_url = orEmpty(q.jwks_url)]

(* pg_oauth_cache_key_build gives equal keys to equal policies only: no    *)
(* two settings, endpoints or resources that differ in any field share a   *)
(* cache entry.                                                            *)
THEOREM KeyTellsPolicies ==
    ASSUME NEW p \in KeyPolicy, NEW q \in KeyPolicy,
           build(p).error = "ok", build(q).error = "ok",
           build(p).data = build(q).data
    PROVE  SameFields(p, q)
<1>1. key_data(p) = key_data(q)
  BY Zenon DEF build
<1> DEFINE l(x) == limits(x, <<>>)
           m(x) == rules(x, l(x))
           e(x) == endpoints(x, m(x))
<1>2. <<>> \in Bytes
  BY DEF Bytes
<1>3. l(p) \in Bytes /\ l(q) \in Bytes
  BY <1>2, LimitsTell, Zenon
<1> HIDE DEF l
<1>4. m(p) \in Bytes /\ m(q) \in Bytes
  BY <1>3, RulesTell, Zenon
<1> HIDE DEF m
<1>5. e(p) \in Bytes /\ e(q) \in Bytes
  BY <1>4, EndpointsTell, Zenon
<1> HIDE DEF e
<1>6. p.resource \in Octet /\ q.resource \in Octet
  BY DEF KeyPolicy, METADATA, JWKS, Octet
<1>7. p.resource = q.resource /\ e(p) = e(q)
  <2>1. magic \in Bytes
    BY DEF magic, Bytes, Octet
  <2>2. append_u8(p.resource, e(p)) \in Bytes /\ append_u8(q.resource, e(q)) \in Bytes
    BY <1>5, <1>6, ByteStep, Zenon
  <2>3. /\ key_data(p) = magic \o append_u8(p.resource, e(p))
        /\ key_data(q) = magic \o append_u8(q.resource, e(q))
    BY Zenon DEF key_data, e, m, l
  <2>4. magic \o append_u8(p.resource, e(p)) = magic \o append_u8(q.resource, e(q))
    BY <1>1, <2>3, Zenon
  <2>5. append_u8(p.resource, e(p)) = append_u8(q.resource, e(q))
    BY <2>1, <2>2, <2>4, Cancel, Zenon
  <2>. QED  BY <1>5, <1>6, <2>5, ByteStep
<1>8. SameEndpoints(p, q) /\ m(p) = m(q)
  BY <1>4, <1>7, EndpointsTell, Zenon DEF e
<1>9. SameRules(p, q) /\ l(p) = l(q)
  BY <1>3, <1>8, RulesTell, Zenon DEF m
<1>10. SameLimits(p, q)
  BY <1>2, <1>9, LimitsTell, Zenon DEF l
<1>. QED
  BY <1>7, <1>8, <1>9, <1>10
     DEF SameFields, SameEndpoints, SameRules, SameLimits, KeyPolicy

\* Policies as the C types admit them, of any length.
WidePolicy ==
    [resource : {METADATA, JWKS}, issuer : Text, metadata_url : Text,
     jwks_url : Text, policy_name : Text,
     required_scopes : Text, audiences : Text,
     allowed_token_types : Octet, allow_missing_token_type : BOOLEAN,
     identity_claim : Text, role_claim : Text,
     allowed_jwks_hosts : Text, ca_file : Text,
     allowed_algorithms : U32, clock_skew_ms : U32, max_token_size : U32,
     max_metadata_size : U32, max_jwks_size : U32, max_jwks_keys : U32,
     minimum_rsa_bits : U32, maximum_rsa_bits : U32,
     jwks_stale_grace_ms : U64, metadata_default_ttl_ms : U64,
     jwks_default_ttl_ms : U64, cache_max_ttl_ms : U64,
     unknown_kid_refresh_cooldown_ms : U64, allow_insecure_http : BOOLEAN]

(* More text in a field leaves a policy.                                   *)
LEMMA LongerField ==
    ASSUME NEW p \in WidePolicy, NEW f \in Fields, NEW t \in Text
    PROVE  Longer(p, f, t) \in WidePolicy
<1>1. \A s \in Text : s \o t \in Text
  BY Zenon, Concatenated DEF Text
<1>2. CASE f = "issuer"
  <2>1. p.issuer \o t \in Text
    BY Zenon, <1>1 DEF WidePolicy
  <2> QED
    BY ZenonT(60), <1>2, <2>1 DEF WidePolicy, Longer
<1>3. CASE f = "policy_name"
  <2>1. p.policy_name \o t \in Text
    BY Zenon, <1>1 DEF WidePolicy
  <2> QED
    BY ZenonT(60), <1>3, <2>1 DEF WidePolicy, Longer
<1>4. CASE f = "required_scopes"
  <2>1. p.required_scopes \o t \in Text
    BY Zenon, <1>1 DEF WidePolicy
  <2> QED
    BY ZenonT(60), <1>4, <2>1 DEF WidePolicy, Longer
<1>5. CASE f = "audiences"
  <2>1. p.audiences \o t \in Text
    BY Zenon, <1>1 DEF WidePolicy
  <2> QED
    BY ZenonT(60), <1>5, <2>1 DEF WidePolicy, Longer
<1>6. CASE f = "role_claim"
  <2>1. p.role_claim \o t \in Text
    BY Zenon, <1>1 DEF WidePolicy
  <2> QED
    BY ZenonT(60), <1>6, <2>1 DEF WidePolicy, Longer
<1> QED
  BY Zenon, <1>2, <1>3, <1>4, <1>5, <1>6 DEF Fields

(* The policy whose fields the texts are added to.                         *)
LEMMA BaseIsPolicy == BasePolicy \in WidePolicy
<1>1. <<104>> \in Text /\ <<>> \in Text
  BY DEF Text
<1>2. 0 \in U32 /\ 1 \in U32 /\ 256 \in U32
  BY DEF U32, Word
<1>3. 0 \in U64
  BY DEF U64, U32, Word
<1>4. 1 \in Octet /\ JWKS \in {METADATA, JWKS}
  BY DEF Octet
<1>5. FALSE \in BOOLEAN
  OBVIOUS
<1> QED
  BY <1>1, <1>2, <1>3, <1>4, <1>5 DEF BasePolicy, WidePolicy

(* A policy that pg_oauth_cache_key_build accepts fits the key.            *)
LEMMA BuiltFits ==
    ASSUME NEW p \in WidePolicy, build(p).error = "ok"
    PROVE  p \in KeyPolicy /\ Len(build(p).data) <= KeyMax
<1>1. /\ \A s \in Strings(p) : ~(Len(s) >= KeyMax)
      /\ ~(Len(key_data(p)) > KeyMax) /\ build(p).data = key_data(p)
  BY Zenon DEF build
<1>2. /\ p.jwks_url \in Text /\ p.jwks_url # Null
  BY KeyAssumption, Zenon DEF WidePolicy
<1>3. orEmpty(p.jwks_url) = p.jwks_url
  BY <1>2, Zenon DEF orEmpty
<1>4. \A s \in Text : ~(Len(s) >= KeyMax) => s \in KeyText
  BY KeyAssumption DEF KeyText, U32, Text
<1>5. /\ p.issuer \in KeyText /\ p.metadata_url \in KeyText
      /\ p.jwks_url \in KeyText /\ p.policy_name \in KeyText
      /\ p.required_scopes \in KeyText /\ p.audiences \in KeyText
      /\ p.identity_claim \in KeyText /\ p.role_claim \in KeyText
      /\ p.allowed_jwks_hosts \in KeyText /\ p.ca_file \in KeyText
  BY <1>1, <1>3, <1>4, Zenon DEF Strings, WidePolicy
<1>6. p \in KeyPolicy
  BY <1>5, Zenon DEF WidePolicy, KeyPolicy
<1>7. key_data(p) \in Bytes
  <2>1. <<>> \in Bytes
    BY DEF Bytes
  <2>2. limits(p, <<>>) \in Bytes
    BY Zenon, <1>6, <2>1, LimitsTell
  <2>3. rules(p, limits(p, <<>>)) \in Bytes
    BY Zenon, <1>6, <2>2, RulesTell
  <2>4. endpoints(p, rules(p, limits(p, <<>>))) \in Bytes
    BY Zenon, <1>6, <2>3, EndpointsTell
  <2>5. p.resource \in Octet /\ magic \in Bytes
    BY <1>6 DEF KeyPolicy, METADATA, JWKS, Octet, magic, Bytes
  <2>6. append_u8(p.resource, endpoints(p, rules(p, limits(p, <<>>)))) \in Bytes
    BY <2>4, <2>5, ByteStep
  <2> QED
    BY Zenon, <2>5, <2>6, Concat DEF key_data
<1> QED
  <2>1. Len(key_data(p)) \in Nat /\ KeyMax \in Nat
    BY <1>7, KeyAssumption DEF Bytes, U32
  <2> QED
    BY <1>1, <1>6, <2>1

(* The two halves of a sequence are sequences over the same elements.      *)
LEMMA Halves ==
    ASSUME NEW S, NEW s \in Seq(S), NEW i \in 0 .. Len(s)
    PROVE  SubSeq(s, 1, i) \in Seq(S) /\ SubSeq(s, i + 1, Len(s)) \in Seq(S)
<1>1. /\ \A k \in 1 .. i : s[k] \in S
      /\ \A k \in i + 1 .. Len(s) : s[k] \in S
  OBVIOUS
<1>2. 1 \in Int /\ i \in Int /\ i + 1 \in Int /\ Len(s) \in Int
  OBVIOUS
<1> QED
  BY Zenon, <1>1, <1>2, Part

(* Policies that differ in how their texts are divided have other keys.    *)
LEMMA DividedKeys == OctetsOK => KeysDiffer
<1> SUFFICES ASSUME OctetsOK, kind = "key", NEW p \in Split, NEW q \in Split,
                    build(p).error = "ok", build(q).error = "ok"
             PROVE  /\ Len(build(p).data) <= KeyMax
                    /\ p # q => build(p).data # build(q).data
  BY Zenon DEF KeysDiffer
<1>1. ASSUME NEW r \in Split PROVE r \in WidePolicy
  <2>1. PICK f \in Fields, g \in Fields, i \in 0 .. Len(text) :
            r = Longer(Longer(BasePolicy, f, SubSeq(text, 1, i)),
                       g, SubSeq(text, i + 1, Len(text)))
    BY <1>1 DEF Split
  <2>2. PICK x, y : x = SubSeq(text, 1, i) /\ y = SubSeq(text, i + 1, Len(text))
    BY Zenon
  <2>3. text \in Text
    BY Zenon DEF OctetsOK, Text
  <2>4. x \in Text /\ y \in Text
    BY ZenonT(60), <2>2, <2>3, Halves DEF Text
  <2>5. Longer(BasePolicy, f, x) \in WidePolicy
    BY Zenon, <2>4, BaseIsPolicy, LongerField
  <2>6. Longer(Longer(BasePolicy, f, x), g, y) \in WidePolicy
    BY Zenon, <2>4, <2>5, LongerField
  <2> QED
    BY Zenon, <2>1, <2>2, <2>6
<1>2. /\ p \in WidePolicy /\ q \in WidePolicy
      /\ p \in KeyPolicy /\ q \in KeyPolicy
      /\ Len(build(p).data) <= KeyMax
  BY Zenon, <1>1, BuiltFits
<1>3. ASSUME build(p).data = build(q).data PROVE p = q
  <2>1. SameFields(p, q)
    BY Zenon, <1>2, <1>3, KeyTellsPolicies
  <2>2. p.jwks_url \in Text /\ q.jwks_url \in Text
    BY <1>2, Zenon DEF WidePolicy
  <2>3. orEmpty(p.jwks_url) = p.jwks_url /\ orEmpty(q.jwks_url) = q.jwks_url
    BY <2>2, KeyAssumption, Zenon DEF orEmpty
  <2>4. /\ [p EXCEPT !.jwks_url = p.jwks_url] = p
        /\ [q EXCEPT !.jwks_url = q.jwks_url] = q
    BY <1>2, Zenon DEF WidePolicy
  <2> QED
    BY Zenon, <2>1, <2>3, <2>4 DEF SameFields
<1> QED
  BY Zenon, <1>2, <1>3

-----------------------------------------------------------------------------
(* The invariants                                                          *)

\* base64url.c has one spelling for each string of octets.
LEMMA Spellings == OctetsOK => OneSpelling
<1> SUFFICES ASSUME OctetsOK, text # <<>>
             PROVE  /\ valid(text) => /\ encode(decode(text)) = text
                                      /\ Len(decode(text)) = decoded_size(Len(text))
                    /\ valid(encode(text)) /\ decode(encode(text)) = text
  BY Zenon DEF OneSpelling
<1>1. text \in Seq(Byte)
  BY Zenon DEF OctetsOK
<1>2. valid(encode(text)) /\ decode(encode(text)) = text
  BY Zenon, <1>1, EncodedReturns
<1>3. ASSUME valid(text)
      PROVE  encode(decode(text)) = text /\ Len(decode(text)) = decoded_size(Len(text))
  BY Zenon, <1>1, <1>3, DecodedReturns, DecodedOctets
<1> QED
  BY Zenon, <1>2, <1>3

(* A token segment or key parameter that pg_oauth_base64url_decode accepts *)
(* has no second spelling, and octets survive being encoded and decoded.   *)
THEOREM InputsOneSpelling == Spec => []OneSpelling
  BY InputOctets, Spellings, PTL

(* The overflow checks of pg_oauth_base64url_encoded_size are exact.       *)
THEOREM InputsSizeGuard == Spec => []SizeGuard
<1>1. OctetsOK => SizeGuard
  <2> SUFFICES ASSUME OctetsOK PROVE encoded_size_fits(Len(text)) <=> encoded_size(Len(text)) <= SizeMax
    BY Zenon DEF SizeGuard
  <2>1. Len(text) \in Nat
    BY DEF OctetsOK
  <2> QED
    BY Zenon, <2>1, SizeGuardExact
<1> QED
  BY <1>1, InputOctets, PTL

(* Policies whose texts are divided otherwise among the fields never share *)
(* a cache key.                                                            *)
THEOREM InputsKeysDiffer == Spec => []KeysDiffer
  BY InputOctets, DividedKeys, PTL
=============================================================================
