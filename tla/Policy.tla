------------------------------- MODULE Policy -------------------------------
(* The effective policy: the settings and the HBA rule (policy.c), and the *)
(* policies of the stages that the callback makes of it.                   *)
EXTENDS JsonValues

CONSTANTS HostName,          \* the texts that can be an entry of allowed_jwks_hosts
          MaxDocumentSize,   \* PG_OAUTH_MAX_DOCUMENT_SIZE
          NameDataLen        \* NAMEDATALEN

ASSUME PolicyAssumption == MaxDocumentSize \in Nat \ {0} /\ NameDataLen \in Nat /\ NameDataLen > 1

\* The names in a list of known ones; the empty set when the list is malformed.
parse_names(x, Known) ==
    IF x # "" /\ distinct(Entries[x]) /\ \A i \in 1 .. Len(Entries[x]) : Entries[x][i] \in Known
    THEN {Entries[x][i] : i \in 1 .. Len(Entries[x])} ELSE {}

parse_algorithms(x) == parse_names(x, {"RS256", "ES256", "EdDSA"})

parse_token_types(x) ==
    IF Size[x] > 64 THEN {} ELSE parse_names(x, {"at+jwt", "application/at+jwt"})

validate_audiences(x) ==
    /\ Len(Entries[x]) <= 16
    /\ \A i \in 1 .. Len(Entries[x]) : Entries[x][i] # "" /\ Entries[x][i] \notin Control

validate_claim_name_Empty(x) == Size[x] <= 128 /\ x \notin Control \cup Spaced

validate_claim_name(x) == Size[x] \in 1 .. 128 /\ x \notin Control \cup Spaced

validate_jwks_hosts(x) ==
    \/ x = ""
    \/ Len(Entries[x]) <= 16 /\ \A i \in 1 .. Len(Entries[x]) : Entries[x][i] \in HostName

valid_ca_file(x) == Size[x] <= 2048 /\ x \notin Control

MaxClockSkew == 300000

MinTokenSize == 1024

MaxTokenSize == 65536

valid_token_size(c) == c.max_token_size \in MinTokenSize .. MaxTokenSize

valid_cache_policy(c) ==
    /\ c.metadata_default_ttl_ms \in 1000 .. 3600000
    /\ c.jwks_default_ttl_ms \in 1000 .. 3600000
    /\ c.cache_max_ttl_ms >= c.metadata_default_ttl_ms
    /\ c.cache_max_ttl_ms >= c.jwks_default_ttl_ms
    /\ c.cache_max_ttl_ms <= 86400000
    /\ c.jwks_stale_grace_ms \in 0 .. 3600000
    /\ c.unknown_kid_refresh_cooldown_ms \in 1000 .. 300000
    /\ c.refresh_wait_timeout_ms \in 0 .. 5000

pg_oauth_policy_build(c, hba) ==
    IF hba.issuer = "" THEN "missing_issuer"
    ELSE IF hba.required_scopes = "" THEN "missing_scopes"
    ELSE IF hba.policy_name \notin {"", "default"} THEN "unknown_policy"
    ELSE IF c.audiences = "" THEN "missing_audience"
    ELSE IF ~validate_audiences(c.audiences) THEN "invalid_audiences"
    ELSE IF parse_algorithms(c.allowed_algorithms) = {} THEN "invalid_algorithms"
    ELSE IF parse_token_types(c.allowed_token_types) = {} THEN "invalid_token_type"
    ELSE IF ~validate_claim_name(c.identity_claim) THEN "invalid_authn_claim"
    ELSE IF c.role_claim # "" /\ ~validate_claim_name(c.role_claim) THEN "invalid_role_claim"
    ELSE IF ~(hba.delegate_ident_mapping <=> c.role_claim # "") THEN "delegation_mismatch"
    ELSE IF ~validate_jwks_hosts(c.allowed_jwks_hosts) THEN "invalid_jwks_hosts"
    ELSE IF ~valid_ca_file(c.ca_file) THEN "invalid_ca_file"
    ELSE IF c.clock_skew_ms \notin 0 .. MaxClockSkew THEN "invalid_clock_skew"
    ELSE IF ~valid_token_size(c) THEN "invalid_token_size"
    ELSE IF ~valid_cache_policy(c) THEN "invalid_cache_policy"
    ELSE "ok"

\* The stages' policies, assembled by the callback.
envelope_policy(c) ==
    [max_token_size |-> c.max_token_size, max_header_size |-> 4096,
     max_payload_size |-> c.max_token_size,
     allowed_algorithms |-> parse_algorithms(c.allowed_algorithms),
     allowed_token_types |-> parse_token_types(c.allowed_token_types),
     allow_missing_token_type |-> c.allow_missing_token_type]

metadata_policy(c) ==
    [max_document_size |-> MaxDocumentSize, allow_insecure_http |-> c.allow_insecure_http]

jwks_policy(c) ==
    [max_jwks_size |-> MaxDocumentSize, max_keys |-> 16, max_key_id_size |-> 1024,
     allowed_algorithms |-> parse_algorithms(c.allowed_algorithms),
     minimum_rsa_bits |-> 2048, maximum_rsa_bits |-> 8192]

claims_policy(c, hba, role, now) ==
    [issuer |-> hba.issuer, audiences |-> c.audiences,
     required_scopes |-> hba.required_scopes, identity_claim |-> c.identity_claim,
     role_claim |-> c.role_claim, requested_role |-> role, current_time |-> now,
     clock_skew_seconds |-> c.clock_skew_ms \div 1000,
     max_identity_size |-> NameDataLen - 1, max_subject_size |-> 1024,
     max_audiences |-> 16, max_scopes |-> 64, max_roles |-> 64,
     max_role_size |-> NameDataLen - 1]
=============================================================================
