------------------------------- MODULE Claims -------------------------------
(* The claims of a verified payload (claims.c).  A payload is a function   *)
(* from claim names to JSON values, Absent for those it does not have.     *)
EXTENDS JsonValues

valid_policy(p) ==
    /\ "" \notin {p.issuer, p.audiences, p.required_scopes, p.identity_claim}
    /\ p.current_time >= 0 /\ p.clock_skew_seconds <= 300
    /\ p.max_identity_size > 0 /\ p.max_subject_size \in 1 .. 1024
    /\ p.max_audiences \in 1 .. 64 /\ p.max_scopes \in 1 .. 256
    /\ p.role_claim # "" =>
            /\ p.requested_role # ""
            /\ p.max_roles \in 1 .. 256 /\ p.max_role_size > 0

configured_audience_matches(x, p) ==
    LET entries == Entries[p.audiences]
    IN  \E i \in 1 .. Len(entries) :
            /\ i <= p.max_audiences /\ entries[i] = x
            /\ \A j \in 1 .. i : entries[j] # ""

audience_matches(aud, p) ==
    \/ is_string(aud) /\ configured_audience_matches(aud.str, p)
    \/ /\ is_array(aud) /\ Len(aud.items) \in 1 .. p.max_audiences /\ distinct(aud.items)
       /\ \A i \in 1 .. Len(aud.items) : is_string(aud.items[i]) /\ aud.items[i].str # ""
       /\ \E i \in 1 .. Len(aud.items) : configured_audience_matches(aud.items[i].str, p)

\* Without the first comparison the difference wraps.
expired_Wraps(exp, p) == (p.current_time - exp) % 16 >= p.clock_skew_seconds

expired_Early(exp, p) == p.current_time + p.clock_skew_seconds >= exp

expired(exp, p) == p.current_time >= exp /\ p.current_time - exp >= p.clock_skew_seconds

early(date, p) == date > p.current_time /\ date - p.current_time > p.clock_skew_seconds

\* nbf and iat may be absent.
valid_date(j) == j = Absent \/ (is_integer(j) /\ j.num >= 0)

\* The tokens of a scope claim, the empty set when it is malformed.
scope_tokens(scope, p) ==
    LET words == IF is_string(scope) THEN Words[scope.str]
                 ELSE [i \in 1 .. Len(scope.items) |->
                         IF is_string(scope.items[i]) THEN scope.items[i].str ELSE ""]
    IN  IF /\ Len(words) \in 1 .. p.max_scopes /\ distinct(words)
           /\ \A i \in 1 .. Len(words) : words[i] \in ScopeToken
        THEN {words[i] : i \in 1 .. Len(words)} ELSE {}

\* The loop over the required scopes ends at the first that it does not accept.
scopes_error(scope, required, have, maximum) ==
    LET bad(i) == i > maximum \/ required[i] \notin ScopeToken
        Fails == {i \in 1 .. Len(required) : bad(i) \/ required[i] \notin have}
    IN  IF ~is_string(scope) /\ ~is_array(scope) THEN "invalid_scope"
        ELSE IF Fails = {} THEN "ok"
        ELSE IF \E i \in Fails : bad(i) /\ \A j \in Fails : i <= j THEN "invalid_argument"
        ELSE IF have = {} THEN "invalid_scope"
        ELSE "insufficient_scope"

validate_scopes_First(scope, p) ==
    IF Words[p.required_scopes][1] \in scope_tokens(scope, p) THEN "ok" ELSE "insufficient_scope"

validate_scopes(scope, p) ==
    scopes_error(scope, Words[p.required_scopes], scope_tokens(scope, p), p.max_scopes)

validate_requested_role(roles, p) ==
    IF p.role_claim = "" THEN "ok"
    ELSE IF Size[p.requested_role] \notin 1 .. p.max_role_size THEN "invalid_argument"
    ELSE IF is_string(roles)
         THEN IF ~clean_string(roles, p.max_role_size) THEN "invalid_roles"
              ELSE IF roles.str = p.requested_role THEN "ok" ELSE "unauthorized_role"
    ELSE IF \/ ~is_array(roles) \/ Len(roles.items) \notin 1 .. p.max_roles \/ ~distinct(roles.items)
            \/ \E i \in 1 .. Len(roles.items) : ~clean_string(roles.items[i], p.max_role_size)
         THEN "invalid_roles"
    ELSE IF \E i \in 1 .. Len(roles.items) : roles.items[i].str = p.requested_role THEN "ok"
    ELSE "unauthorized_role"

pg_oauth_claims_validate(payload, p) ==
    IF ~valid_policy(p) THEN "invalid_argument"
    ELSE IF ~json_string_equals(payload["iss"], p.issuer) THEN "invalid_issuer"
    ELSE IF ~audience_matches(payload["aud"], p) THEN "invalid_audience"
    ELSE IF payload["exp"] = Absent THEN "missing_expiry"
    ELSE IF ~is_integer(payload["exp"]) \/ payload["exp"].num <= 0 THEN "invalid_expiry"
    ELSE IF expired(payload["exp"].num, p) THEN "expired"
    ELSE IF ~valid_date(payload["nbf"]) THEN "invalid_not_before"
    ELSE IF payload["nbf"] # Absent /\ early(payload["nbf"].num, p) THEN "not_yet_valid"
    ELSE IF ~valid_date(payload["iat"]) THEN "invalid_issued_at"
    ELSE IF payload["iat"] # Absent /\ early(payload["iat"].num, p) THEN "issued_in_future"
    ELSE IF ~valid_identity_string(payload["sub"], p.max_subject_size) THEN "invalid_subject"
    ELSE IF ~valid_identity_string(payload[p.identity_claim], p.max_identity_size) THEN "invalid_identity"
    ELSE IF validate_scopes(payload["scope"], p) # "ok" THEN validate_scopes(payload["scope"], p)
    ELSE IF p.role_claim = "" THEN "ok"
    ELSE validate_requested_role(payload[p.role_claim], p)
=============================================================================
