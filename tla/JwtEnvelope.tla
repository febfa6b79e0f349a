----------------------------- MODULE JwtEnvelope ----------------------------
(* The compact token before its signature is checked (jwt_envelope.c).     *)
EXTENDS JsonValues

CONSTANT MaxKeyId   \* PG_OAUTH_JWT_MAX_KEY_ID_SIZE

\* No more than the callback lets jwks.c look for.
ASSUME EnvelopeAssumption == MaxKeyId \in Nat \ {0} /\ MaxKeyId <= 1024

Algorithms == {"RS256", "ES256", "EdDSA"}
TokenTypes == {"at+jwt", "application/at+jwt"}

\* "none" stands for 0.
parse_algorithm(alg) ==
    IF is_string(alg) /\ alg.str \in Algorithms THEN alg.str ELSE "none"

allowed_type(typ, p) ==
    IF typ = Absent THEN p.allow_missing_token_type
    ELSE is_string(typ) /\ typ.str \in p.allowed_token_types

\* A token: its length, the lengths of its segments, whether each is canonical
\* base64url, and the objects that the first two decode to.
split_compact_jws(token) == Len(token.segments) = 3 /\ \A i \in 1 .. 3 : token.segments[i] # 0

\* The decoded length is compared with its bound before the text is parsed.
decode_json_object(part, maximum, size_error, json_error) ==
    IF part.size > maximum THEN size_error ELSE IF ~part.object THEN json_error ELSE "ok"

\* The header has a member that the validator does not process.
has_unsupported_header(header) == header.unsupported

invalid_limits(p) ==
    \/ p.allowed_token_types = {} \/ p.max_token_size = 0 \/ p.max_header_size = 0
    \/ p.max_payload_size = 0 \/ p.allowed_algorithms = {}

pg_oauth_jwt_envelope_parse(token, p) ==
    LET header == decode_json_object(token.header, p.max_header_size,
                        "header_too_large", "invalid_header_json")
        payload == decode_json_object(token.payload, p.max_payload_size,
                        "payload_too_large", "invalid_payload_json")
    IN  IF invalid_limits(p) THEN "invalid_argument"
        ELSE IF token.size = 0 THEN "empty"
        ELSE IF token.size > p.max_token_size THEN "too_large"
        ELSE IF ~split_compact_jws(token) THEN "invalid_compact_jws"
        ELSE IF ~token.canonical THEN "invalid_base64url"
        ELSE IF header # "ok" THEN header
        ELSE IF payload # "ok" THEN payload
        ELSE IF has_unsupported_header(token.header) THEN "unsupported_header"
        ELSE IF parse_algorithm(token.header.alg) \notin p.allowed_algorithms
             THEN "invalid_algorithm"
        ELSE IF ~allowed_type(token.header.typ, p) THEN "invalid_token_type"
        ELSE IF ~clean_string(token.header.kid, MaxKeyId) THEN "invalid_key_id"
        ELSE "ok"
=============================================================================
