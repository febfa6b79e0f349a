-------------------------------- MODULE Jwks --------------------------------
(* The choice of the verification key in a JWKS document (jwks.c).         *)
EXTENDS JsonValues

CONSTANT MaxExponentBytes   \* PG_OAUTH_JWK_MAX_EXPONENT_BYTES

valid_key_id(kid, maximum) == clean_string(kid, maximum)

key_allows_verification(key) ==
    /\ key.use # Absent => json_string_equals(key.use, "sig")
    /\ key.key_ops # Absent =>
            /\ is_array(key.key_ops) /\ Len(key.key_ops.items) = 1
            /\ json_string_equals(key.key_ops.items[1], "verify")
    /\ key.use # Absent \/ key.key_ops # Absent

\* A private or symmetric member is present.
contains_private_key_material(key) == key.private

key_algorithm(key) ==
    IF is_string(key.alg) /\ key.alg.str \in {"RS256", "ES256", "EdDSA"}
    THEN key.alg.str ELSE "none"

\* A parameter is an unsigned number: its leading zero bytes, its bits without
\* them, and whether it is odd.  It is not ok when it is missing, no string or
\* not canonical base64url.
byte_length(param) == param.zeros + (param.bits + 7) \div 8
decode_parameter(param, maximum) == param.ok /\ byte_length(param) <= maximum

\* The smallest odd numbers from 3 have two bits.
valid_rsa_key(key, p) ==
    /\ json_string_equals(key.kty, "RSA")
    /\ decode_parameter(key.n, p.maximum_rsa_bits \div 8 + 1)
    /\ decode_parameter(key.e, MaxExponentBytes)
    /\ key.n.zeros = 0 /\ key.e.zeros = 0 /\ key.n.odd
    /\ key.n.bits \in p.minimum_rsa_bits .. p.maximum_rsa_bits
    /\ key.e.bits >= 2 /\ key.e.odd

\* key.point is OpenSSL's verdict: the coordinates are a point of the curve.
valid_ec_key(key) ==
    /\ json_string_equals(key.kty, "EC") /\ json_string_equals(key.crv, "P-256")
    /\ decode_parameter(key.x, 32) /\ decode_parameter(key.y, 32)
    /\ byte_length(key.x) = 32 /\ byte_length(key.y) = 32
    /\ key.point

valid_ed25519_key(key) ==
    /\ json_string_equals(key.kty, "OKP") /\ json_string_equals(key.crv, "Ed25519")
    /\ decode_parameter(key.x, 32) /\ byte_length(key.x) = 32
    /\ key.point

matches(key, kid) == key.object /\ json_string_equals(key.kid, kid)

stops_NotTwice(keys, i, kid, p) ==
    \/ ~keys[i].object
    \/ keys[i].kid # Absent /\ ~valid_key_id(keys[i].kid, p.max_key_id_size)

stops_Unknown(keys, i, kid, p) ==
    \/ ~keys[i].object
    \/ keys[i].kid # Absent /\ ~valid_key_id(keys[i].kid, p.max_key_id_size)
    \/ matches(keys[i], kid) /\ \E j \in 1 .. i - 1 : matches(keys[j], kid)
    \/ key_algorithm(keys[i]) = "none"

\* The loop ends at key i: it is not an object, its identifier is malformed or
\* it is the second one with the wanted identifier.
stops(keys, i, kid, p) ==
    \/ ~keys[i].object
    \/ keys[i].kid # Absent /\ ~valid_key_id(keys[i].kid, p.max_key_id_size)
    \/ matches(keys[i], kid) /\ \E j \in 1 .. i - 1 : matches(keys[j], kid)

Stopping(keys, kid, p) == {i \in 1 .. Len(keys) : stops(keys, i, kid, p)}

\* The error at the key where the loop ends, the first that stops it.
stop_error(keys, Stops, p) ==
    LET First == {i \in Stops : \A j \in Stops : i <= j}
    IN  IF \E i \in First : ~keys[i].object THEN "invalid_keys"
        ELSE IF \E i \in First : ~valid_key_id(keys[i].kid, p.max_key_id_size)
             THEN "invalid_key_id"
        ELSE "duplicate_key_id"

\* The candidate of a loop that ran through: the only match.
candidate(keys, kid) ==
    keys[CHOOSE i \in 1 .. Len(keys) : matches(keys[i], kid)]

key_error(key, algorithm, p) ==
    IF key_algorithm(key) # algorithm \/ key_algorithm(key) \notin p.allowed_algorithms
    THEN "algorithm_mismatch"
    ELSE IF ~key_allows_verification(key) THEN "key_not_for_signature"
    ELSE IF contains_private_key_material(key) THEN "invalid_key"
    ELSE IF \/ algorithm = "RS256" /\ ~valid_rsa_key(key, p)
            \/ algorithm = "ES256" /\ ~valid_ec_key(key)
            \/ algorithm = "EdDSA" /\ ~valid_ed25519_key(key) THEN "invalid_key"
    ELSE "ok"

MinimumRsaBits == 2048
MaximumRsaBits == 16384

invalid_rsa_bits(p) ==
    \/ p.minimum_rsa_bits < MinimumRsaBits \/ p.maximum_rsa_bits < p.minimum_rsa_bits
    \/ p.maximum_rsa_bits > MaximumRsaBits

\* The arguments that a search is refused for.
invalid_search(kid, algorithm, p) ==
    \/ 0 \in {p.max_jwks_size, p.max_keys, p.max_key_id_size}
    \/ invalid_rsa_bits(p) \/ algorithm \notin p.allowed_algorithms
    \/ ~clean_string(Str(kid), p.max_key_id_size)

\* doc.keys is the JSON value of the member "keys"; json covers both ways in
\* which the text is no JSON object.
pg_oauth_jwks_select(doc, kid, algorithm, p) ==
    LET keys == doc.keys.items
        Stops == Stopping(keys, kid, p)
    IN  IF invalid_search(kid, algorithm, p) THEN "invalid_argument"
        ELSE IF doc.size = 0 THEN "empty"
        ELSE IF doc.size > p.max_jwks_size THEN "too_large"
        ELSE IF ~doc.json THEN "invalid_json"
        ELSE IF ~is_array(doc.keys) \/ doc.keys.items = <<>> THEN "invalid_keys"
        ELSE IF Len(keys) > p.max_keys THEN "too_many_keys"
        ELSE IF Stops # {} THEN stop_error(keys, Stops, p)
        ELSE IF ~\E i \in 1 .. Len(keys) : matches(keys[i], kid) THEN "key_not_found"
        ELSE key_error(candidate(keys, kid), algorithm, p)
=============================================================================
