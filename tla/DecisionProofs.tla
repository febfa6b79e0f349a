--------------------------- MODULE DecisionProofs ----------------------------
(***************************************************************************)
(* What an accepted token has, which stage can refuse one, and what the    *)
(* clock, the settings and other keys can do to a verdict, for every       *)
(* setting, document and token.  ShapeOK, which every change keeps, says   *)
(* only that numbers are numbers and that arrays have a length.            *)
(***************************************************************************)
EXTENDS TokenDecision, TLAPS

-----------------------------------------------------------------------------
(* The shape of settings, rules, documents and tokens                      *)

\* Numbers are numbers, arrays have a length, and published keys come from KeyPool.
ShapeOK ==
    /\ now \in Nat
    /\ {"clock_skew_ms", "max_token_size", "audiences"} \subseteq DOMAIN config
    /\ \A f \in DOMAIN config : ConfigField(f, config[f])
    /\ "required_scopes" \in DOMAIN hba
    /\ \A f \in DOMAIN hba : HbaField(f, hba[f])
    /\ "keys" \in DOMAIN jwks
    /\ \A f \in DOMAIN jwks : JwksField(f, jwks[f])
    /\ {"size", "header", "payload"} \subseteq DOMAIN token
    /\ \A f \in DOMAIN token : TokenField(f, token[f])

\* A key server adds or replaces keys from the pool, or serves another document.
LEMMA RotateShape ==
    ASSUME "keys" \in DOMAIN jwks, \A f \in DOMAIN jwks : JwksField(f, jwks[f]), Rotate
    PROVE  "keys" \in DOMAIN jwks' /\ \A f \in DOMAIN jwks' : JwksField(f, jwks'[f])
<1>1. is_array(jwks.keys) => jwks.keys = Arr(jwks.keys.items) /\ jwks.keys.items \in Seq(KeyPool)
  BY Zenon DEF JwksField
<1>2. ASSUME NEW s \in Seq(KeyPool), is_array(jwks.keys),
             jwks' = [jwks EXCEPT !.keys.items = s]
      PROVE  "keys" \in DOMAIN jwks' /\ \A f \in DOMAIN jwks' : JwksField(f, jwks'[f])
  <2>1. [Arr(jwks.keys.items) EXCEPT !.items = s] = Arr(s)
    BY DEF Arr
  <2>2. DOMAIN jwks' = DOMAIN jwks /\ jwks'.keys = Arr(s)
    BY <1>1, <1>2, <2>1, Zenon
  <2>3. \A f \in DOMAIN jwks : f # "keys" => jwks'[f] = jwks[f]
    BY <1>2, Zenon
  <2>4. Arr(s).items = s
    BY Zenon DEF Arr
  <2> QED
    BY <2>2, <2>3, <2>4, Zenon DEF JwksField
<1>3. ASSUME is_array(jwks.keys), NEW k \in KeyPool,
             jwks' = [jwks EXCEPT !.keys.items = Append(@, k)]
      PROVE  "keys" \in DOMAIN jwks' /\ \A f \in DOMAIN jwks' : JwksField(f, jwks'[f])
  <2>1. PICK s : s = Append(jwks.keys.items, k)
    BY Zenon
  <2>2. s \in Seq(KeyPool)
    BY <1>1, <1>3, <2>1
  <2>3. jwks' = [jwks EXCEPT !.keys.items = s]
    BY <1>3, <2>1, Zenon
  <2> QED
    BY <1>2, <1>3, <2>2, <2>3, Zenon
<1>4. ASSUME is_array(jwks.keys), NEW k \in KeyPool, NEW i \in 1 .. Len(jwks.keys.items),
             jwks' = [jwks EXCEPT !.keys.items[i] = k]
      PROVE  "keys" \in DOMAIN jwks' /\ \A f \in DOMAIN jwks' : JwksField(f, jwks'[f])
  <2>1. PICK s : s = [jwks.keys.items EXCEPT ![i] = k]
    BY Zenon
  <2>2. s \in Seq(KeyPool)
    BY <1>1, <1>4, <2>1
  <2>3. jwks' = [jwks EXCEPT !.keys.items = s]
    BY <1>4, <2>1, Zenon
  <2> QED
    BY <1>2, <1>4, <2>2, <2>3, Zenon
<1>5. ASSUME NEW g \in DOMAIN JwksChoices, NEW v \in JwksChoices[g],
             jwks' = [jwks EXCEPT ![g] = v]
      PROVE  "keys" \in DOMAIN jwks' /\ \A f \in DOMAIN jwks' : JwksField(f, jwks'[f])
  <2>1. JwksField(g, v)
    BY WorldAssumption, Zenon
  <2> QED
    BY <1>5, <2>1, Zenon
<1> QED
  BY <1>3, <1>4, <1>5, Zenon DEF Rotate

\* A client presents a token with another header, claim or size.
LEMMA ReissueShape ==
    ASSUME {"size", "header", "payload"} \subseteq DOMAIN token,
           \A f \in DOMAIN token : TokenField(f, token[f]), Reissue
    PROVE  /\ {"size", "header", "payload"} \subseteq DOMAIN token'
           /\ \A f \in DOMAIN token' : TokenField(f, token'[f])
<1>1. /\ "size" \in DOMAIN token.header /\ token.header.size \in Int
      /\ "size" \in DOMAIN token.payload /\ token.payload.size \in Int
      /\ "claims" \in DOMAIN token.payload
      /\ {"exp", "nbf", "iat", "scope"} \subseteq DOMAIN token.payload.claims
      /\ \A c \in DOMAIN token.payload.claims : ClaimField(token.payload.claims[c])
  BY Zenon DEF TokenField
<1>2. ASSUME NEW g \in DOMAIN HeaderChoices, NEW v \in HeaderChoices[g],
             token' = [token EXCEPT !.header[g] = v]
      PROVE  /\ {"size", "header", "payload"} \subseteq DOMAIN token'
             /\ \A f \in DOMAIN token' : TokenField(f, token'[f])
  <2>1. PICK h : h = [token.header EXCEPT ![g] = v]
    BY Zenon
  <2>2. DOMAIN h = DOMAIN token.header /\ h.size \in Int
    <3>1. g = "size" => v \in Int
      BY WorldAssumption, Zenon
    <3> QED BY <1>1, <2>1, <3>1, Zenon
  <2>3. TokenField("header", h)
    BY <1>1, <2>2, Zenon DEF TokenField
  <2>4. token' = [token EXCEPT !.header = h]
    BY <1>2, <2>1, Zenon
  <2> QED BY <2>3, <2>4, Zenon
<1>3. ASSUME NEW g \in DOMAIN ClaimChoices, NEW v \in ClaimChoices[g],
             token' = [token EXCEPT !.payload.claims[g] = v]
      PROVE  /\ {"size", "header", "payload"} \subseteq DOMAIN token'
             /\ \A f \in DOMAIN token' : TokenField(f, token'[f])
  <2>1. PICK c : c = [token.payload.claims EXCEPT ![g] = v]
    BY Zenon
  <2>2. /\ DOMAIN c = DOMAIN token.payload.claims
        /\ \A d \in DOMAIN c : ClaimField(c[d])
    <3>1. ClaimField(v)
      BY WorldAssumption, Zenon
    <3> QED BY <1>1, <2>1, <3>1, Zenon
  <2>3. PICK p : p = [token.payload EXCEPT !.claims = c]
    BY Zenon
  <2>4. /\ DOMAIN p = DOMAIN token.payload /\ p.size = token.payload.size
        /\ p.claims = c
    BY <1>1, <2>3, Zenon
  <2>5. TokenField("payload", p)
    BY <1>1, <2>2, <2>4, Zenon DEF TokenField
  <2>6. token' = [token EXCEPT !.payload = p]
    BY <1>3, <2>1, <2>3, Zenon
  <2> QED BY <2>5, <2>6, Zenon
<1>4. ASSUME NEW g \in DOMAIN TokenChoices, NEW v \in TokenChoices[g],
             token' = [token EXCEPT ![g] = v]
      PROVE  /\ {"size", "header", "payload"} \subseteq DOMAIN token'
             /\ \A f \in DOMAIN token' : TokenField(f, token'[f])
  <2>1. TokenField(g, v)
    BY WorldAssumption, Zenon
  <2> QED BY <1>4, <2>1, Zenon
<1> QED
  BY <1>2, <1>3, <1>4, Zenon DEF Reissue

\* Every change keeps the shape.
LEMMA ShapeStep == ShapeOK /\ [Next]_vars => ShapeOK'
<1> SUFFICES ASSUME ShapeOK, [Next]_vars PROVE ShapeOK'
  OBVIOUS
<1>1. CASE Tick
  BY <1>1 DEF Tick, ShapeOK
<1>2. CASE Reload
  <2>1. PICK g \in DOMAIN ConfigChoices : \E v \in ConfigChoices[g] :
              config' = [config EXCEPT ![g] = v]
    BY <1>2, Zenon DEF Reload
  <2>2. PICK v \in ConfigChoices[g] : config' = [config EXCEPT ![g] = v]
    BY <2>1, Zenon
  <2>3. ConfigField(g, v)
    BY WorldAssumption, Zenon
  <2>4. /\ {"clock_skew_ms", "max_token_size", "audiences"} \subseteq DOMAIN config'
        /\ \A f \in DOMAIN config' : ConfigField(f, config'[f])
    BY <2>2, <2>3, Zenon DEF ShapeOK
  <2> QED BY <1>2, <2>4, Zenon DEF Reload, Change, ShapeOK
<1>3. CASE Reconnect
  <2>1. /\ "required_scopes" \in DOMAIN hba'
        /\ \A f \in DOMAIN hba' : HbaField(f, hba'[f])
    <3>1. CASE UNCHANGED hba
      BY <3>1, Zenon DEF ShapeOK
    <3>2. ASSUME NEW g \in DOMAIN HbaChoices, NEW v \in HbaChoices[g],
                 hba' = [hba EXCEPT ![g] = v]
          PROVE  /\ "required_scopes" \in DOMAIN hba'
                 /\ \A f \in DOMAIN hba' : HbaField(f, hba'[f])
      <4>1. HbaField(g, v)
        BY WorldAssumption, Zenon
      <4> QED BY <3>2, <4>1, Zenon DEF ShapeOK
    <3> QED BY <1>3, <3>1, <3>2, Zenon DEF Reconnect
  <2> QED BY <1>3, <2>1, Zenon DEF Reconnect, Change, ShapeOK
<1>4. CASE Reconfigure
  BY <1>4, Zenon DEF Reconfigure, Change, ShapeOK
<1>5. CASE Rotate
  <2>1. "keys" \in DOMAIN jwks' /\ \A f \in DOMAIN jwks' : JwksField(f, jwks'[f])
    BY <1>5, RotateShape, Zenon DEF ShapeOK
  <2> QED BY <1>5, <2>1, Zenon DEF Rotate, Change, ShapeOK
<1>6. CASE Reissue
  <2>1. /\ {"size", "header", "payload"} \subseteq DOMAIN token'
        /\ \A f \in DOMAIN token' : TokenField(f, token'[f])
    BY <1>6, ReissueShape, Zenon DEF ShapeOK
  <2> QED BY <1>6, <2>1, Zenon DEF Reissue, Change, ShapeOK
<1>7. CASE UNCHANGED vars
  BY <1>7, Zenon DEF vars, ShapeOK
<1> QED BY <1>1, <1>2, <1>3, <1>4, <1>5, <1>6, <1>7, Zenon DEF Next

\* All reachable states have the shape.
THEOREM DecisionShape == Spec => []ShapeOK
<1>1. Init => ShapeOK
  BY WorldAssumption DEF Init, ShapeOK
<1> QED BY <1>1, ShapeStep, PTL DEF Spec

\* Numbers are integers and arrays have a length.
Measured ==
    /\ is_array(jwks.keys) => Len(jwks.keys.items) \in Nat
    /\ is_array(Claim("scope")) => Len(Claim("scope").items) \in Nat
    /\ now \in Nat /\ config.clock_skew_ms \in Int /\ config.max_token_size \in Int
    /\ Len(Entries[config.audiences]) \in Nat
    /\ \A c \in {"exp", "nbf", "iat"} : is_integer(Claim(c)) => Claim(c).num \in Int
    /\ Len(Words[hba.required_scopes]) \in Nat
    /\ token.size \in Int /\ token.header.size \in Int /\ token.payload.size \in Int

\* The shape gives the measures.
LEMMA ShapeMeasures == ShapeOK => Measured
<1> SUFFICES ASSUME ShapeOK PROVE Measured
  OBVIOUS
<1>1. /\ config.clock_skew_ms \in Int /\ config.max_token_size \in Int
      /\ Len(Entries[config.audiences]) \in Nat
  BY Zenon DEF ShapeOK, ConfigField
<1>2. Len(Words[hba.required_scopes]) \in Nat
  BY Zenon DEF ShapeOK, HbaField
<1>3. is_array(jwks.keys) => Len(jwks.keys.items) \in Nat
  BY DEF ShapeOK, JwksField
<1>4. TokenField("size", token.size) /\ TokenField("header", token.header) /\ TokenField("payload", token.payload)
  BY Zenon DEF ShapeOK
<1>5. token.size \in Int /\ token.header.size \in Int /\ token.payload.size \in Int
  BY <1>4, Zenon DEF TokenField
<1>6. \A c \in {"exp", "nbf", "iat", "scope"} : ClaimField(Claim(c))
  BY <1>4, Zenon DEF TokenField, Claim
<1> QED BY <1>1, <1>2, <1>3, <1>5, <1>6, Zenon DEF Measured, ClaimField, ShapeOK

-----------------------------------------------------------------------------
(* The members of the stages' policies                                     *)

\* The clock skew that the claims are given.
SkewSeconds(c) == c.clock_skew_ms \div 1000

ClaimsFields(p, c, h, r, t) ==
    /\ p.issuer = h.issuer /\ p.audiences = c.audiences /\ p.required_scopes = h.required_scopes
    /\ p.identity_claim = c.identity_claim /\ p.role_claim = c.role_claim
    /\ p.requested_role = r /\ p.current_time = t /\ p.clock_skew_seconds = SkewSeconds(c)
    /\ p.max_identity_size = NameDataLen - 1 /\ p.max_role_size = NameDataLen - 1

ClaimsLimits(p) ==
    /\ p.max_subject_size = 1024 /\ p.max_audiences = 16
    /\ p.max_scopes = 64 /\ p.max_roles = 64

EnvelopeFields(p, c) ==
    /\ p.allowed_algorithms = parse_algorithms(c.allowed_algorithms)
    /\ p.allowed_token_types = parse_token_types(c.allowed_token_types)
    /\ p.allow_missing_token_type = c.allow_missing_token_type
    /\ p.max_token_size = c.max_token_size /\ p.max_payload_size = c.max_token_size

EnvelopeLimits(p) == p.max_header_size = 4096

JwksFields(p, c) ==
    p.max_jwks_size = MaxDocumentSize /\ p.allowed_algorithms = parse_algorithms(c.allowed_algorithms)

JwksLimits(p) ==
    /\ p.max_keys = 16 /\ p.max_key_id_size = 1024
    /\ p.minimum_rsa_bits = 2048 /\ p.maximum_rsa_bits = 8192

\* The callback fills the members of the claims policy so.
LEMMA ClaimsPolicyIs ==
    ASSUME NEW c, NEW h, NEW r, NEW t
    PROVE  /\ ClaimsFields(claims_policy(c, h, r, t), c, h, r, t)
           /\ ClaimsLimits(claims_policy(c, h, r, t))
<1>1. ClaimsFields(claims_policy(c, h, r, t), c, h, r, t)
  BY Zenon DEF ClaimsFields, claims_policy, SkewSeconds
<1>2. ClaimsLimits(claims_policy(c, h, r, t))
  BY Zenon DEF ClaimsLimits, claims_policy
<1> QED BY <1>1, <1>2, Zenon

\* The same of the envelope's policy.
LEMMA EnvelopePolicyIs ==
    ASSUME NEW c
    PROVE  EnvelopeFields(envelope_policy(c), c) /\ EnvelopeLimits(envelope_policy(c))
  BY SMT DEF EnvelopeFields, EnvelopeLimits, envelope_policy

\* The same of the policy for the key.
LEMMA JwksPolicyIs ==
    ASSUME NEW c
    PROVE  JwksFields(jwks_policy(c), c) /\ JwksLimits(jwks_policy(c))
  BY SMT DEF JwksFields, JwksLimits, jwks_policy

-----------------------------------------------------------------------------
(* What an accepted token has, and what the clock does to it               *)

\* An accepted token passed every stage of pg_oauth_validate_token.
LEMMA AllStages ==
    ASSUME accepted
    PROVE  /\ pg_oauth_policy_build(config, hba) = "ok"
           /\ pg_oauth_jwt_envelope_parse(token, envelope_policy(config)) = "ok"
           /\ issuer_key = Yes
           /\ signature_verify
           /\ pg_oauth_claims_validate(token.payload.claims,
                    claims_policy(config, hba, role, now)) = "ok"
  BY Zenon DEF accepted, verdict, pipeline, No, Yes

\* An envelope that pg_oauth_jwt_envelope_parse accepts passed every check.
LEMMA EnvelopePassed ==
    ASSUME NEW t, NEW p
    PROVE  pg_oauth_jwt_envelope_parse(t, p) = "ok" <=>
                /\ ~invalid_limits(p)
                /\ t.size # 0 /\ ~(t.size > p.max_token_size) /\ split_compact_jws(t) /\ t.canonical
                /\ ~(t.header.size > p.max_header_size) /\ t.header.object
                /\ ~(t.payload.size > p.max_payload_size) /\ t.payload.object
                /\ ~has_unsupported_header(t.header)
                /\ parse_algorithm(t.header.alg) \in p.allowed_algorithms
                /\ allowed_type(t.header.typ, p) /\ clean_string(t.header.kid, MaxKeyId)
<1>1. \A part, n, e, f : e # "ok" /\ f # "ok" =>
            (decode_json_object(part, n, e, f) = "ok" <=> ~(part.size > n) /\ part.object)
  BY Zenon DEF decode_json_object
<1> DEFINE header == decode_json_object(t.header, p.max_header_size,
                            "header_too_large", "invalid_header_json")
           payload == decode_json_object(t.payload, p.max_payload_size,
                            "payload_too_large", "invalid_payload_json")
           Passed == /\ ~invalid_limits(p)
                     /\ t.size # 0 /\ ~(t.size > p.max_token_size) /\ split_compact_jws(t) /\ t.canonical
                     /\ header = "ok" /\ payload = "ok" /\ ~has_unsupported_header(t.header)
                     /\ parse_algorithm(t.header.alg) \in p.allowed_algorithms
                     /\ allowed_type(t.header.typ, p) /\ clean_string(t.header.kid, MaxKeyId)
<1>2. /\ header = "ok" <=> ~(t.header.size > p.max_header_size) /\ t.header.object
      /\ payload = "ok" <=> ~(t.payload.size > p.max_payload_size) /\ t.payload.object
  BY <1>1, Zenon
<1>3. Passed => pg_oauth_jwt_envelope_parse(t, p) = "ok"
  BY Zenon DEF pg_oauth_jwt_envelope_parse
<1>4. pg_oauth_jwt_envelope_parse(t, p) = "ok" => Passed
  BY Zenon DEF pg_oauth_jwt_envelope_parse
<1> QED BY <1>2, <1>3, <1>4, Zenon

\* Key retrieval that succeeded went through metadata, host and selection.
LEMMA KeyRetrieved ==
    ASSUME issuer_key = Yes
    PROVE  /\ pg_oauth_metadata_parse(metadata, hba.issuer, metadata_policy(config)) = "ok"
           /\ host_allowed(metadata.jwks_uri.str)
           /\ pg_oauth_jwks_select(jwks, token.header.kid.str,
                    parse_algorithm(token.header.alg), jwks_policy(config)) = "ok"
  BY Zenon DEF issuer_key, No, Yes

\* The loop of pg_oauth_jwks_select ran through and left one candidate.
LEMMA Selected ==
    ASSUME NEW doc, NEW kid, NEW algorithm, NEW p,
           pg_oauth_jwks_select(doc, kid, algorithm, p) = "ok"
    PROVE  /\ is_array(doc.keys)
           /\ algorithm \in p.allowed_algorithms
           /\ \A i \in 1 .. Len(doc.keys.items) : ~stops(doc.keys.items, i, kid, p)
           /\ \E i \in 1 .. Len(doc.keys.items) : matches(doc.keys.items[i], kid)
           /\ key_error(candidate(doc.keys.items, kid), algorithm, p) = "ok"
<1>1. \A s, S : stop_error(s, S, p) # "ok"
  BY Zenon DEF stop_error
<1>2. /\ is_array(doc.keys) /\ ~invalid_search(kid, algorithm, p)
      /\ Stopping(doc.keys.items, kid, p) = {}
      /\ \E i \in 1 .. Len(doc.keys.items) : matches(doc.keys.items[i], kid)
      /\ key_error(candidate(doc.keys.items, kid), algorithm, p) = "ok"
  BY <1>1, Zenon DEF pg_oauth_jwks_select
<1> QED BY <1>2, Zenon DEF Stopping, invalid_search

\* The candidate is one of the keys, and the only one with the identifier.
LEMMA OnlyMatch ==
    ASSUME NEW keys, Len(keys) \in Nat, NEW kid, NEW p,
           \A i \in 1 .. Len(keys) : ~stops(keys, i, kid, p),
           \E i \in 1 .. Len(keys) : matches(keys[i], kid)
    PROVE  \E i \in 1 .. Len(keys) :
                /\ candidate(keys, kid) = keys[i]
                /\ matches(keys[i], kid)
                /\ \A j \in 1 .. Len(keys) : matches(keys[j], kid) => j = i
<1> DEFINE k == CHOOSE i \in 1 .. Len(keys) : matches(keys[i], kid)
<1>1. k \in 1 .. Len(keys) /\ matches(keys[k], kid)
  OBVIOUS
<1>2. candidate(keys, kid) = keys[k]
  BY Zenon DEF candidate
<1>3. ASSUME NEW j \in 1 .. Len(keys), matches(keys[j], kid) PROVE j = k
  <2>1. \A a, b \in 1 .. Len(keys) : a < b /\ matches(keys[a], kid) => ~matches(keys[b], kid)
    <3> SUFFICES ASSUME NEW a \in 1 .. Len(keys), NEW b \in 1 .. Len(keys), a < b,
                        matches(keys[a], kid), matches(keys[b], kid)
                 PROVE  FALSE
      OBVIOUS
    <3>1. a \in 1 .. b - 1
      OBVIOUS
    <3> QED BY <3>1, Zenon DEF stops
  <2>2. j < k \/ k < j \/ j = k
    BY <1>1
  <2> HIDE DEF k
  <2> QED BY <1>1, <1>3, <2>1, <2>2, Zenon
<1> HIDE DEF k
<1> QED BY <1>1, <1>2, <1>3, Zenon

\* A key that passed every check of pg_oauth_jwks_select.
LEMMA KeyPassed ==
    ASSUME NEW key, NEW algorithm, NEW p, key_error(key, algorithm, p) = "ok"
    PROVE  /\ key_algorithm(key) = algorithm
           /\ ~key.private
           /\ algorithm = "RS256" => key.n.bits \in p.minimum_rsa_bits .. p.maximum_rsa_bits
  BY Zenon DEF key_error, contains_private_key_material, valid_rsa_key

\* parse_names and thus parse_algorithms yield names that the list has.
LEMMA NamesListed ==
    ASSUME NEW x PROVE parse_algorithms(x) \subseteq Listed(x) \cap Algorithms
  BY Zenon DEF parse_algorithms, parse_names, Listed, Algorithms

\* Claims that pg_oauth_claims_validate accepts passed every check.
LEMMA ClaimsPassed ==
    ASSUME NEW payload, NEW p, pg_oauth_claims_validate(payload, p) = "ok"
    PROVE  /\ valid_policy(p)
           /\ json_string_equals(payload["iss"], p.issuer)
           /\ audience_matches(payload["aud"], p)
           /\ is_integer(payload["exp"]) /\ ~expired(payload["exp"].num, p)
           /\ \A c \in {"nbf", "iat"} :
                valid_date(payload[c]) /\ (payload[c] # Absent => ~early(payload[c].num, p))
           /\ validate_scopes(payload["scope"], p) = "ok"
           /\ p.role_claim # "" => validate_requested_role(payload[p.role_claim], p) = "ok"
  BY Zenon DEF pg_oauth_claims_validate

\* In any state with measured documents an accepted token was signed with the
\* only key published under its identifier.
LEMMA OneKeyWhenMeasured ==
    ASSUME Measured
    PROVE  AcceptedByOneKey
<1> SUFFICES ASSUME accepted PROVE OneKey /\ OneIssuer
  BY Zenon DEF AcceptedByOneKey
<1> DEFINE keys == jwks.keys.items
           kid == token.header.kid.str
           alg == parse_algorithm(token.header.alg)
<1>1. /\ pg_oauth_jwt_envelope_parse(token, envelope_policy(config)) = "ok"
      /\ issuer_key = Yes /\ signature_verify
      /\ pg_oauth_claims_validate(token.payload.claims,
                claims_policy(config, hba, role, now)) = "ok"
  BY AllStages, Zenon
<1>2. /\ pg_oauth_metadata_parse(metadata, hba.issuer, metadata_policy(config)) = "ok"
      /\ host_allowed(metadata.jwks_uri.str)
      /\ pg_oauth_jwks_select(jwks, kid, alg, jwks_policy(config)) = "ok"
  BY <1>1, KeyRetrieved, Zenon
<1>3. OneIssuer
  <2>1. is_string(metadata.issuer) /\ metadata.issuer.str = hba.issuer
    BY <1>2, Zenon DEF pg_oauth_metadata_parse
  <2>2. json_string_equals(Claim("iss"), hba.issuer)
    <3>1. json_string_equals(token.payload.claims["iss"],
                claims_policy(config, hba, role, now).issuer)
      BY <1>1, ClaimsPassed, Zenon
    <3>2. claims_policy(config, hba, role, now).issuer = hba.issuer
      <4>1. ClaimsFields(claims_policy(config, hba, role, now), config, hba, role, now)
        BY ClaimsPolicyIs, Zenon
      <4> QED BY <4>1, Zenon DEF ClaimsFields
    <3> QED BY <3>1, <3>2, Zenon DEF Claim
  <2> QED BY <1>2, <2>1, <2>2, Zenon DEF OneIssuer, json_string_equals
<1>4. OneKey
  <2>1. /\ is_array(jwks.keys) /\ Len(keys) \in Nat
        /\ alg \in jwks_policy(config).allowed_algorithms
        /\ \A i \in 1 .. Len(keys) : ~stops(keys, i, kid, jwks_policy(config))
        /\ \E i \in 1 .. Len(keys) : matches(keys[i], kid)
        /\ key_error(candidate(keys, kid), alg, jwks_policy(config)) = "ok"
    BY <1>2, Selected, Zenon DEF Measured
  <2> HIDE DEF keys, kid, alg
  <2>2. PICK i \in 1 .. Len(keys) :
                /\ candidate(keys, kid) = keys[i]
                /\ matches(keys[i], kid)
                /\ \A j \in 1 .. Len(keys) : matches(keys[j], kid) => j = i
    BY <2>1, OnlyMatch, Zenon
  <2>3. \A j \in 1 .. Len(keys) : json_string_equals(keys[j].kid, kid) <=> j = i
    BY <2>1, <2>2, Zenon DEF matches, stops
  <2>4. /\ key_algorithm(keys[i]) = alg /\ ~keys[i].private
        /\ alg = "RS256" => keys[i].n.bits \in jwks_policy(config).minimum_rsa_bits ..
                                               jwks_policy(config).maximum_rsa_bits
    <3>1. key_error(keys[i], alg, jwks_policy(config)) = "ok"
      BY <2>1, <2>2, Zenon
    <3> HIDE DEF keys
    <3> QED BY <3>1, KeyPassed, Zenon
  <2>8. alg = "RS256" => keys[i].n.bits \in RsaBits
    <3>1. jwks_policy(config).minimum_rsa_bits = 2048
      BY JwksPolicyIs, SMT DEF JwksLimits
    <3>2. jwks_policy(config).maximum_rsa_bits = 8192
      BY JwksPolicyIs, SMT DEF JwksLimits
    <3> DEFINE lo == jwks_policy(config).minimum_rsa_bits
               hi == jwks_policy(config).maximum_rsa_bits
    <3>3. alg = "RS256" => keys[i].n.bits \in lo .. hi
      BY <2>4, Zenon
    <3>4. lo = 2048 /\ hi = 8192
      BY <3>1, <3>2
    <3> HIDE DEF lo, hi
    <3>5. lo .. hi = RsaBits
      BY <3>4, SMT DEF RsaBits
    <3> QED BY <3>3, <3>5, Zenon
  <2>5. token.signer = keys[i].material
    BY <1>1, <2>2, Zenon DEF signature_verify, selected, keys, kid
  <2>6. alg \in Listed(config.allowed_algorithms) /\ alg \in Algorithms
    BY <2>1, NamesListed DEF jwks_policy
  <2>7. keys[i].alg.str = alg /\ token.header.alg.str = alg
    <3>1. alg # "none"
      BY <2>6, Zenon DEF Algorithms
    <3>2. token.header.alg.str = alg
      BY <3>1, Zenon DEF parse_algorithm, alg
    <3>3. keys[i].alg.str = alg
      BY <2>4, <3>1, Zenon DEF key_algorithm, is_string
    <3> QED BY <3>2, <3>3, Zenon
  <2>9. /\ \A j \in 1 .. Len(keys) : json_string_equals(keys[j].kid, kid) <=> j = i
        /\ token.signer = keys[i].material /\ ~keys[i].private
        /\ keys[i].alg.str = token.header.alg.str
        /\ keys[i].alg.str \in Listed(config.allowed_algorithms)
        /\ keys[i].alg.str = "RS256" => keys[i].n.bits \in RsaBits
    BY <2>3, <2>4, <2>5, <2>6, <2>7, <2>8, Zenon
  <2> QED BY <2>9, Zenon DEF OneKey, keys, kid
<1> QED BY <1>3, <1>4, Zenon

\* An accepted token was signed with the only key that its issuer publishes
\* under its identifier; that key is public, large enough, and of the token's
\* algorithm, which the setting allows.  So no mixture of documents, policies
\* and headers makes pg_oauth_validate_token accept a token by another key.
THEOREM OneKeyDecides == Spec => []AcceptedByOneKey
  BY OneKeyWhenMeasured, ShapeMeasures, DecisionShape, PTL

\* The skews that pg_oauth_policy_build accepts are not negative.
LEMMA SkewIsNatural == \A n \in 0 .. MaxClockSkew : n \in Nat
<1>1. MaxClockSkew \in Int
  BY SMT DEF MaxClockSkew
<1> QED BY <1>1, SMT

\* What pg_oauth_policy_build has checked where the claims depend on it.
LEMMA PolicyPassed ==
    ASSUME NEW c, NEW h, pg_oauth_policy_build(c, h) = "ok"
    PROVE  /\ h.delegate_ident_mapping => c.role_claim # ""
           /\ c.clock_skew_ms \in Nat
<1>1. c.clock_skew_ms \in 0 .. MaxClockSkew /\ (h.delegate_ident_mapping => c.role_claim # "")
  BY Zenon DEF pg_oauth_policy_build
<1> QED BY <1>1, SkewIsNatural, Zenon

\* The comparisons of pg_oauth_claims_validate with differences, so written that
\* none overflows, are those of a window extended by the skew at both ends.
LEMMA Window ==
    ASSUME NEW t \in Int, NEW p, p.current_time \in Nat, p.clock_skew_seconds \in Nat
    PROVE  /\ ~expired(t, p) => t + p.clock_skew_seconds > p.current_time
           /\ ~early(t, p) => t <= p.current_time + p.clock_skew_seconds
  BY SMT DEF expired, early

\* audience_matches finds one audience of the token among the configured ones.
LEMMA AudienceFound ==
    ASSUME NEW aud, NEW p, audience_matches(aud, p)
    PROVE  Texts(aud) \cap Listed(p.audiences) # {}
<1>1. ASSUME NEW x, configured_audience_matches(x, p) PROVE x \in Listed(p.audiences)
  BY <1>1, Zenon DEF configured_audience_matches, Listed
<1>2. CASE is_string(aud) /\ configured_audience_matches(aud.str, p)
  BY <1>1, <1>2, Zenon DEF Texts
<1>3. CASE /\ is_array(aud)
           /\ \E i \in 1 .. Len(aud.items) : configured_audience_matches(aud.items[i].str, p)
  <2>1. ~is_string(aud)
    BY <1>3, Zenon DEF is_string, is_array
  <2> QED BY <1>1, <1>3, <2>1, Zenon DEF Texts
<1> QED BY <1>2, <1>3, Zenon DEF audience_matches

\* validate_scopes finds every required scope among the token's.
LEMMA ScopesFound ==
    ASSUME NEW scope, NEW p, validate_scopes(scope, p) = "ok",
           is_array(scope) => Len(scope.items) \in Nat
    PROVE  \A i \in 1 .. Len(Words[p.required_scopes]) :
                Words[p.required_scopes][i] \in Scopes(scope)
<1>1. \A i \in 1 .. Len(Words[p.required_scopes]) :
            Words[p.required_scopes][i] \in scope_tokens(scope, p) \cap ScopeToken
  BY Zenon DEF validate_scopes, scopes_error
<1>2. is_string(scope) \/ is_array(scope)
  BY Zenon DEF validate_scopes, scopes_error
<1>3. CASE is_string(scope)
  <2>1. scope_tokens(scope, p) \subseteq Scopes(scope)
    BY <1>3, Zenon DEF scope_tokens, Scopes
  <2> QED BY <1>1, <2>1, Zenon
<1>4. CASE ~is_string(scope)
  <2>1. ASSUME NEW x \in scope_tokens(scope, p), x \in ScopeToken
        PROVE  x \in Scopes(scope)
    <3> DEFINE words == [i \in 1 .. Len(scope.items) |->
                            IF is_string(scope.items[i]) THEN scope.items[i].str ELSE ""]
    <3>3. Len(words) = Len(scope.items)
      BY <1>2, <1>4
    <3>4. x \in {words[i] : i \in 1 .. Len(words)}
      BY <1>4, <2>1, Zenon DEF scope_tokens
    <3>1. PICK i \in 1 .. Len(scope.items) :
                x = IF is_string(scope.items[i]) THEN scope.items[i].str ELSE ""
      BY <3>3, <3>4, Zenon
    <3>2. x = scope.items[i].str
      BY <2>1, <3>1, ScopeAssumption, Zenon
    <3> QED BY <1>4, <3>1, <3>2, Zenon DEF Scopes, Texts
  <2> QED BY <1>1, <2>1, Zenon
<1> QED BY <1>3, <1>4, Zenon

\* validate_requested_role finds the role among the token's.
LEMMA RoleFound ==
    ASSUME NEW roles, NEW p, p.role_claim # "", validate_requested_role(roles, p) = "ok"
    PROVE  p.requested_role \in Texts(roles)
  BY Zenon DEF validate_requested_role, Texts

\* In any state with measured documents an accepted token covers the connection.
LEMMA EntitledWhenMeasured ==
    ASSUME Measured
    PROVE  AcceptedIsEntitled
<1> SUFFICES ASSUME accepted PROVE InWindow /\ Entitled
  BY Zenon DEF AcceptedIsEntitled
<1> DEFINE p == claims_policy(config, hba, role, now)
<1>1. /\ pg_oauth_policy_build(config, hba) = "ok"
      /\ pg_oauth_claims_validate(token.payload.claims, p) = "ok"
  BY AllStages, Zenon
<1>2. config.clock_skew_ms \in Nat
  BY <1>1, PolicyPassed, Zenon
<1>3. /\ p.current_time = now /\ p.clock_skew_seconds = skew
      /\ p.audiences = config.audiences /\ p.required_scopes = hba.required_scopes
      /\ p.role_claim = config.role_claim /\ p.requested_role = role
  <2>1. skew = SkewSeconds(config)
    BY Zenon DEF skew, SkewSeconds
  <2>2. ClaimsFields(p, config, hba, role, now)
    BY ClaimsPolicyIs, Zenon
  <2> QED BY <2>1, <2>2, Zenon DEF ClaimsFields
<1> HIDE DEF p
<1>4. skew \in Nat /\ now \in Nat
  <2>1. \A n \in Nat : n \div 1000 \in Nat
    BY SMT
  <2> QED BY <1>2, <2>1, SMT DEF skew, Measured
<1>5. /\ audience_matches(Claim("aud"), p)
      /\ is_integer(Claim("exp")) /\ ~expired(Claim("exp").num, p)
      /\ \A c \in {"nbf", "iat"} :
            valid_date(Claim(c)) /\ (Claim(c) # Absent => ~early(Claim(c).num, p))
      /\ validate_scopes(Claim("scope"), p) = "ok"
      /\ p.role_claim # "" => validate_requested_role(Claim(p.role_claim), p) = "ok"
  BY <1>1, ClaimsPassed, Zenon DEF Claim
<1>6. InWindow
  <2>1. Claim("exp").num + skew > now
    <3>1. Claim("exp").num \in Int
      BY <1>5, Zenon DEF Measured
    <3> QED BY <1>3, <1>4, <1>5, <3>1, Window, Zenon
  <2>2. ASSUME NEW c \in {"nbf", "iat"}, Claim(c) # Absent
        PROVE  Claim(c).num <= now + skew
    <3>1. Claim(c).num \in Int
      BY <1>5, <2>2, Zenon DEF Measured, valid_date
    <3> QED BY <1>3, <1>4, <1>5, <2>2, <3>1, Window, Zenon
  <2> QED BY <2>1, <2>2, Zenon DEF InWindow
<1>7. Entitled
  <2>1. Texts(Claim("aud")) \cap Listed(config.audiences) # {}
    BY <1>3, <1>5, AudienceFound, Zenon
  <2>2. \A i \in 1 .. Len(Words[hba.required_scopes]) :
            Words[hba.required_scopes][i] \in Scopes(Claim("scope"))
    BY <1>3, <1>5, ScopesFound, Zenon DEF Measured
  <2>3. hba.delegate_ident_mapping => role \in Texts(Claim(config.role_claim))
    <3>1. hba.delegate_ident_mapping => config.role_claim # ""
      BY <1>1, PolicyPassed, Zenon
    <3> QED BY <3>1, <1>3, <1>5, RoleFound, Zenon
  <2> QED BY <2>1, <2>2, <2>3, Zenon DEF Entitled
<1> QED BY <1>6, <1>7, Zenon

\* An accepted token is within its lifetime, and its audience, scopes and roles
\* cover the connection, for every setting, rule, role and moment.
THEOREM EntitlementDecides == Spec => []AcceptedIsEntitled
  BY EntitledWhenMeasured, ShapeMeasures, DecisionShape, PTL

\* Only the claims can make a token expire: no other stage reports it.
LEMMA NoOtherExpiry ==
    /\ \A c, h : pg_oauth_policy_build(c, h) # "expired"
    /\ \A t, p : pg_oauth_jwt_envelope_parse(t, p) # "expired"
    /\ \A d, i, p : pg_oauth_metadata_parse(d, i, p) # "expired"
    /\ \A d, k, a, p : pg_oauth_jwks_select(d, k, a, p) # "expired"
<1>1. ASSUME NEW c, NEW h PROVE pg_oauth_policy_build(c, h) # "expired"
  BY Zenon DEF pg_oauth_policy_build
<1>2. ASSUME NEW t, NEW p PROVE pg_oauth_jwt_envelope_parse(t, p) # "expired"
  BY Zenon DEF pg_oauth_jwt_envelope_parse, decode_json_object
<1>3. ASSUME NEW d, NEW i, NEW p PROVE pg_oauth_metadata_parse(d, i, p) # "expired"
  BY Zenon DEF pg_oauth_metadata_parse, validate_url
<1>4. ASSUME NEW d, NEW k, NEW a, NEW p PROVE pg_oauth_jwks_select(d, k, a, p) # "expired"
  <2>1. /\ \A s, S : stop_error(s, S, p) # "expired"
        /\ \A key : key_error(key, a, p) # "expired"
    BY Zenon DEF stop_error, key_error
  <2> QED BY <2>1, Zenon DEF pg_oauth_jwks_select
<1> QED BY <1>1, <1>2, <1>3, <1>4, Zenon

\* Claims policies that differ in the time only.
SameButTime(p, q) ==
    /\ q.issuer = p.issuer /\ q.audiences = p.audiences /\ q.required_scopes = p.required_scopes
    /\ q.identity_claim = p.identity_claim /\ q.role_claim = p.role_claim
    /\ q.requested_role = p.requested_role /\ q.clock_skew_seconds = p.clock_skew_seconds
    /\ q.max_identity_size = p.max_identity_size /\ q.max_subject_size = p.max_subject_size
    /\ q.max_audiences = p.max_audiences /\ q.max_scopes = p.max_scopes
    /\ q.max_roles = p.max_roles /\ q.max_role_size = p.max_role_size

\* validate_scopes depends on two members of the policy.
LEMMA ScopesDepend ==
    ASSUME NEW p, NEW q, q.required_scopes = p.required_scopes, q.max_scopes = p.max_scopes
    PROVE  \A x : validate_scopes(x, q) = validate_scopes(x, p)
<1>1. \A x : scope_tokens(x, q) = scope_tokens(x, p)
  BY SMT DEF scope_tokens
<1> QED BY <1>1, Zenon DEF validate_scopes

\* validate_requested_role depends on four.
LEMMA RoleDepends ==
    ASSUME NEW p, NEW q, q.role_claim = p.role_claim, q.requested_role = p.requested_role,
           q.max_roles = p.max_roles, q.max_role_size = p.max_role_size
    PROVE  \A x : validate_requested_role(x, q) = validate_requested_role(x, p)
  BY Zenon DEF validate_requested_role

\* No check of claims.c but those of exp, nbf and iat looks at the time.
LEMMA TimelessChecks ==
    ASSUME NEW p, NEW q, SameButTime(p, q)
    PROVE  /\ \A x : audience_matches(x, q) <=> audience_matches(x, p)
           /\ \A x : validate_scopes(x, q) = validate_scopes(x, p)
           /\ \A x : validate_requested_role(x, q) = validate_requested_role(x, p)
<1>1. \A x : configured_audience_matches(x, q) <=> configured_audience_matches(x, p)
  BY DEF SameButTime, configured_audience_matches
<1>2. \A x : audience_matches(x, q) <=> audience_matches(x, p)
  BY <1>1, Zenon DEF SameButTime, audience_matches
<1>3. \A x : validate_scopes(x, q) = validate_scopes(x, p)
  BY ScopesDepend, Zenon DEF SameButTime
<1>4. \A x : validate_requested_role(x, q) = validate_requested_role(x, p)
  BY RoleDepends, Zenon DEF SameButTime
<1> QED BY <1>2, <1>3, <1>4, Zenon

\* A moment later a token may have expired but has not become early.
LEMMA WindowMoves ==
    ASSUME NEW t \in Int, NEW p, NEW q, p.current_time \in Nat, p.clock_skew_seconds \in Nat,
           q.current_time = p.current_time + 1, q.clock_skew_seconds = p.clock_skew_seconds
    PROVE  /\ expired(t, p) => expired(t, q)
           /\ early(t, q) => early(t, p)
  BY SMT DEF expired, early

\* The verdict of pg_oauth_claims_validate a moment later: what had expired still
\* has, and what was valid is valid or has expired.
LEMMA LaterClaims ==
    ASSUME NEW payload, NEW p, NEW q, SameButTime(p, q),
           p.current_time \in Nat, p.clock_skew_seconds \in Nat,
           q.current_time = p.current_time + 1,
           \A c \in {"exp", "nbf", "iat"} : is_integer(payload[c]) => payload[c].num \in Int
    PROVE  /\ pg_oauth_claims_validate(payload, p) = "expired" =>
                pg_oauth_claims_validate(payload, q) = "expired"
           /\ pg_oauth_claims_validate(payload, p) = "ok" =>
                pg_oauth_claims_validate(payload, q) \in {"ok", "expired"}
<1>1. valid_policy(p) => valid_policy(q)
  <2> SUFFICES ASSUME valid_policy(p) PROVE valid_policy(q)
    OBVIOUS
  <2>1. q.current_time >= 0
    OBVIOUS
  <2>2. "" \notin {q.issuer, q.audiences, q.required_scopes, q.identity_claim}
    BY ZenonT(60) DEF valid_policy, SameButTime
  <2>3. q.clock_skew_seconds <= 300 /\ q.max_identity_size > 0
    BY ZenonT(60) DEF valid_policy, SameButTime
  <2>4. q.role_claim # "" =>
            /\ q.requested_role # ""
            /\ q.max_roles \in 1 .. 256 /\ q.max_role_size > 0
    BY ZenonT(60) DEF valid_policy, SameButTime
  <2>5. /\ q.max_subject_size = p.max_subject_size
        /\ q.max_audiences = p.max_audiences /\ q.max_scopes = p.max_scopes
    BY Zenon DEF SameButTime
  <2>6. q.max_subject_size \in 1 .. 1024
    <3>1. p.max_subject_size \in 1 .. 1024
      BY ZenonT(60) DEF valid_policy
    <3> QED BY <2>5, <3>1, ZenonT(60)
  <2>7. q.max_audiences \in 1 .. 64
    <3>1. p.max_audiences \in 1 .. 64
      BY ZenonT(60) DEF valid_policy
    <3> QED BY <2>5, <3>1, Zenon
  <2>8. q.max_scopes \in 1 .. 256
    <3>1. p.max_scopes \in 1 .. 256
      BY ZenonT(60) DEF valid_policy
    <3> QED BY <2>5, <3>1, Zenon
  <2> QED BY <2>1, <2>2, <2>3, <2>4, <2>6, <2>7, <2>8, ZenonT(60) DEF valid_policy
<1>2. /\ q.issuer = p.issuer /\ q.identity_claim = p.identity_claim
      /\ q.role_claim = p.role_claim /\ q.clock_skew_seconds = p.clock_skew_seconds
      /\ q.max_subject_size = p.max_subject_size /\ q.max_identity_size = p.max_identity_size
  BY Zenon DEF SameButTime
<1>3. /\ \A x : audience_matches(x, q) <=> audience_matches(x, p)
      /\ \A x : validate_scopes(x, q) = validate_scopes(x, p)
      /\ \A x : validate_requested_role(x, q) = validate_requested_role(x, p)
  BY TimelessChecks, Zenon
<1>4. ASSUME NEW c \in {"exp", "nbf", "iat"}, is_integer(payload[c])
      PROVE  /\ expired(payload[c].num, p) => expired(payload[c].num, q)
             /\ early(payload[c].num, q) => early(payload[c].num, p)
  <2>1. payload[c].num \in Int
    BY <1>4, Zenon
  <2> QED BY <1>2, <2>1, WindowMoves, Zenon
<1>5. ASSUME pg_oauth_claims_validate(payload, p) = "expired"
      PROVE  pg_oauth_claims_validate(payload, q) = "expired"
  <2>1. /\ valid_policy(p) /\ json_string_equals(payload["iss"], p.issuer)
        /\ audience_matches(payload["aud"], p) /\ payload["exp"] # Absent
        /\ is_integer(payload["exp"]) /\ ~(payload["exp"].num <= 0)
        /\ expired(payload["exp"].num, p)
    <3>1. /\ \A x : validate_scopes(x, p) # "expired"
          /\ \A x : validate_requested_role(x, p) # "expired"
      BY Zenon DEF validate_scopes, scopes_error, validate_requested_role
    <3> QED BY <1>5, <3>1, Zenon DEF pg_oauth_claims_validate
  <2>2. expired(payload["exp"].num, q)
    BY <1>4, <2>1, Zenon
  <2>3. audience_matches(payload["aud"], q) /\ json_string_equals(payload["iss"], q.issuer)
    BY <1>2, <1>3, <2>1, Zenon
  <2> QED BY <1>1, <2>1, <2>2, <2>3, Zenon DEF pg_oauth_claims_validate
<1>6. ASSUME pg_oauth_claims_validate(payload, p) = "ok"
      PROVE  pg_oauth_claims_validate(payload, q) \in {"ok", "expired"}
  <2>1. /\ valid_policy(p) /\ json_string_equals(payload["iss"], p.issuer)
        /\ audience_matches(payload["aud"], p) /\ payload["exp"] # Absent
        /\ is_integer(payload["exp"]) /\ ~(payload["exp"].num <= 0)
        /\ valid_date(payload["nbf"]) /\ valid_date(payload["iat"])
        /\ valid_identity_string(payload["sub"], p.max_subject_size)
        /\ valid_identity_string(payload[p.identity_claim], p.max_identity_size)
        /\ validate_scopes(payload["scope"], p) = "ok"
        /\ p.role_claim # "" => validate_requested_role(payload[p.role_claim], p) = "ok"
    BY <1>6, Zenon DEF pg_oauth_claims_validate
  <2>4. \A c \in {"nbf", "iat"} : payload[c] # Absent => ~early(payload[c].num, p)
    BY <1>6, ClaimsPassed, Zenon
  <2>2. \A c \in {"nbf", "iat"} : payload[c] # Absent => ~early(payload[c].num, q)
    BY <1>4, <2>1, <2>4, Zenon DEF valid_date
  <2>3. /\ valid_policy(q) /\ json_string_equals(payload["iss"], q.issuer)
        /\ audience_matches(payload["aud"], q)
        /\ valid_identity_string(payload["sub"], q.max_subject_size)
        /\ valid_identity_string(payload[q.identity_claim], q.max_identity_size)
        /\ validate_scopes(payload["scope"], q) = "ok"
        /\ q.role_claim # "" => validate_requested_role(payload[q.role_claim], q) = "ok"
    BY <1>1, <1>2, <1>3, <2>1, Zenon
  <2> QED BY <2>1, <2>2, <2>3, Zenon DEF pg_oauth_claims_validate
<1> QED BY <1>5, <1>6, Zenon

\* Time passing does nothing to a decision but let the token mature or expire:
\* no other stage of pg_oauth_validate_token looks at the clock.
THEOREM OnlyExpiry == Spec => ClockOnlyExpires
<1> DEFINE A == now' > now =>
                    /\ verdict.error = "expired" => verdict' = verdict
                    /\ accepted /\ ~accepted' => verdict'.error = "expired"
<1>1. ASSUME Measured, [Next]_vars PROVE A
  <2> SUFFICES ASSUME now' > now PROVE A
    OBVIOUS
  <2>1. now' = now + 1 /\ UNCHANGED <<config, hba, role, metadata, jwks, token>>
    <3>1. now' # now
      <4>1. now \in Nat
        BY <1>1, Zenon DEF Measured
      <4> QED BY <4>1, SMT
    <3> QED
      BY <1>1, <3>1, Zenon DEF Next, vars, Tick, Reload, Reconnect, Reconfigure, Rotate, Reissue, Change
  <2> DEFINE claims(t) == pg_oauth_claims_validate(token.payload.claims,
                                claims_policy(config, hba, role, t))
             built == pg_oauth_policy_build(config, hba)
             envelope == pg_oauth_jwt_envelope_parse(token, envelope_policy(config))
             url == MetadataUrl[hba.issuer]
             refused == url = "" \/ parse_url(url, config.allow_insecure_http) # "ok"
             sized == token.size \in 1 .. config.max_token_size
             rest(x) == IF envelope # "ok" THEN No("envelope", envelope)
                        ELSE IF issuer_key # Yes THEN issuer_key
                        ELSE IF ~signature_verify THEN No("signature", "invalid")
                        ELSE IF x # "ok" THEN No("claims", x)
                        ELSE IF ~identity_build THEN No("identity", "invalid_subject")
                        ELSE Yes
             result(x) == IF built # "ok" THEN No("policy", built)
                          ELSE IF refused THEN No("internal", "metadata_url")
                          ELSE IF ~sized THEN No("token", "size")
                          ELSE rest(x)
  <2>2. issuer_key' = issuer_key
    BY <2>1, Zenon DEF issuer_key, host_allowed
  <2>3. (signature_verify' <=> signature_verify) /\ (identity_build' <=> identity_build)
    BY <2>1, Zenon DEF signature_verify, selected, identity_build
  <2>4. verdict = result(claims(now)) /\ verdict' = result(claims(now + 1))
    <3>1. verdict = result(claims(now))
      BY Zenon DEF verdict, pipeline
    <3>2. verdict' = result(claims(now + 1))
      BY <2>1, <2>2, <2>3, Zenon DEF verdict, pipeline
    <3> QED BY <3>1, <3>2, Zenon
  <2>5. built = "ok" => /\ claims(now) = "expired" => claims(now + 1) = "expired"
                        /\ claims(now) = "ok" => claims(now + 1) \in {"ok", "expired"}
    <3> SUFFICES ASSUME built = "ok"
                 PROVE  /\ claims(now) = "expired" => claims(now + 1) = "expired"
                        /\ claims(now) = "ok" => claims(now + 1) \in {"ok", "expired"}
      OBVIOUS
    <3> DEFINE p == claims_policy(config, hba, role, now)
               q == claims_policy(config, hba, role, now + 1)
    <3>1. SameButTime(p, q)
      <4>1. ClaimsFields(p, config, hba, role, now) /\ ClaimsFields(q, config, hba, role, now + 1)
        BY ClaimsPolicyIs, Zenon
      <4>2. ClaimsLimits(p) /\ ClaimsLimits(q)
        BY ClaimsPolicyIs, Zenon
      <4> HIDE DEF p, q
      <4> QED BY <4>1, <4>2, SMT DEF ClaimsFields, ClaimsLimits, SameButTime
    <3>2. p.current_time = now /\ q.current_time = now + 1 /\ p.clock_skew_seconds = skew
      <4>1. skew = SkewSeconds(config)
        BY Zenon DEF skew, SkewSeconds
      <4>2. ClaimsFields(p, config, hba, role, now) /\ ClaimsFields(q, config, hba, role, now + 1)
        BY ClaimsPolicyIs, Zenon
      <4> HIDE DEF p, q
      <4> QED BY <4>1, <4>2, Zenon DEF ClaimsFields
    <3>3. now \in Nat /\ skew \in Nat
      <4>1. now \in Nat
        BY <1>1, Zenon DEF Measured
      <4>2. config.clock_skew_ms \in Nat
        BY PolicyPassed, Zenon
      <4>3. \A n \in Nat : n \div 1000 \in Nat
        BY SMT
      <4> QED BY <4>1, <4>2, <4>3, SMT DEF skew
    <3>4. \A c \in {"exp", "nbf", "iat"} :
            is_integer(token.payload.claims[c]) => token.payload.claims[c].num \in Int
      BY <1>1, Zenon DEF Measured, Claim
    <3> HIDE DEF p, q
    <3>5. /\ pg_oauth_claims_validate(token.payload.claims, p) = "expired" =>
                pg_oauth_claims_validate(token.payload.claims, q) = "expired"
          /\ pg_oauth_claims_validate(token.payload.claims, p) = "ok" =>
                pg_oauth_claims_validate(token.payload.claims, q) \in {"ok", "expired"}
      BY <3>1, <3>2, <3>3, <3>4, LaterClaims, Zenon
    <3> QED BY <3>5, Zenon DEF p, q
  <2>6. issuer_key.error # "expired" /\ built # "expired" /\ envelope # "expired"
    BY NoOtherExpiry, Zenon DEF issuer_key, No, Yes
  <2> HIDE DEF claims, built, envelope, refused, sized
  <2>7. verdict.error = "expired" => verdict' = verdict
    BY <2>4, <2>5, <2>6, Zenon DEF No, Yes
  <2>8. accepted /\ ~accepted' => verdict'.error = "expired"
    BY <2>4, <2>5, Zenon DEF accepted, No, Yes
  <2> QED BY <2>7, <2>8, Zenon
<1>2. Spec => []Measured
  BY ShapeMeasures, DecisionShape, PTL
<1>3. Spec /\ []Measured => [][A]_vars
  BY <1>1, PTL DEF Spec
<1> QED BY <1>2, <1>3, Zenon DEF ClockOnlyExpires

-----------------------------------------------------------------------------
(* The policies of the stages                                              *)

\* What pg_oauth_policy_build has checked where the stages depend on it.
LEMMA PolicyBuilt ==
    ASSUME NEW c, NEW h, pg_oauth_policy_build(c, h) = "ok"
    PROVE  /\ h.issuer # "" /\ h.required_scopes # "" /\ c.audiences # ""
           /\ validate_audiences(c.audiences)
           /\ parse_algorithms(c.allowed_algorithms) # {}
           /\ parse_token_types(c.allowed_token_types) # {}
           /\ validate_claim_name(c.identity_claim)
           /\ h.delegate_ident_mapping <=> c.role_claim # ""
           /\ c.clock_skew_ms \in 0 .. MaxClockSkew /\ valid_token_size(c)
  BY Zenon DEF pg_oauth_policy_build

\* The clock skew in seconds is within the bounds of valid_policy.
SkewFits(c) == c.clock_skew_ms \div 1000 <= 300 /\ c.clock_skew_ms \div 1000 \in Nat

\* The sizes that the stages are given are those of valid_policy and of the
\* argument checks of the other stages.
LEMMA PolicySizes ==
    ASSUME NEW c, NEW h, pg_oauth_policy_build(c, h) = "ok"
    PROVE  /\ c.max_token_size \in Int /\ c.max_token_size # 0
           /\ SkewFits(c) /\ c.identity_claim # ""
<1>1. valid_token_size(c)
  BY PolicyBuilt, Zenon
<1>2. c.max_token_size \in Int /\ c.max_token_size # 0
  <2>1. MinTokenSize \in Int /\ MinTokenSize > 0 /\ MaxTokenSize \in Int
    BY SMT DEF MinTokenSize, MaxTokenSize
  <2>2. c.max_token_size \in MinTokenSize .. MaxTokenSize
    BY <1>1, Zenon DEF valid_token_size
  <2> QED BY <2>1, <2>2, SMT
<1>3. \A n \in Int : 0 <= n /\ n <= 300000 => n \div 1000 <= 300 /\ n \div 1000 \in Nat
  BY SMT
<1>4. SkewFits(c)
  <2>1. c.clock_skew_ms \in 0 .. MaxClockSkew
    BY PolicyBuilt, Zenon
  <2>2. MaxClockSkew \in Int /\ MaxClockSkew <= 300000
    BY SMT DEF MaxClockSkew
  <2>3. /\ c.clock_skew_ms \in Int /\ 0 <= c.clock_skew_ms
        /\ c.clock_skew_ms <= MaxClockSkew
    BY <2>1, <2>2, SMT
  <2> QED BY <1>3, <2>2, <2>3, SMT DEF SkewFits
<1>5. Size[c.identity_claim] # 0
  <2>1. validate_claim_name(c.identity_claim)
    BY PolicyBuilt, Zenon
  <2> QED BY <2>1, SMT DEF validate_claim_name
<1>6. c.identity_claim # ""
  BY <1>5, SizeAssumption, Zenon
<1> QED BY <1>2, <1>4, <1>6, Zenon

\* A role is requested where one is to be found.
RoleGiven(h, r) == h.delegate_ident_mapping => r # ""

\* The claims policy is a valid one, unless a role is to be found and none is
\* requested.
LEMMA ClaimsPolicyValid ==
    ASSUME NEW c, NEW h, NEW r, NEW t \in Nat, pg_oauth_policy_build(c, h) = "ok",
           RoleGiven(h, r)
    PROVE  valid_policy(claims_policy(c, h, r, t))
<1> DEFINE p == claims_policy(c, h, r, t)
<1>1. /\ p.issuer = h.issuer /\ p.audiences = c.audiences
      /\ p.required_scopes = h.required_scopes /\ p.identity_claim = c.identity_claim
      /\ p.role_claim = c.role_claim /\ p.requested_role = r
      /\ p.current_time = t /\ p.clock_skew_seconds = SkewSeconds(c)
      /\ p.max_identity_size = NameDataLen - 1 /\ p.max_role_size = NameDataLen - 1
  <2>1. ClaimsFields(p, c, h, r, t)
    BY ClaimsPolicyIs, Zenon
  <2> QED BY <2>1, Zenon DEF ClaimsFields
<1>2. ClaimsLimits(p)
  BY ClaimsPolicyIs, Zenon
<1> HIDE DEF p
<1>3. p.current_time >= 0 /\ p.clock_skew_seconds <= 300
  <2>1. SkewFits(c)
    BY PolicySizes, Zenon
  <2> QED BY <1>1, <2>1, SMT DEF SkewFits, SkewSeconds
<1>4. p.max_identity_size > 0 /\ p.max_role_size > 0
  BY <1>1, PolicyAssumption, SMT
<1>5. /\ p.max_subject_size \in 1 .. 1024 /\ p.max_audiences \in 1 .. 64
      /\ p.max_scopes \in 1 .. 256 /\ p.max_roles \in 1 .. 256
  BY <1>2, SMT DEF ClaimsLimits
<1>6. "" \notin {p.issuer, p.audiences, p.required_scopes, p.identity_claim}
  <2>1. h.issuer # "" /\ h.required_scopes # "" /\ c.audiences # ""
    BY PolicyBuilt, Zenon
  <2>2. c.identity_claim # ""
    BY PolicySizes, Zenon
  <2>3. /\ p.issuer = h.issuer /\ p.audiences = c.audiences
        /\ p.required_scopes = h.required_scopes /\ p.identity_claim = c.identity_claim
    BY <1>1, Zenon
  <2> QED BY <2>1, <2>2, <2>3, Zenon
<1>7. p.role_claim # "" => p.requested_role # ""
  <2>1. h.delegate_ident_mapping <=> c.role_claim # ""
    BY PolicyBuilt, Zenon
  <2> QED BY <1>1, <2>1, Zenon DEF RoleGiven
<1>8. valid_policy(p)
  BY <1>3, <1>4, <1>5, <1>6, <1>7, ZenonT(60) DEF valid_policy
<1> QED BY <1>8, Zenon DEF p

\* Scopes fail for an invalid argument only by a required scope that is one too
\* many or malformed.
LEMMA ScopesArgument ==
    ASSUME NEW scope, NEW p, validate_scopes(scope, p) = "invalid_argument"
    PROVE  \E i \in 1 .. Len(Words[p.required_scopes]) :
                i > p.max_scopes \/ Words[p.required_scopes][i] \notin ScopeToken
  BY Zenon DEF validate_scopes, scopes_error

\* The metadata stage could not copy jwks_uri.
MemoryLacks == issuer_key.stage = "metadata" /\ ~metadata.memory

\* No stage before the claims fails for an invalid argument, except that the
\* metadata stage may lack memory.
LEMMA StagesFed ==
    ASSUME pg_oauth_policy_build(config, hba) = "ok"
    PROVE  /\ pg_oauth_jwt_envelope_parse(token, envelope_policy(config)) # "invalid_argument"
           /\ pg_oauth_jwt_envelope_parse(token, envelope_policy(config)) = "ok" =>
                (issuer_key.error = "invalid_argument" => MemoryLacks)
<1> DEFINE p == envelope_policy(config)
<1>1. /\ p.allowed_token_types = parse_token_types(config.allowed_token_types)
      /\ p.allowed_algorithms = parse_algorithms(config.allowed_algorithms)
      /\ p.max_token_size = config.max_token_size
      /\ p.max_payload_size = config.max_token_size
  BY EnvelopePolicyIs, Zenon DEF EnvelopeFields
<1>2. EnvelopeLimits(p)
  BY EnvelopePolicyIs, Zenon
<1> HIDE DEF p
<1>3. /\ p.allowed_token_types # {} /\ p.allowed_algorithms # {}
      /\ p.max_token_size # 0 /\ p.max_payload_size # 0
  <2>1. /\ parse_algorithms(config.allowed_algorithms) # {}
        /\ parse_token_types(config.allowed_token_types) # {}
    BY PolicyBuilt, Zenon
  <2>2. config.max_token_size # 0
    BY PolicySizes, Zenon
  <2> QED BY <1>1, <2>1, <2>2, Zenon
<1>4. p.max_header_size # 0
  BY <1>2, SMT DEF EnvelopeLimits
<1>5. pg_oauth_jwt_envelope_parse(token, p) # "invalid_argument"
  <2>1. ~invalid_limits(p)
    BY <1>3, <1>4, Zenon DEF invalid_limits
  <2> QED BY <2>1, Zenon DEF pg_oauth_jwt_envelope_parse, decode_json_object
<1>6. ASSUME pg_oauth_jwt_envelope_parse(token, p) = "ok"
      PROVE  issuer_key.error = "invalid_argument" => MemoryLacks
  <2>1. /\ parse_algorithm(token.header.alg) \in p.allowed_algorithms
        /\ clean_string(token.header.kid, MaxKeyId)
    BY <1>6, EnvelopePassed, Zenon
  <2> DEFINE q == jwks_policy(config)
             jwk == pg_oauth_jwks_select(jwks, token.header.kid.str,
                        parse_algorithm(token.header.alg), q)
  <2>2. q.max_jwks_size = MaxDocumentSize /\ q.allowed_algorithms = p.allowed_algorithms
    BY <1>1, JwksPolicyIs, Zenon DEF JwksFields
  <2>3. JwksLimits(q)
    BY JwksPolicyIs, Zenon
  <2> HIDE DEF q
  <2>4. /\ 0 \notin {q.max_jwks_size, q.max_keys, q.max_key_id_size}
        /\ ~invalid_rsa_bits(q)
    BY <2>2, <2>3, PolicyAssumption, SMT
       DEF JwksLimits, invalid_rsa_bits, MinimumRsaBits, MaximumRsaBits
  <2>5. clean_string(Str(token.header.kid.str), q.max_key_id_size)
    <3>1. /\ Size[token.header.kid.str] \in 1 .. MaxKeyId
          /\ token.header.kid.str \notin Control
      BY <2>1, Zenon DEF clean_string
    <3>a. /\ Size[token.header.kid.str] \in Int /\ 1 <= Size[token.header.kid.str]
          /\ Size[token.header.kid.str] <= MaxKeyId
      BY <3>1, EnvelopeAssumption, SMT
    <3>b. q.max_key_id_size \in Int /\ MaxKeyId <= q.max_key_id_size
      BY <2>3, EnvelopeAssumption, SMT DEF JwksLimits
    <3>2. Size[token.header.kid.str] \in 1 .. q.max_key_id_size
      BY <3>a, <3>b, EnvelopeAssumption, SMT
    <3>3. Str(token.header.kid.str).str = token.header.kid.str /\ is_string(Str(token.header.kid.str))
      BY Zenon DEF Str, is_string
    <3> QED BY <3>1, <3>2, <3>3, Zenon DEF clean_string
  <2>6. /\ \A s, S : stop_error(s, S, q) # "invalid_argument"
        /\ \A key, a : key_error(key, a, q) # "invalid_argument"
    BY Zenon DEF stop_error, key_error
  <2>7. parse_algorithm(token.header.alg) \in q.allowed_algorithms
    BY <2>1, <2>2, Zenon
  <2>8. jwk # "invalid_argument"
    <3>1. ~invalid_search(token.header.kid.str, parse_algorithm(token.header.alg), q)
      BY <2>4, <2>5, <2>7, Zenon DEF invalid_search
    <3> QED BY <2>6, <3>1, Zenon DEF pg_oauth_jwks_select
  <2>9. pg_oauth_metadata_parse(metadata, hba.issuer, metadata_policy(config)) = "invalid_argument" =>
            ~metadata.memory
    <3>1. metadata_policy(config).max_document_size # 0
      BY PolicyAssumption, Zenon DEF metadata_policy
    <3> QED BY <3>1, Zenon DEF pg_oauth_metadata_parse, validate_url
  <2> QED BY <2>8, <2>9, Zenon DEF issuer_key, MemoryLacks, No, Yes, q
<1> QED BY <1>5, <1>6, Zenon DEF p

\* The claims fail for an invalid argument only by what policy.c does not look at.
LEMMA ClaimsFed ==
    ASSUME NEW t \in Nat, Len(Words[hba.required_scopes]) \in Nat,
           pg_oauth_policy_build(config, hba) = "ok",
           pg_oauth_claims_validate(token.payload.claims,
                claims_policy(config, hba, role, t)) = "invalid_argument"
    PROVE  \/ \E i \in 1 .. Len(Words[hba.required_scopes]) :
                i > 64 \/ Words[hba.required_scopes][i] \notin ScopeToken
           \/ hba.delegate_ident_mapping /\ Size[role] \notin 1 .. NameDataLen - 1
<1> DEFINE p == claims_policy(config, hba, role, t)
           payload == token.payload.claims
<1>1. /\ p.required_scopes = hba.required_scopes /\ p.role_claim = config.role_claim
      /\ p.requested_role = role /\ p.max_role_size = NameDataLen - 1
  <2>1. ClaimsFields(p, config, hba, role, t)
    BY ClaimsPolicyIs, Zenon
  <2> QED BY <2>1, Zenon DEF ClaimsFields
<1>2. p.max_scopes = 64
  BY ClaimsPolicyIs, SMT DEF ClaimsLimits
<1>3. hba.delegate_ident_mapping <=> config.role_claim # ""
  BY PolicyBuilt, Zenon
<1>4. CASE ~RoleGiven(hba, role)
  <2>1. hba.delegate_ident_mapping /\ Size[role] = 0
    BY <1>4, SizeAssumption, Zenon DEF RoleGiven
  <2>2. Size[role] \notin 1 .. NameDataLen - 1
    BY <2>1, PolicyAssumption, SMT
  <2> QED BY <2>1, <2>2, Zenon
<1>5. CASE RoleGiven(hba, role)
  <2>1. valid_policy(p)
    BY <1>5, ClaimsPolicyValid, Zenon
  <2> HIDE DEF p
  <2>2. \/ validate_scopes(payload["scope"], p) = "invalid_argument"
        \/ /\ p.role_claim # ""
           /\ validate_requested_role(payload[p.role_claim], p) = "invalid_argument"
    <3>1. pg_oauth_claims_validate(payload, p) = "invalid_argument"
      BY Zenon DEF p
    <3> HIDE DEF payload
    <3> QED BY <2>1, <3>1, Zenon DEF pg_oauth_claims_validate
  <2>3. CASE validate_scopes(payload["scope"], p) = "invalid_argument"
    <3>1. \E i \in 1 .. Len(Words[p.required_scopes]) :
                i > p.max_scopes \/ Words[p.required_scopes][i] \notin ScopeToken
      BY <1>1, <2>3, ScopesArgument, Zenon
    <3> QED BY <1>1, <1>2, <3>1, Zenon
  <2>4. CASE /\ p.role_claim # ""
             /\ validate_requested_role(payload[p.role_claim], p) = "invalid_argument"
    <3>1. Size[p.requested_role] \notin 1 .. p.max_role_size
      BY <2>4, Zenon DEF validate_requested_role
    <3> QED BY <1>1, <1>3, <2>4, <3>1, Zenon
  <2> QED BY <2>2, <2>3, <2>4, Zenon
<1> QED BY <1>4, <1>5, Zenon

\* A policy that pg_oauth_policy_build accepts never makes a later stage fail for
\* an invalid argument, except for the scopes' form and the role's length, or for
\* memory.
THEOREM PolicyFeeds == Spec => []PolicyFeedsStages
<1>1. ASSUME ShapeOK PROVE PolicyFeedsStages
  <2> SUFFICES ASSUME verdict.error = "invalid_argument"
               PROVE  \/ verdict.stage = "metadata" /\ ~metadata.memory
                      \/ /\ verdict.stage = "claims"
                         /\ \/ \E i \in 1 .. Len(Words[hba.required_scopes]) :
                                  i > 64 \/ Words[hba.required_scopes][i] \notin ScopeToken
                            \/ hba.delegate_ident_mapping /\ Size[role] \notin 1 .. NameDataLen - 1
    BY Zenon DEF PolicyFeedsStages
  <2>1. now \in Nat /\ Len(Words[hba.required_scopes]) \in Nat
    BY <1>1, ShapeMeasures, Zenon DEF Measured
  <2> DEFINE claims == pg_oauth_claims_validate(token.payload.claims,
                            claims_policy(config, hba, role, now))
             built == pg_oauth_policy_build(config, hba)
             envelope == pg_oauth_jwt_envelope_parse(token, envelope_policy(config))
  <2>2. built # "invalid_argument"
    BY Zenon DEF pg_oauth_policy_build
  <2>3. built = "ok" => /\ envelope # "invalid_argument"
                        /\ envelope = "ok" => (issuer_key.error = "invalid_argument" => MemoryLacks)
    BY StagesFed, Zenon
  <2>4. built = "ok" /\ claims = "invalid_argument" =>
            \/ \E i \in 1 .. Len(Words[hba.required_scopes]) :
                    i > 64 \/ Words[hba.required_scopes][i] \notin ScopeToken
            \/ hba.delegate_ident_mapping /\ Size[role] \notin 1 .. NameDataLen - 1
    BY <2>1, ClaimsFed, Zenon
  <2>5. \/ verdict = issuer_key /\ MemoryLacks
        \/ built = "ok" /\ claims = "invalid_argument" /\ verdict.stage = "claims"
    <3> HIDE DEF claims, built, envelope
    <3> QED BY <2>2, <2>3, Zenon DEF verdict, pipeline, No, Yes, claims, built, envelope
  <2> QED BY <2>4, <2>5, Zenon DEF MemoryLacks
<1> QED BY <1>1, DecisionShape, PTL

-----------------------------------------------------------------------------
(* Stricter and laxer settings                                             *)

\* A list that parse_names accepts stands for all the names in it.
LEMMA NamesAll ==
    ASSUME NEW x
    PROVE  /\ parse_algorithms(x) # {} => parse_algorithms(x) = Listed(x)
           /\ parse_token_types(x) # {} => parse_token_types(x) = Listed(x)
  BY Zenon DEF parse_algorithms, parse_token_types, parse_names, Listed

\* Both URL parsers accept more URLs with plain HTTP allowed.
LEMMA UrlsLaxer ==
    ASSUME NEW x, NEW a, NEW b, a => b
    PROVE  /\ parse_url(x, a) = "ok" => parse_url(x, b) = "ok"
           /\ \A issuer : validate_url(x, a, issuer) = "ok" => validate_url(x, b, issuer) = "ok"
  BY Zenon DEF parse_url, validate_url

\* What does not exceed a limit does not exceed a higher one.
LEMMA StillFits == \A x, m, n \in Int : ~(x > m) /\ m <= n => ~(x > n)
  BY SMT

\* The envelope of a token passes a laxer policy too.
LEMMA EnvelopeLaxer ==
    ASSUME NEW t, NEW p, NEW q, pg_oauth_jwt_envelope_parse(t, p) = "ok",
           p.allowed_algorithms \subseteq q.allowed_algorithms,
           p.allowed_token_types \subseteq q.allowed_token_types,
           p.allow_missing_token_type => q.allow_missing_token_type,
           p.max_token_size \in Int, q.max_token_size \in Int,
           p.max_token_size <= q.max_token_size, q.max_token_size # 0,
           p.max_payload_size = p.max_token_size, q.max_payload_size = q.max_token_size,
           q.max_header_size = p.max_header_size,
           t.size \in Int, t.payload.size \in Int
    PROVE  pg_oauth_jwt_envelope_parse(t, q) = "ok"
<1>1. /\ ~invalid_limits(p) /\ ~(t.size > p.max_token_size)
      /\ ~(t.header.size > p.max_header_size) /\ ~(t.payload.size > p.max_payload_size)
      /\ parse_algorithm(t.header.alg) \in p.allowed_algorithms /\ allowed_type(t.header.typ, p)
  BY EnvelopePassed, Zenon
<1>2. ~(t.size > q.max_token_size) /\ ~(t.payload.size > q.max_payload_size)
  BY <1>1, StillFits, Zenon
<1>3. allowed_type(t.header.typ, q)
  BY <1>1, Zenon DEF allowed_type
<1>4. parse_algorithm(t.header.alg) \in q.allowed_algorithms /\ ~invalid_limits(q)
  BY <1>1, Zenon DEF invalid_limits
<1>5. ~(t.header.size > q.max_header_size)
  BY <1>1, Zenon
<1> QED BY <1>2, <1>3, <1>4, <1>5, EnvelopePassed, Zenon

\* Metadata passes where plain HTTP is allowed too.
LEMMA MetadataLaxer ==
    ASSUME NEW doc, NEW issuer, NEW p, NEW q,
           pg_oauth_metadata_parse(doc, issuer, p) = "ok",
           p.allow_insecure_http => q.allow_insecure_http,
           q.max_document_size = p.max_document_size
    PROVE  pg_oauth_metadata_parse(doc, issuer, q) = "ok"
<1>1. \A x, i : validate_url(x, p.allow_insecure_http, i) = "ok" =>
            validate_url(x, q.allow_insecure_http, i) = "ok"
  BY UrlsLaxer, Zenon
<1> QED BY <1>1, Zenon DEF pg_oauth_metadata_parse

\* A key is selected with more algorithms allowed too, and the same one.
LEMMA SelectLaxer ==
    ASSUME NEW doc, NEW kid, NEW a, NEW p, NEW q, pg_oauth_jwks_select(doc, kid, a, p) = "ok",
           p.allowed_algorithms \subseteq q.allowed_algorithms,
           q.max_jwks_size = p.max_jwks_size, q.max_keys = p.max_keys,
           q.max_key_id_size = p.max_key_id_size,
           q.minimum_rsa_bits = p.minimum_rsa_bits, q.maximum_rsa_bits = p.maximum_rsa_bits
    PROVE  pg_oauth_jwks_select(doc, kid, a, q) = "ok"
<1>1. \A key : key_error(key, a, p) = "ok" => key_error(key, a, q) = "ok"
  BY Zenon DEF key_error, valid_rsa_key
<1>2. \A i : stops(doc.keys.items, i, kid, q) <=> stops(doc.keys.items, i, kid, p)
  BY Zenon DEF stops
<1>3. \A s, S : stop_error(s, S, p) # "ok"
  BY Zenon DEF stop_error
<1>4. a \in p.allowed_algorithms => a \in q.allowed_algorithms
  OBVIOUS
<1> DEFINE keys == doc.keys.items
<1>5. /\ ~invalid_search(kid, a, p) /\ doc.size # 0 /\ ~(doc.size > p.max_jwks_size) /\ doc.json
      /\ is_array(doc.keys) /\ doc.keys.items # <<>> /\ ~(Len(keys) > p.max_keys)
      /\ Stopping(keys, kid, p) = {}
      /\ \E i \in 1 .. Len(keys) : matches(keys[i], kid)
      /\ key_error(candidate(keys, kid), a, p) = "ok"
  BY <1>3, Zenon DEF pg_oauth_jwks_select
<1>6. ~invalid_search(kid, a, q)
  BY <1>4, <1>5, Zenon DEF invalid_search, invalid_rsa_bits
<1>7. Stopping(keys, kid, q) = {}
  BY <1>2, <1>5, Zenon DEF Stopping
<1>8. key_error(candidate(keys, kid), a, q) = "ok"
  BY <1>1, <1>5, Zenon
<1>9. ~(doc.size > q.max_jwks_size) /\ ~(Len(keys) > q.max_keys)
  BY <1>5, Zenon
<1> QED BY <1>5, <1>6, <1>7, <1>8, <1>9, Zenon DEF pg_oauth_jwks_select

\* Claims policies that differ in the audiences and the skew only.
SameButLax(p, q) ==
    /\ q.issuer = p.issuer /\ q.required_scopes = p.required_scopes
    /\ q.identity_claim = p.identity_claim /\ q.role_claim = p.role_claim
    /\ q.requested_role = p.requested_role /\ q.current_time = p.current_time
    /\ q.max_identity_size = p.max_identity_size /\ q.max_subject_size = p.max_subject_size
    /\ q.max_audiences = p.max_audiences /\ q.max_scopes = p.max_scopes
    /\ q.max_roles = p.max_roles /\ q.max_role_size = p.max_role_size

\* Claims pass with more audiences and a longer skew too.
LEMMA ClaimsLaxer ==
    ASSUME NEW payload, NEW p, NEW q, SameButLax(p, q), valid_policy(q),
           \A x : configured_audience_matches(x, p) => configured_audience_matches(x, q),
           p.current_time \in Int, p.clock_skew_seconds \in Int, q.clock_skew_seconds \in Int,
           p.clock_skew_seconds <= q.clock_skew_seconds,
           \A c \in {"exp", "nbf", "iat"} : is_integer(payload[c]) => payload[c].num \in Int,
           pg_oauth_claims_validate(payload, p) = "ok"
    PROVE  pg_oauth_claims_validate(payload, q) = "ok"
<1>1. /\ q.issuer = p.issuer /\ q.identity_claim = p.identity_claim
      /\ q.role_claim = p.role_claim /\ q.current_time = p.current_time
      /\ q.max_subject_size = p.max_subject_size /\ q.max_identity_size = p.max_identity_size
      /\ q.max_audiences = p.max_audiences
  BY Zenon DEF SameButLax
<1>2. /\ \A x : validate_scopes(x, q) = validate_scopes(x, p)
      /\ \A x : validate_requested_role(x, q) = validate_requested_role(x, p)
  BY ScopesDepend, RoleDepends, Zenon DEF SameButLax
<1>3. \A x : audience_matches(x, p) => audience_matches(x, q)
  BY <1>1, Zenon DEF audience_matches
<1>4. \A t \in Int : (expired(t, q) => expired(t, p)) /\ (early(t, q) => early(t, p))
  BY <1>1, SMT DEF expired, early
<1>5. /\ json_string_equals(payload["iss"], p.issuer)
      /\ audience_matches(payload["aud"], p) /\ payload["exp"] # Absent
      /\ is_integer(payload["exp"]) /\ ~(payload["exp"].num <= 0)
      /\ ~expired(payload["exp"].num, p)
      /\ valid_date(payload["nbf"]) /\ valid_date(payload["iat"])
      /\ payload["nbf"] # Absent => ~early(payload["nbf"].num, p)
      /\ payload["iat"] # Absent => ~early(payload["iat"].num, p)
      /\ valid_identity_string(payload["sub"], p.max_subject_size)
      /\ valid_identity_string(payload[p.identity_claim], p.max_identity_size)
      /\ validate_scopes(payload["scope"], p) = "ok"
      /\ p.role_claim # "" => validate_requested_role(payload[p.role_claim], p) = "ok"
  BY Zenon DEF pg_oauth_claims_validate
<1>6. ~expired(payload["exp"].num, q)
  BY <1>4, <1>5, Zenon
<1>7. /\ payload["nbf"] # Absent => ~early(payload["nbf"].num, q)
      /\ payload["iat"] # Absent => ~early(payload["iat"].num, q)
  BY <1>4, <1>5, Zenon DEF valid_date
<1>8. /\ json_string_equals(payload["iss"], q.issuer)
      /\ audience_matches(payload["aud"], q)
      /\ valid_identity_string(payload["sub"], q.max_subject_size)
      /\ valid_identity_string(payload[q.identity_claim], q.max_identity_size)
      /\ validate_scopes(payload["scope"], q) = "ok"
      /\ q.role_claim # "" => validate_requested_role(payload[q.role_claim], q) = "ok"
  BY <1>1, <1>2, <1>3, <1>5, Zenon
<1> QED BY <1>5, <1>6, <1>7, <1>8, Zenon DEF pg_oauth_claims_validate

\* The issuer has a metadata URL that the settings c allow.
UrlUsable(c) ==
    /\ MetadataUrl[hba.issuer] # ""
    /\ parse_url(MetadataUrl[hba.issuer], c.allow_insecure_http) = "ok"

\* Every stage of pg_oauth_validate_token passes with the settings c.
Accepts(c) ==
    /\ pg_oauth_policy_build(c, hba) = "ok" /\ UrlUsable(c)
    /\ token.size \in 1 .. c.max_token_size
    /\ pg_oauth_jwt_envelope_parse(token, envelope_policy(c)) = "ok"
    /\ metadata.served
    /\ pg_oauth_metadata_parse(metadata, hba.issuer, metadata_policy(c)) = "ok"
    /\ parse_url(metadata.jwks_uri.str, c.allow_insecure_http) = "ok"
    /\ \/ Host[metadata.jwks_uri.str] = Host[MetadataUrl[hba.issuer]]
       \/ Host[metadata.jwks_uri.str] \in ListedHosts(c.allowed_jwks_hosts)
    /\ jwks.served
    /\ pg_oauth_jwks_select(jwks, token.header.kid.str,
            parse_algorithm(token.header.alg), jwks_policy(c)) = "ok"
    /\ signature_verify
    /\ pg_oauth_claims_validate(token.payload.claims, claims_policy(c, hba, role, now)) = "ok"
    /\ valid_identity_string(token.payload.claims[c.identity_claim], NameDataLen - 1)

\* A token is accepted when every stage passes with the settings in force.
LEMMA AcceptedIs == accepted <=> Accepts(config)
<1>1. host_allowed(metadata.jwks_uri.str) <=>
        \/ Host[metadata.jwks_uri.str] = Host[MetadataUrl[hba.issuer]]
        \/ Host[metadata.jwks_uri.str] \in ListedHosts(config.allowed_jwks_hosts)
  BY Zenon DEF host_allowed, ListedHosts
<1>2. issuer_key = Yes <=>
        /\ metadata.served
        /\ pg_oauth_metadata_parse(metadata, hba.issuer, metadata_policy(config)) = "ok"
        /\ parse_url(metadata.jwks_uri.str, config.allow_insecure_http) = "ok"
        /\ host_allowed(metadata.jwks_uri.str)
        /\ jwks.served
        /\ pg_oauth_jwks_select(jwks, token.header.kid.str,
                parse_algorithm(token.header.alg), jwks_policy(config)) = "ok"
  BY Zenon DEF issuer_key, No, Yes
<1>3. pipeline = Yes <=>
        /\ pg_oauth_jwt_envelope_parse(token, envelope_policy(config)) = "ok"
        /\ issuer_key = Yes /\ signature_verify
        /\ pg_oauth_claims_validate(token.payload.claims,
                claims_policy(config, hba, role, now)) = "ok"
        /\ identity_build
  BY Zenon DEF pipeline, No, Yes
<1>4. accepted <=>
        /\ pg_oauth_policy_build(config, hba) = "ok" /\ UrlUsable(config)
        /\ token.size \in 1 .. config.max_token_size /\ pipeline = Yes
  <2>1. \A s, e : s # "ok" => No(s, e) # Yes
    BY Zenon DEF No, Yes
  <2> QED BY <2>1, Zenon DEF accepted, verdict, UrlUsable
<1> QED BY <1>1, <1>2, <1>3, <1>4, Zenon DEF Accepts, identity_build

\* A verdict of a later stage than the policy's means that there is a policy.
LEMMA StageIsLater == verdict.stage # "policy" => pg_oauth_policy_build(config, hba) = "ok"
<1>1. \A s, e : No(s, e).stage = s
  BY Zenon DEF No
<1> QED BY <1>1, Zenon DEF verdict

\* The same of the next state.
LEMMA NextAcceptedIs ==
    /\ (accepted <=> Accepts(config))'
    /\ (verdict.stage # "policy" => pg_oauth_policy_build(config, hba) = "ok")'
  BY AcceptedIs, StageIsLater, PTL

\* Every audience of a list that validate_audiences accepts matches.
LEMMA AudiencesLaxer ==
    ASSUME NEW p, NEW q, Listed(p.audiences) \subseteq Listed(q.audiences),
           validate_audiences(q.audiences), Len(Entries[q.audiences]) \in Nat,
           q.max_audiences = 16
    PROVE  \A x : configured_audience_matches(x, p) => configured_audience_matches(x, q)
<1> SUFFICES ASSUME NEW x, configured_audience_matches(x, p)
             PROVE  configured_audience_matches(x, q)
  OBVIOUS
<1>1. x \in Listed(q.audiences)
  BY Zenon DEF configured_audience_matches, Listed
<1>2. PICK i \in 1 .. Len(Entries[q.audiences]) : Entries[q.audiences][i] = x
  BY <1>1, Zenon DEF Listed
<1>3. i <= q.max_audiences /\ \A j \in 1 .. i : j \in 1 .. Len(Entries[q.audiences])
  <2>1. Len(Entries[q.audiences]) <= 16
    BY Zenon DEF validate_audiences
  <2> QED BY <2>1, SMT
<1>4. \A j \in 1 .. i : Entries[q.audiences][j] # ""
  BY <1>3, Zenon DEF validate_audiences
<1> QED BY <1>2, <1>3, <1>4, Zenon DEF configured_audience_matches

\* The claims policies of two settings with the same claims differ so.
LEMMA ClaimsPoliciesLaxer ==
    ASSUME NEW c, NEW d, c.identity_claim = d.identity_claim, c.role_claim = d.role_claim,
           NEW h, NEW r, NEW t
    PROVE  SameButLax(claims_policy(c, h, r, t), claims_policy(d, h, r, t))
<1> DEFINE p == claims_policy(c, h, r, t)
           q == claims_policy(d, h, r, t)
<1>1. ClaimsFields(p, c, h, r, t) /\ ClaimsFields(q, d, h, r, t)
  BY ClaimsPolicyIs, Zenon
<1>2. ClaimsLimits(p) /\ ClaimsLimits(q)
  BY ClaimsPolicyIs, Zenon
<1> HIDE DEF p, q
<1>3. SameButLax(p, q)
  BY <1>1, <1>2, SMT DEF ClaimsFields, ClaimsLimits, SameButLax
<1> QED BY <1>3, Zenon DEF p, q

\* A longer skew is no shorter in seconds.
LEMMA SkewLaxer == \A m, n \in Int : m <= n => /\ m \div 1000 <= n \div 1000
                                            /\ m \div 1000 \in Int /\ n \div 1000 \in Int
  BY SMT

\* A larger limit allows the sizes of a smaller one.
LEMMA SizeLaxer == \A x, m, n \in Int : x \in 1 .. m /\ m <= n => x \in 1 .. n
  BY SMT

\* Settings that allow more accept what stricter ones accept.
LEMMA AcceptsMore ==
    ASSUME NEW c, NEW d, Stricter(c, d), Accepts(c), pg_oauth_policy_build(d, hba) = "ok",
           Len(Entries[d.audiences]) \in Nat, c.clock_skew_ms \in Int,
           now \in Nat, token.size \in Int, token.payload.size \in Int,
           \A f \in {"exp", "nbf", "iat"} : is_integer(Claim(f)) => Claim(f).num \in Int
    PROVE  Accepts(d)
<1>1. /\ Listed(c.allowed_algorithms) \subseteq Listed(d.allowed_algorithms)
      /\ Listed(c.allowed_token_types) \subseteq Listed(d.allowed_token_types)
      /\ Listed(c.audiences) \subseteq Listed(d.audiences)
      /\ ListedHosts(c.allowed_jwks_hosts) \subseteq ListedHosts(d.allowed_jwks_hosts)
      /\ c.allow_missing_token_type => d.allow_missing_token_type
      /\ c.allow_insecure_http => d.allow_insecure_http
      /\ c.clock_skew_ms <= d.clock_skew_ms /\ c.max_token_size <= d.max_token_size
      /\ c.identity_claim = d.identity_claim /\ c.role_claim = d.role_claim
  BY Zenon DEF Stricter
<1>2. pg_oauth_policy_build(c, hba) = "ok"
  BY Zenon DEF Accepts
<1>3. /\ c.max_token_size \in Int /\ d.max_token_size \in Int /\ d.max_token_size # 0
      /\ SkewFits(c) /\ SkewFits(d)
  BY <1>2, PolicySizes, Zenon
<1>4. /\ parse_algorithms(c.allowed_algorithms) \subseteq parse_algorithms(d.allowed_algorithms)
      /\ parse_token_types(c.allowed_token_types) \subseteq parse_token_types(d.allowed_token_types)
  <2>1. /\ parse_algorithms(d.allowed_algorithms) # {} /\ parse_token_types(d.allowed_token_types) # {}
        /\ parse_algorithms(c.allowed_algorithms) # {} /\ parse_token_types(c.allowed_token_types) # {}
    BY <1>2, PolicyBuilt, Zenon
  <2> QED BY <1>1, <2>1, NamesAll, Zenon
<1>5. UrlUsable(d) /\ parse_url(metadata.jwks_uri.str, d.allow_insecure_http) = "ok"
  <2>1. \A x : parse_url(x, c.allow_insecure_http) = "ok" => parse_url(x, d.allow_insecure_http) = "ok"
    <3>1. c.allow_insecure_http => d.allow_insecure_http
      BY <1>1, Zenon
    <3> QED BY <3>1, Zenon DEF parse_url
  <2> QED BY <2>1, Zenon DEF Accepts, UrlUsable
<1>6. token.size \in 1 .. d.max_token_size
  <2>1. token.size \in 1 .. c.max_token_size
    BY Zenon DEF Accepts
  <2> QED BY <1>1, <1>3, <2>1, SizeLaxer, Zenon
<1>7. pg_oauth_jwt_envelope_parse(token, envelope_policy(d)) = "ok"
  <2> DEFINE p == envelope_policy(c)
             q == envelope_policy(d)
  <2>1. EnvelopeFields(p, c) /\ EnvelopeFields(q, d)
    BY EnvelopePolicyIs, Zenon
  <2>a. EnvelopeLimits(p) /\ EnvelopeLimits(q)
    BY EnvelopePolicyIs, Zenon
  <2>2. pg_oauth_jwt_envelope_parse(token, p) = "ok"
    BY Zenon DEF Accepts
  <2>3. /\ p.allowed_algorithms \subseteq q.allowed_algorithms
        /\ p.allowed_token_types \subseteq q.allowed_token_types
        /\ p.allow_missing_token_type => q.allow_missing_token_type
        /\ p.max_token_size \in Int /\ q.max_token_size \in Int
        /\ p.max_token_size <= q.max_token_size /\ q.max_token_size # 0
        /\ p.max_payload_size = p.max_token_size /\ q.max_payload_size = q.max_token_size
        /\ q.max_header_size = p.max_header_size
    <3> HIDE DEF p, q
    <3>1. q.max_header_size = p.max_header_size
      BY <2>a, SMT DEF EnvelopeLimits
    <3>2. p.allow_missing_token_type => q.allow_missing_token_type
      <4>1. /\ p.allow_missing_token_type = c.allow_missing_token_type
            /\ q.allow_missing_token_type = d.allow_missing_token_type
        BY <2>1, Zenon DEF EnvelopeFields
      <4> QED BY <1>1, <4>1, Zenon
    <3> QED BY <1>1, <1>3, <1>4, <2>1, <3>1, <3>2, Zenon DEF EnvelopeFields
  <2> HIDE DEF p, q
  <2>4. pg_oauth_jwt_envelope_parse(token, q) = "ok"
    BY <2>2, <2>3, EnvelopeLaxer, Zenon
  <2> QED BY <2>4, Zenon DEF q
<1>8. pg_oauth_metadata_parse(metadata, hba.issuer, metadata_policy(d)) = "ok"
  <2>1. /\ metadata_policy(d).max_document_size = metadata_policy(c).max_document_size
        /\ metadata_policy(c).allow_insecure_http => metadata_policy(d).allow_insecure_http
    BY <1>1, Zenon DEF metadata_policy
  <2>2. pg_oauth_metadata_parse(metadata, hba.issuer, metadata_policy(c)) = "ok"
    BY Zenon DEF Accepts
  <2> QED BY <2>1, <2>2, MetadataLaxer, Zenon
<1>9. pg_oauth_jwks_select(jwks, token.header.kid.str,
            parse_algorithm(token.header.alg), jwks_policy(d)) = "ok"
  <2> DEFINE p == jwks_policy(c)
             q == jwks_policy(d)
  <2>1. /\ p.allowed_algorithms = parse_algorithms(c.allowed_algorithms)
        /\ q.allowed_algorithms = parse_algorithms(d.allowed_algorithms)
        /\ q.max_jwks_size = p.max_jwks_size /\ q.max_keys = p.max_keys
        /\ q.max_key_id_size = p.max_key_id_size
        /\ q.minimum_rsa_bits = p.minimum_rsa_bits /\ q.maximum_rsa_bits = p.maximum_rsa_bits
    <3>1. JwksFields(p, c) /\ JwksFields(q, d) /\ JwksLimits(p) /\ JwksLimits(q)
      BY JwksPolicyIs, Zenon
    <3> HIDE DEF p, q
    <3>2. /\ q.max_keys = p.max_keys /\ q.max_key_id_size = p.max_key_id_size
          /\ q.minimum_rsa_bits = p.minimum_rsa_bits /\ q.maximum_rsa_bits = p.maximum_rsa_bits
      BY <3>1, SMT DEF JwksLimits
    <3> QED BY <3>1, <3>2, Zenon DEF JwksFields
  <2>2. pg_oauth_jwks_select(jwks, token.header.kid.str,
            parse_algorithm(token.header.alg), p) = "ok"
    BY Zenon DEF Accepts
  <2> HIDE DEF p, q
  <2>3. pg_oauth_jwks_select(jwks, token.header.kid.str,
            parse_algorithm(token.header.alg), q) = "ok"
    BY <1>4, <2>1, <2>2, SelectLaxer, Zenon
  <2> QED BY <2>3, Zenon DEF q
<1>10. pg_oauth_claims_validate(token.payload.claims, claims_policy(d, hba, role, now)) = "ok"
  <2> DEFINE p == claims_policy(c, hba, role, now)
             q == claims_policy(d, hba, role, now)
             payload == token.payload.claims
  <2>1. SameButLax(p, q)
    BY <1>1, ClaimsPoliciesLaxer, Zenon
  <2>2. /\ p.audiences = c.audiences /\ q.audiences = d.audiences
        /\ p.current_time = now /\ p.role_claim = c.role_claim /\ p.requested_role = role
        /\ p.clock_skew_seconds = SkewSeconds(c) /\ q.clock_skew_seconds = SkewSeconds(d)
    <3>1. ClaimsFields(p, c, hba, role, now) /\ ClaimsFields(q, d, hba, role, now)
      BY ClaimsPolicyIs, Zenon
    <3> HIDE DEF p, q
    <3> QED BY <3>1, Zenon DEF ClaimsFields
  <2>3. q.max_audiences = 16
    BY ClaimsPolicyIs, SMT DEF ClaimsLimits
  <2>4. pg_oauth_claims_validate(payload, p) = "ok"
    BY Zenon DEF Accepts
  <2>5. valid_policy(q)
    <3> HIDE DEF p
    <3>1. p.role_claim # "" => p.requested_role # ""
      BY <2>4, ZenonT(60) DEF pg_oauth_claims_validate, valid_policy
    <3>2. p.role_claim = c.role_claim /\ p.requested_role = role
      BY <2>2, Zenon
    <3>3. hba.delegate_ident_mapping <=> c.role_claim # ""
      BY <1>2, PolicyBuilt, Zenon
    <3>4. RoleGiven(hba, role)
      BY <3>1, <3>2, <3>3, Zenon DEF RoleGiven
    <3> QED BY <3>4, ClaimsPolicyValid, Zenon
  <2>6. \A x : configured_audience_matches(x, p) => configured_audience_matches(x, q)
    <3> HIDE DEF p, q
    <3>1. validate_audiences(d.audiences)
      BY PolicyBuilt, Zenon
    <3> QED BY <1>1, <2>2, <2>3, <3>1, AudiencesLaxer, Zenon
  <2>7. /\ p.clock_skew_seconds \in Int /\ q.clock_skew_seconds \in Int
        /\ p.clock_skew_seconds <= q.clock_skew_seconds
    <3>0. d.clock_skew_ms \in Nat
      BY PolicyPassed, Zenon
    <3>1. d.clock_skew_ms \in Int
      BY <3>0, SMT
    <3> HIDE DEF p, q
    <3>2. c.clock_skew_ms <= d.clock_skew_ms
      BY <1>1, Zenon
    <3>3. SkewSeconds(c) \in Int /\ SkewSeconds(d) \in Int /\ SkewSeconds(c) <= SkewSeconds(d)
      BY <3>1, <3>2, SkewLaxer DEF SkewSeconds
    <3> QED BY <2>2, <3>3, Zenon
  <2>8. \A f \in {"exp", "nbf", "iat"} : is_integer(payload[f]) => payload[f].num \in Int
    BY Zenon DEF Claim
  <2>9. p.current_time \in Int
    BY <2>2
  <2> HIDE DEF p, q, payload
  <2>10. pg_oauth_claims_validate(payload, q) = "ok"
    BY <2>1, <2>4, <2>5, <2>6, <2>7, <2>8, <2>9, ClaimsLaxer, Zenon
  <2> QED BY <2>10, Zenon DEF q, payload
<1>11. valid_identity_string(token.payload.claims[d.identity_claim], NameDataLen - 1)
  BY <1>1, Zenon DEF Accepts
<1>12. \/ Host[metadata.jwks_uri.str] = Host[MetadataUrl[hba.issuer]]
       \/ Host[metadata.jwks_uri.str] \in ListedHosts(d.allowed_jwks_hosts)
  BY <1>1, Zenon DEF Accepts
<1>13. metadata.served /\ jwks.served /\ signature_verify
  BY Zenon DEF Accepts
<1> QED BY <1>5, <1>6, <1>7, <1>8, <1>9, <1>10, <1>11, <1>12, <1>13, Zenon DEF Accepts

\* Of two settings that both make a policy, the stricter accepts no token that
\* the other refuses, whatever a reload of the settings changes.
THEOREM StricterAcceptsLess == Spec => PolicyMonotone
<1> DEFINE A == UNCHANGED <<hba, role, now, metadata, jwks, token>> /\ verdict.stage # "policy" =>
                    /\ Stricter(config', config) /\ accepted' => accepted
                    /\ Stricter(config, config') /\ verdict'.stage # "policy" /\ accepted => accepted'
<1>1. ASSUME ShapeOK, [Next]_vars PROVE A
  <2> SUFFICES ASSUME UNCHANGED <<hba, role, now, metadata, jwks, token>>,
                      verdict.stage # "policy"
               PROVE  /\ Stricter(config', config) /\ accepted' => accepted
                      /\ Stricter(config, config') /\ verdict'.stage # "policy" /\ accepted => accepted'
    OBVIOUS
  <2>1. pg_oauth_policy_build(config, hba) = "ok"
    BY StageIsLater, Zenon
  <2>2. verdict'.stage # "policy" => pg_oauth_policy_build(config', hba) = "ok"
    BY NextAcceptedIs, Zenon
  <2>3. accepted' <=> Accepts(config')
    <3>1. /\ signature_verify' <=> signature_verify
          /\ UrlUsable(config)' <=> UrlUsable(config')
      BY Zenon DEF UrlUsable, signature_verify, selected
    <3>2. Accepts(config)' <=> Accepts(config')
      BY <3>1, Zenon DEF Accepts
    <3> QED BY <3>2, NextAcceptedIs, Zenon
  <2>4. /\ now \in Nat /\ token.size \in Int /\ token.payload.size \in Int
        /\ \A f \in {"exp", "nbf", "iat"} : is_integer(Claim(f)) => Claim(f).num \in Int
        /\ Len(Entries[config.audiences]) \in Nat /\ config.clock_skew_ms \in Int
    BY <1>1, ShapeMeasures, Zenon DEF Measured
  <2>5. Len(Entries[config'.audiences]) \in Nat /\ config'.clock_skew_ms \in Int
    <3>1. ShapeOK'
      BY <1>1, ShapeStep, Zenon
    <3> QED BY <3>1, Zenon DEF ShapeOK, ConfigField
  <2>6. Stricter(config', config) /\ Accepts(config') => Accepts(config)
    BY <2>1, <2>4, <2>5, AcceptsMore, Zenon
  <2>7. Stricter(config, config') /\ Accepts(config) /\ pg_oauth_policy_build(config', hba) = "ok" =>
            Accepts(config')
    BY <2>4, <2>5, AcceptsMore, Zenon
  <2> QED BY <2>2, <2>3, <2>6, <2>7, AcceptedIs, Zenon
<1>2. Spec /\ []ShapeOK => [][A]_vars
  BY <1>1, PTL DEF Spec
<1> QED BY <1>2, DecisionShape, Zenon DEF PolicyMonotone

-----------------------------------------------------------------------------
(* What other keys do to a decision                                        *)

\* The positions of the keys with an identifier.
Positions(keys, kid) == {i \in 1 .. Len(keys) : json_string_equals(keys[i].kid, kid)}

\* More than one key has it.
Several(keys, kid) == \E i, j \in Positions(keys, kid) : i # j

\* No key of the list ends the search by its form.
WellNamed(keys, p) ==
    \A i \in 1 .. Len(keys) :
        keys[i].object /\ (keys[i].kid = Absent \/ valid_key_id(keys[i].kid, p.max_key_id_size))

\* An absent member is no string.
LEMMA AbsentIsNone == \A x : ~json_string_equals(Absent, x)
  BY Zenon DEF json_string_equals, is_string, Absent

\* Among keys of the right form only a second match ends the search, and the
\* search then reports a duplicate.
LEMMA OnlyDuplicates ==
    ASSUME NEW keys, Len(keys) \in Nat, NEW kid, NEW p, WellNamed(keys, p)
    PROVE  /\ Stopping(keys, kid, p) # {} <=> Several(keys, kid)
           /\ stop_error(keys, Stopping(keys, kid, p), p) = "duplicate_key_id"
<1>1. ASSUME NEW i \in 1 .. Len(keys)
      PROVE  /\ keys[i].object
             /\ ~(keys[i].kid # Absent /\ ~valid_key_id(keys[i].kid, p.max_key_id_size))
             /\ matches(keys[i], kid) <=> i \in Positions(keys, kid)
  BY Zenon DEF WellNamed, matches, Positions
<1>2. ASSUME NEW i \in 1 .. Len(keys)
      PROVE  stops(keys, i, kid, p) <=>
                i \in Positions(keys, kid) /\ \E j \in 1 .. i - 1 : j \in Positions(keys, kid)
  <2>1. \A j \in 1 .. i - 1 : j \in 1 .. Len(keys)
    BY SMT
  <2> QED BY <1>1, <2>1, Zenon DEF stops
<1>3. Positions(keys, kid) \subseteq 1 .. Len(keys)
  BY Zenon DEF Positions
<1>4. ASSUME NEW i \in Positions(keys, kid), NEW j \in Positions(keys, kid), i # j
      PROVE  Stopping(keys, kid, p) # {}
  <2>1. i \in 1 .. j - 1 \/ j \in 1 .. i - 1
    BY <1>3, <1>4, SMT
  <2> QED BY <1>2, <1>3, <1>4, <2>1, Zenon DEF Stopping
<1>5. ASSUME NEW i \in Stopping(keys, kid, p)
      PROVE  Several(keys, kid)
  <2>1. i \in 1 .. Len(keys) /\ i \in Positions(keys, kid)
    BY <1>2, <1>5, Zenon DEF Stopping
  <2>2. PICK j \in 1 .. i - 1 : j \in Positions(keys, kid)
    BY <1>2, <1>5, Zenon DEF Stopping
  <2>3. i # j
    BY <2>1, SMT
  <2> QED BY <2>1, <2>2, <2>3, Zenon DEF Several
<1>6. stop_error(keys, Stopping(keys, kid, p), p) = "duplicate_key_id"
  <2>1. ASSUME NEW i \in Stopping(keys, kid, p)
        PROVE  keys[i].object /\ valid_key_id(keys[i].kid, p.max_key_id_size)
    <3>1. i \in 1 .. Len(keys) /\ i \in Positions(keys, kid)
      BY <1>2, <2>1, Zenon DEF Stopping
    <3>2. keys[i].kid # Absent
      BY <3>1, AbsentIsNone, Zenon DEF Positions
    <3> QED BY <1>1, <3>1, <3>2, Zenon
  <2> QED BY <2>1, Zenon DEF stop_error
<1> QED BY <1>4, <1>5, <1>6, Zenon DEF Several

\* Lists of keys of the right form with the same keys of an identifier, in
\* whatever order, lead the search to the same end.
SameKeys(keys, others, kid) ==
    \E f \in Bijection(Positions(keys, kid), Positions(others, kid)) :
        \A i \in Positions(keys, kid) : others[f[i]] = keys[i]

\* The same number of keys is found: none, one or several.
LEMMA SameCount ==
    ASSUME NEW keys, NEW others, NEW kid, SameKeys(keys, others, kid)
    PROVE  /\ Several(keys, kid) <=> Several(others, kid)
           /\ (\E i \in Positions(keys, kid) : TRUE) <=> (\E i \in Positions(others, kid) : TRUE)
           /\ \A j \in Positions(others, kid) :
                    \E i \in Positions(keys, kid) : others[j] = keys[i]
<1> DEFINE S == Positions(keys, kid)
           T == Positions(others, kid)
<1>1. PICK f \in Bijection(S, T) : \A i \in S : others[f[i]] = keys[i]
  BY Zenon DEF SameKeys
<1> HIDE DEF S, T
<1>2. f \in [S -> T] /\ (\A a, b \in S : f[a] = f[b] => a = b) /\ \A t \in T : \E s \in S : f[s] = t
  BY <1>1, Zenon DEF Bijection, Injection, Surjection, IsInjective
<1>3. \A i \in S : f[i] \in T
  BY <1>2, Zenon
<1>4. ASSUME NEW i \in S, NEW j \in S, i # j PROVE \E a, b \in T : a # b
  <2>1. f[i] \in T /\ f[j] \in T
    BY <1>3, Zenon
  <2>2. f[i] # f[j]
    BY <1>2, <1>4, Zenon
  <2> QED BY <2>1, <2>2, Zenon
<1>5. ASSUME NEW i \in T, NEW j \in T, i # j PROVE \E a, b \in S : a # b
  <2>1. PICK a \in S : f[a] = i
    BY <1>2, Zenon
  <2>2. PICK b \in S : f[b] = j
    BY <1>2, Zenon
  <2> QED BY <1>5, <2>1, <2>2, Zenon
<1>6. (\E i \in S : TRUE) <=> (\E i \in T : TRUE)
  BY <1>2, <1>3, Zenon
<1>7. ASSUME NEW j \in T PROVE \E i \in S : others[j] = keys[i]
  <2>1. PICK a \in S : f[a] = j
    BY <1>2, Zenon
  <2> QED BY <1>1, <2>1, Zenon
<1> QED BY <1>4, <1>5, <1>6, <1>7, Zenon DEF S, T, Several

\* A document whose keys the search looks at one by one.
Searched(doc, p) ==
    /\ is_array(doc.keys) /\ Len(doc.keys.items) \in Nat
    /\ doc.keys.items # <<>> /\ ~(Len(doc.keys.items) > p.max_keys)
    /\ WellNamed(doc.keys.items, p)

\* pg_oauth_jwks_select returns the same, and selects the same key.
SameSearch(d, e, kid, a, p) ==
    /\ pg_oauth_jwks_select(d, kid, a, p) = pg_oauth_jwks_select(e, kid, a, p)
    /\ pg_oauth_jwks_select(e, kid, a, p) = "ok" =>
            candidate(d.keys.items, kid) = candidate(e.keys.items, kid)

\* What pg_oauth_jwks_select returns does not depend on the other keys, and
\* neither does the key it selects.
LEMMA OthersIgnored ==
    ASSUME NEW d, NEW e, NEW kid, NEW a, NEW p,
           Searched(d, p), Searched(e, p), d.size = e.size, d.json = e.json, SameKeys(d.keys.items, e.keys.items, kid)
    PROVE  SameSearch(d, e, kid, a, p)
<1>p. PICK keys, others : keys = d.keys.items /\ others = e.keys.items
  OBVIOUS
<1>1. /\ Len(keys) \in Nat /\ WellNamed(keys, p) /\ Len(others) \in Nat /\ WellNamed(others, p)
      /\ SameKeys(keys, others, kid)
  BY <1>p, Zenon DEF Searched
<1>2. Stopping(keys, kid, p) # {} <=> Stopping(others, kid, p) # {}
  <2>1. /\ Stopping(keys, kid, p) # {} <=> Several(keys, kid)
        /\ Stopping(others, kid, p) # {} <=> Several(others, kid)
    BY <1>1, OnlyDuplicates, Zenon
  <2>2. Several(keys, kid) <=> Several(others, kid)
    BY <1>1, SameCount, Zenon
  <2> QED BY <2>1, <2>2, Zenon
<1>3. ASSUME NEW s, WellNamed(s, p)
      PROVE  /\ \A i \in 1 .. Len(s) : matches(s[i], kid) <=> i \in Positions(s, kid)
             /\ (\E i \in 1 .. Len(s) : matches(s[i], kid)) <=> (\E i \in Positions(s, kid) : TRUE)
  BY <1>3, Zenon DEF WellNamed, matches, Positions
<1>4. (\E i \in 1 .. Len(keys) : matches(keys[i], kid))
            <=> (\E i \in 1 .. Len(others) : matches(others[i], kid))
  BY <1>1, <1>3, SameCount, Zenon
<1>5. ASSUME Stopping(keys, kid, p) = {}, \E i \in 1 .. Len(keys) : matches(keys[i], kid)
      PROVE  candidate(keys, kid) = candidate(others, kid)
  <2>1. /\ \A i \in 1 .. Len(keys) : ~stops(keys, i, kid, p)
        /\ \A i \in 1 .. Len(others) : ~stops(others, i, kid, p)
    BY <1>2, <1>5, Zenon DEF Stopping
  <2>2. PICK i \in 1 .. Len(keys) :
            /\ candidate(keys, kid) = keys[i]
            /\ \A j \in 1 .. Len(keys) : matches(keys[j], kid) => j = i
    BY <1>1, <1>5, <2>1, OnlyMatch, Zenon
  <2>3. PICK j \in 1 .. Len(others) : candidate(others, kid) = others[j] /\ matches(others[j], kid)
    BY <1>1, <1>4, <1>5, <2>1, OnlyMatch, Zenon
  <2>4. PICK k \in Positions(keys, kid) : others[j] = keys[k]
    <3>1. j \in Positions(others, kid)
      BY <1>1, <1>3, <2>3, Zenon
    <3>2. \A n \in Positions(others, kid) : \E m \in Positions(keys, kid) : others[n] = keys[m]
      BY <1>1, SameCount
    <3> QED BY <3>1, <3>2, Zenon
  <2>5. k \in 1 .. Len(keys) /\ matches(keys[k], kid)
    BY <1>1, <1>3, <2>4, Zenon DEF Positions
  <2> QED BY <2>2, <2>3, <2>4, <2>5, Zenon
<1> DEFINE found(s) ==
            IF Stopping(s, kid, p) # {} THEN stop_error(s, Stopping(s, kid, p), p)
            ELSE IF ~\E i \in 1 .. Len(s) : matches(s[i], kid) THEN "key_not_found"
            ELSE key_error(candidate(s, kid), a, p)
           select(doc) ==
            IF invalid_search(kid, a, p) THEN "invalid_argument"
            ELSE IF doc.size = 0 THEN "empty"
            ELSE IF doc.size > p.max_jwks_size THEN "too_large"
            ELSE IF ~doc.json THEN "invalid_json"
            ELSE found(doc.keys.items)
<1>6. found(keys) = found(others)
  BY <1>1, <1>2, <1>4, <1>5, OnlyDuplicates, Zenon
<1>7. ASSUME NEW doc, Searched(doc, p)
      PROVE  pg_oauth_jwks_select(doc, kid, a, p) = select(doc)
  BY <1>7, Zenon DEF pg_oauth_jwks_select, Searched
<1>8. pg_oauth_jwks_select(d, kid, a, p) = select(d) /\ pg_oauth_jwks_select(e, kid, a, p) = select(e)
  BY <1>7, Zenon
<1>9. select(d) = select(e)
  <2> HIDE DEF found
  <2> QED BY <1>p, <1>6, Zenon
<1> HIDE DEF select
<1>10. ASSUME pg_oauth_jwks_select(e, kid, a, p) = "ok"
       PROVE  candidate(keys, kid) = candidate(others, kid)
  <2>1. pg_oauth_jwks_select(d, kid, a, p) = "ok"
    BY <1>8, <1>9, <1>10, Zenon
  <2>2. /\ \A i \in 1 .. Len(keys) : ~stops(keys, i, kid, p)
        /\ \E i \in 1 .. Len(keys) : matches(keys[i], kid)
    BY <1>p, <2>1, Selected, Zenon
  <2>3. Stopping(keys, kid, p) = {}
    BY <2>2, Zenon DEF Stopping
  <2> QED BY <1>5, <2>2, <2>3, Zenon
<1>11. pg_oauth_jwks_select(e, kid, a, p) = "ok" =>
            candidate(d.keys.items, kid) = candidate(e.keys.items, kid)
  BY <1>p, <1>10, Zenon
<1>12. pg_oauth_jwks_select(d, kid, a, p) = pg_oauth_jwks_select(e, kid, a, p)
  BY <1>8, <1>9, Zenon
<1> QED BY <1>11, <1>12, Zenon DEF SameSearch

\* A document that Readable describes has keys of the right form, not too many.
LEMMA ReadableKeys ==
    ASSUME NEW doc, Readable(doc), NEW p, JwksLimits(p)
    PROVE  Searched(doc, p)
<1>1. p.max_keys = ManyKeys /\ p.max_key_id_size = LongKeyId
  BY SMT DEF JwksLimits, ManyKeys, LongKeyId
<1>2. is_array(doc.keys) /\ Len(doc.keys.items) \in 1 .. ManyKeys
  BY Zenon DEF Readable
<1>3. WellNamed(doc.keys.items, p)
  BY <1>1, Zenon DEF Readable, WellNamed, valid_key_id
<1>4. Len(<<>>) = 0
  OBVIOUS
<1>5. \A l \in 1 .. ManyKeys : l \in Nat /\ l # 0 /\ ~(l > ManyKeys)
  BY SMT DEF ManyKeys
<1> QED BY <1>1, <1>2, <1>3, <1>4, <1>5, Zenon DEF Searched

\* The keys under other identifiers decide nothing: the search passes over them
\* and the candidate is the same.
THEOREM OthersDecideNothing == Spec => OtherKeysIrrelevant
<1> DEFINE A == /\ SameForToken(jwks, jwks')
                /\ UNCHANGED <<config, hba, role, now, metadata, token>>
                => verdict' = verdict
<1>1. A
  <2> SUFFICES ASSUME SameForToken(jwks, jwks'),
                      UNCHANGED <<config, hba, role, now, metadata, token>>
               PROVE  verdict' = verdict
    OBVIOUS
  <2> DEFINE envelope == pg_oauth_jwt_envelope_parse(token, envelope_policy(config))
             kid == token.header.kid.str
             alg == parse_algorithm(token.header.alg)
             p == jwks_policy(config)
             claims == pg_oauth_claims_validate(token.payload.claims,
                            claims_policy(config, hba, role, now))
             built == pg_oauth_policy_build(config, hba)
             url == MetadataUrl[hba.issuer]
             after(key, sig) ==
                IF envelope # "ok" THEN No("envelope", envelope)
                ELSE IF key # Yes THEN key
                ELSE IF ~sig THEN No("signature", "invalid")
                ELSE IF claims # "ok" THEN No("claims", claims)
                ELSE IF ~identity_build THEN No("identity", "invalid_subject")
                ELSE Yes
             result(x) ==
                IF built # "ok" THEN No("policy", built)
                ELSE IF url = "" \/ parse_url(url, config.allow_insecure_http) # "ok"
                     THEN No("internal", "metadata_url")
                ELSE IF token.size \notin 1 .. config.max_token_size THEN No("token", "size")
                ELSE x
  <2>1. verdict = result(after(issuer_key, signature_verify))
    BY Zenon DEF verdict, pipeline
  <2>2. verdict' = result(after(issuer_key', signature_verify'))
    <3>1. identity_build' <=> identity_build
      BY Zenon DEF identity_build
    <3> QED BY <3>1, Zenon DEF verdict, pipeline
  <2>3. CASE envelope # "ok"
    BY <2>1, <2>2, <2>3, Zenon
  <2>4. CASE envelope = "ok"
    <3>1. is_string(token.header.kid)
      <4>1. clean_string(token.header.kid, MaxKeyId)
        BY <2>4, EnvelopePassed, Zenon
      <4> QED BY <4>1, Zenon DEF clean_string
    <3>2. /\ Readable(jwks) /\ Readable(jwks')
          /\ jwks.served = jwks'.served /\ jwks.size = jwks'.size /\ jwks.json = jwks'.json
      BY Zenon DEF SameForToken
    <3>3. SameKeys(jwks.keys.items, jwks'.keys.items, kid)
      <4>1. ASSUME NEW doc PROVE Named(doc) = Positions(doc.keys.items, kid)
        BY <3>1, Zenon DEF Named, Positions
      <4>2. PICK f \in Bijection(Named(jwks), Named(jwks')) :
                \A i \in Named(jwks) : jwks'.keys.items[f[i]] = jwks.keys.items[i]
        BY Zenon DEF SameForToken
      <4> QED BY <4>1, <4>2, Zenon DEF SameKeys
    <3>4. JwksLimits(p)
      BY JwksPolicyIs, Zenon
    <3> HIDE DEF p
    <3>5. /\ pg_oauth_jwks_select(jwks, kid, alg, p) = pg_oauth_jwks_select(jwks', kid, alg, p)
          /\ pg_oauth_jwks_select(jwks', kid, alg, p) = "ok" =>
                    candidate(jwks.keys.items, kid) = candidate(jwks'.keys.items, kid)
      <4>p. PICK d, e : d = jwks /\ e = jwks'
        OBVIOUS
      <4>1. Searched(d, p)
        BY <3>2, <3>4, <4>p, ReadableKeys, Zenon
      <4>2. Searched(e, p)
        BY <3>2, <3>4, <4>p, ReadableKeys, Zenon
      <4>3. d.size = e.size /\ d.json = e.json /\ SameKeys(d.keys.items, e.keys.items, kid)
        BY <3>2, <3>3, <4>p, Zenon
      <4> HIDE DEF kid, alg
      <4>4. SameSearch(d, e, kid, alg, p)
        BY <4>1, <4>2, <4>3, OthersIgnored, Zenon
      <4> QED BY <4>4, <4>p, Zenon DEF SameSearch
    <3>6. issuer_key' = issuer_key
      <4>1. host_allowed(metadata.jwks_uri.str)' <=> host_allowed(metadata.jwks_uri.str)
        BY Zenon DEF host_allowed
      <4> QED BY <3>2, <3>5, <4>1, Zenon DEF issuer_key, p
    <3>7. issuer_key = Yes => (signature_verify' <=> signature_verify)
      <4> SUFFICES ASSUME issuer_key = Yes PROVE signature_verify' <=> signature_verify
        OBVIOUS
      <4>1. pg_oauth_jwks_select(jwks, kid, alg, p) = "ok"
        BY KeyRetrieved, Zenon DEF p
      <4>2. selected' = selected
        BY <3>5, <4>1, Zenon DEF selected
      <4> QED BY <4>2, Zenon DEF signature_verify
    <3>8. after(issuer_key', signature_verify') = after(issuer_key, signature_verify)
      BY <3>6, <3>7, Zenon
    <3> QED BY <2>1, <2>2, <3>8, Zenon
  <2> QED BY <2>3, <2>4, Zenon
<1>2. [Next]_vars => [A]_vars
  BY <1>1, Zenon
<1> HIDE DEF A
<1>3. Spec => [][A]_vars
  BY <1>2, PTL DEF Spec
<1> QED BY <1>3, Zenon DEF A, OtherKeysIrrelevant
=============================================================================
