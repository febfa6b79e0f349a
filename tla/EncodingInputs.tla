--------------------------- MODULE EncodingInputs ---------------------------
(***************************************************************************)
(* What must hold of the encodings of every text: base64url and cache      *)
(* keys.                                                                   *)
(***************************************************************************)
EXTENDS Inputs, Base64url, CacheKey

-----------------------------------------------------------------------------
(* base64url.c                                                             *)

\* Every text that pg_oauth_base64url_decode accepts is the one that
\* pg_oauth_base64url_encode makes of the decoded bytes, of the announced size:
\* no segment of a token or key parameter has a second spelling.  And bytes
\* survive being encoded and decoded.
OneSpelling ==
    kind = "base64" /\ text # <<>> =>
        /\ valid(text) => /\ encode(decode(text)) = text
                          /\ Len(decode(text)) = decoded_size(Len(text))
        /\ valid(encode(text)) /\ decode(encode(text)) = text

\* The two overflow checks of pg_oauth_base64url_encoded_size refuse exactly
\* the lengths whose encoding is longer than SIZE_MAX.
SizeGuard ==
    kind = "base64" => (encoded_size_fits(Len(text)) <=> encoded_size(Len(text)) <= SizeMax)

-----------------------------------------------------------------------------
(* cache_key.c                                                             *)

BasePolicy ==
    [resource |-> JWKS, issuer |-> <<104>>, metadata_url |-> <<104>>, jwks_url |-> <<104>>,
     policy_name |-> <<>>, required_scopes |-> <<>>, audiences |-> <<>>,
     allowed_token_types |-> 1, allow_missing_token_type |-> FALSE,
     identity_claim |-> <<>>, role_claim |-> <<>>, allowed_jwks_hosts |-> <<>>,
     ca_file |-> <<>>, allowed_algorithms |-> 1, clock_skew_ms |-> 256,
     max_token_size |-> 1, max_metadata_size |-> 1, max_jwks_size |-> 1,
     max_jwks_keys |-> 1, minimum_rsa_bits |-> 1, maximum_rsa_bits |-> 1,
     jwks_stale_grace_ms |-> 0, metadata_default_ttl_ms |-> 0,
     jwks_default_ttl_ms |-> 0, cache_max_ttl_ms |-> 0,
     unknown_kid_refresh_cooldown_ms |-> 0, allow_insecure_http |-> FALSE]

\* Policies that hold the bytes of the text in two fields each.
Fields == {"issuer", "policy_name", "required_scopes", "audiences", "role_claim"}
Longer(p, f, t) == [p EXCEPT ![f] = @ \o t]
Split ==
    {Longer(Longer(BasePolicy, f, SubSeq(text, 1, i)),
            g, SubSeq(text, i + 1, Len(text)))
        : f \in Fields, g \in Fields, i \in 0 .. Len(text)}

\* Policies that differ have different keys, however their texts are divided
\* between fields, and a key fits its buffer.
KeysDiffer ==
    kind = "key" =>
        \A p, q \in Split :
            build(p).error = "ok" /\ build(q).error = "ok" =>
                /\ Len(build(p).data) <= KeyMax
                /\ p # q => build(p).data # build(q).data
=============================================================================
