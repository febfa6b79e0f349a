------------------------------ MODULE CacheKey ------------------------------
(***************************************************************************)
(* src/cache_key.c: the bytes under which the shared cache finds a         *)
(* document.  A key must differ whenever anything differs that the         *)
(* document was fetched or checked under.                                  *)
(***************************************************************************)
EXTENDS Integers, Sequences

CONSTANTS KeyMax,      \* sizeof(key->data)
          Null         \* a NULL pointer

Octet == 0 .. 255
Word == 65536
\* C strings: no NUL inside.  uint32_t and uint64_t by their upper halves.
Text == Seq(1 .. 255)
U32 == {v \in Nat : v \div Word < Word}
U64 == {v \in Nat : (v \div Word) \div Word \in U32}

ASSUME KeyAssumption == KeyMax \in U32 \ {0} /\ Null \notin Text

\* (value >> shift) & 0xff, most significant first.
u16(v) == <<(v \div 256) % 256, v % 256>>
u32(v) == u16(v \div Word) \o u16(v)
u64(v) == u32((v \div Word) \div Word) \o u32(v)

\* What an append puts before `rest`, the bytes of the appends after it.
append_u8(v, rest) == <<v % 256>> \o rest
append_u32(v, rest) == u32(v) \o rest
append_u64(v, rest) == u64(v) \o rest

append_string_Bare(s, rest) == s \o rest

append_string(s, rest) == append_u32(Len(s), s \o rest)

flag(b) == IF b THEN 1 ELSE 0

orEmpty(s) == IF s = Null THEN <<>> ELSE s

Strings(p) ==
    {p.issuer, p.metadata_url, orEmpty(p.jwks_url), p.policy_name,
     p.required_scopes, p.audiences, p.identity_claim, p.role_claim,
     p.allowed_jwks_hosts, p.ca_file}

\* The appends of pg_oauth_cache_key_build in their order, in three groups.
endpoints(p, rest) ==
    append_string(p.issuer, append_string(p.metadata_url,
    append_string(orEmpty(p.jwks_url), rest)))

rules(p, rest) ==
    append_string(p.policy_name, append_string(p.required_scopes,
    append_string(p.audiences, append_u8(p.allowed_token_types,
    append_u8(flag(p.allow_missing_token_type), append_string(p.identity_claim,
    append_string(p.role_claim, append_string(p.allowed_jwks_hosts,
    append_string(p.ca_file, rest)))))))))

limits(p, rest) ==
    append_u32(p.allowed_algorithms, append_u32(p.clock_skew_ms,
    append_u32(p.max_token_size, append_u32(p.max_metadata_size,
    append_u32(p.max_jwks_size, append_u32(p.max_jwks_keys,
    append_u32(p.minimum_rsa_bits, append_u32(p.maximum_rsa_bits,
    append_u64(p.jwks_stale_grace_ms, append_u64(p.metadata_default_ttl_ms,
    append_u64(p.jwks_default_ttl_ms, append_u64(p.cache_max_ttl_ms,
    append_u64(p.unknown_kid_refresh_cooldown_ms,
    append_u8(flag(p.allow_insecure_http), rest))))))))))))))

\* "PGOC" and PG_OAUTH_CACHE_KEY_VERSION.
magic == <<80, 71, 79, 67, 5>>

key_data(p) ==
    magic \o append_u8(p.resource, endpoints(p, rules(p, limits(p, <<>>))))

METADATA == 1
JWKS == 2

valid_arguments(p) ==
    /\ p.resource \in {METADATA, JWKS}
    /\ Null \notin Strings(p)
    /\ p.issuer # <<>> /\ p.metadata_url # <<>>
    /\ p.resource = JWKS => orEmpty(p.jwks_url) # <<>>
    /\ p.allowed_token_types \in 1 .. 3
    /\ 0 \notin {p.allowed_algorithms, p.max_token_size, p.max_metadata_size,
                 p.max_jwks_size, p.max_jwks_keys, p.minimum_rsa_bits}
    /\ p.maximum_rsa_bits >= p.minimum_rsa_bits

\* An append fails when the buffer cannot take it, and then the key is
\* discarded; as keys only grow, some append fails when the whole is too long.
build(p) ==
    IF ~valid_arguments(p) THEN [error |-> "invalid_argument", data |-> <<>>]
    ELSE IF \/ \E s \in Strings(p) : Len(s) >= KeyMax
            \/ Len(key_data(p)) > KeyMax
         THEN [error |-> "too_large", data |-> <<>>]
    ELSE [error |-> "ok", data |-> key_data(p)]
=============================================================================
