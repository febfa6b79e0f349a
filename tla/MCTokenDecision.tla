--------------------------- MODULE MCTokenDecision ---------------------------
(* Three accepted situations, one per algorithm, and the changes to them.   *)
EXTENDS TokenDecision

-----------------------------------------------------------------------------
(* Texts.                                                                  *)

Lists ==
    [x \in {"a1,a2", "a1,,a2", "RS256,ES256,EdDSA", "RS256,RS256", "at+jwt,application/at+jwt",
            "keys,cdn", "keys\n"} |->
        CASE x = "a1,a2" -> <<"a1", "a2">>
          [] x = "a1,,a2" -> <<"a1", "", "a2">>
          [] x = "RS256,ES256,EdDSA" -> <<"RS256", "ES256", "EdDSA">>
          [] x = "RS256,RS256" -> <<"RS256", "RS256">>
          [] x = "at+jwt,application/at+jwt" -> <<"at+jwt", "application/at+jwt">>
          [] x = "keys,cdn" -> <<"keys", "cdn">>
          [] x = "keys\n" -> <<"keys">>]

Phrases ==
    [x \in {"read write", "read  write", "read read"} |->
        CASE x = "read write" -> <<"read", "write">>
          [] x = "read  write" -> <<"read", "", "write">>
          [] x = "read read" -> <<"read", "read">>]

Texts0 ==
    DOMAIN Lists \cup DOMAIN Phrases \cup
    {"", "a1", "a2", "a3", "RS256", "ES256", "EdDSA", "HS256", "at+jwt",
     "application/at+jwt", "JWT", "sub", "email", "roles", "scope", "keys", "cdn", ".x", "ca",
     "read", "write", "admin", "default", "other", "https://i", "https://i?q", "http://i",
     "https://keys/j", "https://alt/j", "http://i/j", "ftp", "k1", "k2", "k3", "alice",
     "bell", "nel", "name64", "name63", "long"}

MCSize == [x \in Texts0 |-> CASE x = "" -> 0 [] x = "name63" -> 63 [] x = "name64" -> 64
                              [] x = "long" -> 5000 [] OTHER -> 5]
MCControl == {"bell"}
MCHighControl == {"nel"}
MCSpaced == DOMAIN Phrases
MCWords == [x \in Texts0 |-> IF x \in DOMAIN Phrases THEN Phrases[x] ELSE <<x>>]
MCEntries == [x \in Texts0 |-> IF x \in DOMAIN Lists THEN Lists[x] ELSE <<x>>]
\* A line feed is white space, but no blank or tab.
MCHostEntries == [MCEntries EXCEPT !["keys\n"] = <<"keys\n">>]
MCScopeToken == {"read", "write", "admin"}
MCHostName == {"keys", "cdn"}
MCScheme == [x \in Texts0 |->
    CASE x \in {"http://i", "http://i/j"} -> "http"
      [] x \in {"https://i", "https://i?q", "https://keys/j", "https://alt/j"} -> "https"
      [] OTHER -> "invalid"]
MCQuery == {"https://i?q"}
MCHost == [x \in Texts0 |-> CASE x = "https://keys/j" -> "keys" [] x = "https://alt/j" -> "alt"
                              [] OTHER -> "i"]
\* The metadata URL has the issuer's scheme, query and host.
MCMetadataUrl == [x \in Texts0 |-> IF x = "long" THEN "" ELSE x]

-----------------------------------------------------------------------------
(* Keys.                                                                   *)

Number(bits, odd) == [ok |-> TRUE, zeros |-> 0, bits |-> bits, odd |-> odd]
NoNumber == [ok |-> FALSE, zeros |-> 0, bits |-> 0, odd |-> FALSE]

RsaKey ==
    [object |-> TRUE, kid |-> Str("k1"), alg |-> Str("RS256"), use |-> Str("sig"),
     key_ops |-> Absent, private |-> FALSE, kty |-> Str("RSA"), crv |-> Absent,
     n |-> Number(2048, TRUE), e |-> Number(17, TRUE), x |-> NoNumber, y |-> NoNumber,
     point |-> TRUE, material |-> "m1"]
EcKey == [RsaKey EXCEPT !.alg = Str("ES256"), !.kty = Str("EC"), !.crv = Str("P-256"),
             !.x = Number(256, TRUE), !.y = [Number(248, FALSE) EXCEPT !.zeros = 1],
             !.key_ops = Arr(<<Str("verify")>>)]
EdKey == [RsaKey EXCEPT !.alg = Str("EdDSA"), !.kty = Str("OKP"), !.crv = Str("Ed25519"),
             !.x = Number(255, TRUE), !.use = Absent, !.key_ops = Arr(<<Str("verify")>>)]

MCKeyPool ==
    {RsaKey, EcKey, EdKey, [EdKey EXCEPT !.kid = Str("k3")],
     [RsaKey EXCEPT !.material = "m2"], [RsaKey EXCEPT !.kid = Absent],
     [RsaKey EXCEPT !.kid = Str("k2"), !.alg = Str("HS256")],
     [RsaKey EXCEPT !.kid = Str("long")], [RsaKey EXCEPT !.kid = Str("bell")],
     [RsaKey EXCEPT !.kid = Other], [RsaKey EXCEPT !.object = FALSE],
     [RsaKey EXCEPT !.alg = Absent], [RsaKey EXCEPT !.use = Str("alice")],
     [RsaKey EXCEPT !.use = Absent], [RsaKey EXCEPT !.private = TRUE],
     [RsaKey EXCEPT !.key_ops = Arr(<<Str("verify"), Str("sub")>>)],
     [RsaKey EXCEPT !.n = Number(2047, TRUE)], [RsaKey EXCEPT !.n = Number(8192, TRUE)],
     [RsaKey EXCEPT !.n = Number(8193, TRUE)], [RsaKey EXCEPT !.n = Number(2048, FALSE)],
     [RsaKey EXCEPT !.n.zeros = 1], [RsaKey EXCEPT !.e = Number(1, TRUE)],
     [RsaKey EXCEPT !.e = Number(2, TRUE)], [RsaKey EXCEPT !.e = Number(65, TRUE)],
     [EcKey EXCEPT !.y = Number(248, TRUE)], [EcKey EXCEPT !.point = FALSE],
     [EcKey EXCEPT !.crv = Str("Ed25519")], [EdKey EXCEPT !.x = NoNumber]}

-----------------------------------------------------------------------------
(* Situations.                                                             *)

Config ==
    [audiences |-> "a1,a2", allowed_algorithms |-> "RS256,ES256,EdDSA",
     allowed_token_types |-> "at+jwt", identity_claim |-> "sub", role_claim |-> "",
     allowed_jwks_hosts |-> "keys", ca_file |-> "", clock_skew_ms |-> 1999,
     max_token_size |-> 1024, metadata_default_ttl_ms |-> 1000,
     jwks_default_ttl_ms |-> 1000, cache_max_ttl_ms |-> 1000, jwks_stale_grace_ms |-> 0,
     unknown_kid_refresh_cooldown_ms |-> 1000, refresh_wait_timeout_ms |-> 0,
     allow_insecure_http |-> FALSE, allow_missing_token_type |-> FALSE]
Hba == [issuer |-> "https://i", required_scopes |-> "read", policy_name |-> "",
        delegate_ident_mapping |-> FALSE]
Meta == [served |-> TRUE, size |-> 100, json |-> TRUE, memory |-> TRUE, issuer |-> Str("https://i"),
         jwks_uri |-> Str("https://keys/j")]
Keys(k) ==
    [served |-> TRUE, size |-> 100, json |-> TRUE, keys |-> Arr(<<k>>)]
Payload ==
    [iss |-> Str("https://i"), aud |-> Str("a2"), exp |-> Num(3), nbf |-> Num(2),
     iat |-> Absent, sub |-> Str("alice"), email |-> Str("alice"),
     scope |-> Str("read write"), roles |-> Arr(<<Str("admin"), Str("write")>>)]
Token(alg) ==
    [size |-> 1024, segments |-> <<134, 802, 86>>, canonical |-> TRUE, signer |-> "m1",
     header |-> [size |-> 100, object |-> TRUE, unsupported |-> FALSE, alg |-> Str(alg),
                 typ |-> Str("at+jwt"), kid |-> Str("k1")],
     payload |-> [size |-> 601, object |-> TRUE, claims |-> Payload]]

World(key, alg) ==
    [config |-> Config, hba |-> Hba, role |-> "admin", metadata |-> Meta,
     jwks |-> Keys(key), token |-> Token(alg)]
Delegated(w) ==
    [w EXCEPT !.config.role_claim = "roles", !.config.identity_claim = "email",
              !.hba.delegate_ident_mapping = TRUE,
              !.token.payload.claims.scope = Arr(<<Str("write"), Str("read")>>),
              !.token.payload.claims.aud = Arr(<<Str("a3"), Str("a1")>>)]

MCWorlds == {World(RsaKey, "RS256"), World(EcKey, "ES256"), Delegated(World(EdKey, "EdDSA"))}

\* Within the limits of config.c.
MCConfigChoices ==
    [audiences |-> {"", "a1", "a3", "a1,,a2", "bell"},
     allowed_algorithms |-> {"RS256", "ES256", "HS256", "RS256,RS256", ""},
     allowed_token_types |-> {"at+jwt,application/at+jwt", "application/at+jwt", "JWT"},
     identity_claim |-> {"", "sub", "email", "read write"}, role_claim |-> {"roles", "bell"},
     allowed_jwks_hosts |-> {"", "keys,cdn", ".x", "keys\n"}, ca_file |-> {"bell", "long"},
     clock_skew_ms |-> {0, 999, 2000, 300000}, max_token_size |-> {1025},
     metadata_default_ttl_ms |-> {1001}, jwks_default_ttl_ms |-> {1001},
     allow_insecure_http |-> {TRUE}, allow_missing_token_type |-> {TRUE}]
MCHbaChoices ==
    [issuer |-> {"", "https://i?q", "http://i", "ftp", "long"},
     required_scopes |-> {"", "admin", "read write", "read  write"},
     policy_name |-> {"default", "other"}, delegate_ident_mapping |-> {TRUE, FALSE}]
MCRoles == {"", "write", "alice", "name64"}
MCMetadataChoices ==
    [served |-> {FALSE}, size |-> {0, 65537}, json |-> {FALSE}, memory |-> {FALSE},
     issuer |-> {Absent, Str("http://i"), Str("https://i?q")},
     jwks_uri |-> {Other, Str("https://alt/j"), Str("http://i/j"), Str("ftp")}]
MCJwksChoices ==
    [served |-> {FALSE}, size |-> {0, 65537}, json |-> {FALSE}, keys |-> {Other, Arr(<<>>)}]
MCTokenChoices ==
    [size |-> {0, 1025}, segments |-> {<<937, 86>>, <<134, 0, 888>>}, canonical |-> {FALSE},
     signer |-> {"m2"}]
MCHeaderChoices ==
    [size |-> {4097}, object |-> {FALSE}, unsupported |-> {TRUE},
     alg |-> {Str("RS256"), Str("ES256"), Str("HS256"), Absent},
     typ |-> {Absent, Str("application/at+jwt"), Str("JWT"), Other},
     kid |-> {Str("k2"), Str(""), Str("long"), Str("bell"), Absent}]
MCClaimChoices ==
    [iss |-> {Str("http://i"), Str("https://i?q"), Absent},
     aud |-> {Str("a1"), Str(""), Absent, Arr(<<>>), Arr(<<Str("a1"), Str("a1")>>), Arr(<<Str("a1"), Other>>)},
     exp |-> {Absent, Str("a1"), Num(0), Num(1), Num(5)},
     nbf |-> {Absent, Num(-1), Num(0), Num(4)}, iat |-> {Num(3), Num(-1), Other},
     sub |-> {Absent, Str("name64"), Str("bell"), Str("nel")},
     email |-> {Str("name64"), Str("name63"), Str("")},
     scope |-> {Absent, Str("write"), Str("read read"), Str("read  write"), Arr(<<Str("read"), Other>>)},
     roles |-> {Str("admin"), Str("write"), Str("bell"), Absent, Arr(<<>>), Arr(<<Str("admin"), Str("admin")>>)}]
=============================================================================
