--------------------------- MODULE TokenDecision ----------------------------
(***************************************************************************)
(* The decision on a token from end to end, with the documents that the    *)
(* issuer serves at that moment: policy, envelope, metadata, key,          *)
(* signature, claims and identity.  The clock, the settings, the HBA rule, *)
(* the issuer's documents and the token change around it.                  *)
(***************************************************************************)
EXTENDS JwtEnvelope, Jwks, Metadata, Claims, Policy, Functions

CONSTANTS
    Worlds,          \* the situations to start from
    ConfigChoices, HbaChoices, MetadataChoices, HeaderChoices, ClaimChoices,
    JwksChoices, TokenChoices,    \* for each field the values it may get
    Roles,           \* roles that a connection asks for
    KeyPool,         \* keys an issuer may publish
    MaxKeys,         \* how many at a time
    Latest,          \* the last instant
    MaxChanges       \* changes other than of the clock

\* What the proofs need of settings, rules, claims, keys and tokens: numbers are
\* numbers, arrays have a length, and published keys come from KeyPool.
ConfigField(f, v) ==
    /\ f \in {"clock_skew_ms", "max_token_size"} => v \in Int
    /\ f = "audiences" => Len(Entries[v]) \in Nat
HbaField(f, v) == f = "required_scopes" => Len(Words[v]) \in Nat
JwksField(f, v) == f = "keys" /\ is_array(v) => v = Arr(v.items) /\ v.items \in Seq(KeyPool)
ClaimField(v) ==
    (is_integer(v) => v.num \in Int) /\ (is_array(v) => Len(v.items) \in Nat)
TokenField(f, v) ==
    /\ f = "size" => v \in Int
    /\ f \in {"header", "payload"} => "size" \in DOMAIN v /\ v.size \in Int
    /\ f = "payload" =>
            /\ "claims" \in DOMAIN v /\ {"exp", "nbf", "iat", "scope"} \subseteq DOMAIN v.claims
            /\ \A c \in DOMAIN v.claims : ClaimField(v.claims[c])

ASSUME WorldAssumption ==
    /\ \A w \in Worlds :
        /\ {"clock_skew_ms", "max_token_size", "audiences"} \subseteq DOMAIN w.config
        /\ \A f \in DOMAIN w.config : ConfigField(f, w.config[f])
        /\ "required_scopes" \in DOMAIN w.hba
        /\ \A f \in DOMAIN w.hba : HbaField(f, w.hba[f])
        /\ "keys" \in DOMAIN w.jwks
        /\ \A f \in DOMAIN w.jwks : JwksField(f, w.jwks[f])
        /\ {"size", "header", "payload"} \subseteq DOMAIN w.token
        /\ \A f \in DOMAIN w.token : TokenField(f, w.token[f])
    /\ \A f \in DOMAIN ConfigChoices : \A v \in ConfigChoices[f] : ConfigField(f, v)
    /\ \A f \in DOMAIN HbaChoices : \A v \in HbaChoices[f] : HbaField(f, v)
    /\ \A f \in DOMAIN JwksChoices : \A v \in JwksChoices[f] : JwksField(f, v)
    /\ \A f \in DOMAIN HeaderChoices : \A v \in HeaderChoices[f] : f = "size" => v \in Int
    /\ \A f \in DOMAIN ClaimChoices : \A v \in ClaimChoices[f] : ClaimField(v)
    /\ \A f \in DOMAIN TokenChoices : \A v \in TokenChoices[f] : TokenField(f, v)

\* jwks is the document at the URL that the metadata names.
VARIABLES config, hba, role, now, metadata, jwks, token, changes
vars == <<config, hba, role, now, metadata, jwks, token, changes>>

-----------------------------------------------------------------------------
(* What pg_oauth_validate_token and the pipeline decide.                   *)

No(stage, error) == [stage |-> stage, error |-> error]
Yes == [stage |-> "ok", error |-> "ok"]

\* validate_request_url for jwks_uri; the first host is the metadata host.
host_allowed(url) ==
    \/ Host[url] = Host[MetadataUrl[hba.issuer]]
    \/ \E i \in 1 .. Len(HostEntries[config.allowed_jwks_hosts]) :
            HostEntries[config.allowed_jwks_hosts][i] = Host[url]

\* pg_oauth_issuer_key_fetch_cached where the cache has nothing to offer.
issuer_key ==
    LET meta == pg_oauth_metadata_parse(metadata, hba.issuer, metadata_policy(config))
        url == metadata.jwks_uri.str
        jwk == pg_oauth_jwks_select(jwks, token.header.kid.str,
                    parse_algorithm(token.header.alg), jwks_policy(config))
    IN  IF ~metadata.served THEN No("metadata", "http")
        ELSE IF meta # "ok" THEN No("metadata", meta)
        ELSE IF parse_url(url, config.allow_insecure_http) # "ok" THEN No("jwks", "http")
        ELSE IF ~host_allowed(url) THEN No("jwks", "host_not_allowed")
        ELSE IF ~jwks.served THEN No("jwks", "http")
        ELSE IF jwk # "ok" THEN No("jwks", jwk)
        ELSE Yes

selected == candidate(jwks.keys.items, token.header.kid.str)

\* libjwt: the signature is by this key, and the header names its algorithm.
signature_verify ==
    token.signer = selected.material /\ parse_algorithm(token.header.alg) = key_algorithm(selected)

\* identity_build bounds the text again, by the same size.
identity_build ==
    valid_identity_string(token.payload.claims[config.identity_claim], NameDataLen - 1)

\* pg_oauth_validate_access_token_cached.
pipeline ==
    LET envelope == pg_oauth_jwt_envelope_parse(token, envelope_policy(config))
        claims == pg_oauth_claims_validate(token.payload.claims,
                        claims_policy(config, hba, role, now))
    IN  IF envelope # "ok" THEN No("envelope", envelope)
        ELSE IF issuer_key # Yes THEN issuer_key
        ELSE IF ~signature_verify THEN No("signature", "invalid")
        ELSE IF claims # "ok" THEN No("claims", claims)
        ELSE IF ~identity_build THEN No("identity", "invalid_subject")
        ELSE Yes

\* The callback.
verdict ==
    LET built == pg_oauth_policy_build(config, hba)
        url == MetadataUrl[hba.issuer]
    IN  IF built # "ok" THEN No("policy", built)
        ELSE IF url = "" \/ parse_url(url, config.allow_insecure_http) # "ok"
             THEN No("internal", "metadata_url")
        ELSE IF token.size \notin 1 .. config.max_token_size THEN No("token", "size")
        ELSE pipeline

accepted == verdict = Yes

-----------------------------------------------------------------------------
(* What changes between two decisions.                                     *)

Init ==
    /\ \E w \in Worlds :
            /\ config = w.config /\ hba = w.hba /\ role = w.role
            /\ metadata = w.metadata /\ jwks = w.jwks /\ token = w.token
    /\ now = 0 /\ changes = 0

Tick ==
    /\ now < Latest /\ now' = now + 1
    /\ UNCHANGED <<config, hba, role, metadata, jwks, token, changes>>

Change == changes < MaxChanges /\ changes' = changes + 1 /\ UNCHANGED now

\* The administrator changes a setting.
Reload ==
    /\ Change /\ UNCHANGED <<hba, role, metadata, jwks, token>>
    /\ \E f \in DOMAIN ConfigChoices : \E v \in ConfigChoices[f] :
            config' = [config EXCEPT ![f] = v]

\* Another connection: another HBA rule or role.
Reconnect ==
    /\ Change /\ UNCHANGED <<config, metadata, jwks, token>>
    /\ \/ /\ \E f \in DOMAIN HbaChoices : \E v \in HbaChoices[f] : hba' = [hba EXCEPT ![f] = v]
          /\ UNCHANGED role
       \/ role' \in Roles /\ UNCHANGED hba

\* The issuer serves other metadata.
Reconfigure ==
    /\ Change /\ UNCHANGED <<config, hba, role, jwks, token>>
    /\ \E f \in DOMAIN MetadataChoices : \E v \in MetadataChoices[f] :
            metadata' = [metadata EXCEPT ![f] = v]

\* A key server publishes, withdraws or replaces a key, or serves no document.
Rotate ==
    /\ Change /\ UNCHANGED <<config, hba, role, metadata, token>>
    /\ \/ /\ is_array(jwks.keys) /\ Len(jwks.keys.items) < MaxKeys
          /\ \E k \in KeyPool : jwks' = [jwks EXCEPT !.keys.items = Append(@, k)]
       \/ /\ is_array(jwks.keys)
          /\ \E i \in 1 .. Len(jwks.keys.items) : \E k \in KeyPool :
                jwks' = [jwks EXCEPT !.keys.items[i] = k]
       \/ \E f \in DOMAIN JwksChoices : \E v \in JwksChoices[f] :
                jwks' = [jwks EXCEPT ![f] = v]

\* A client presents another token.  Sizes and contents vary independently,
\* which allows more tokens than there are.
Reissue ==
    /\ Change /\ UNCHANGED <<config, hba, role, metadata, jwks>>
    /\ \/ \E f \in DOMAIN HeaderChoices : \E v \in HeaderChoices[f] :
            token' = [token EXCEPT !.header[f] = v]
       \/ \E f \in DOMAIN ClaimChoices : \E v \in ClaimChoices[f] :
            token' = [token EXCEPT !.payload.claims[f] = v]
       \/ \E f \in DOMAIN TokenChoices : \E v \in TokenChoices[f] :
            token' = [token EXCEPT ![f] = v]

Next == Tick \/ Reload \/ Reconnect \/ Reconfigure \/ Rotate \/ Reissue

Spec == Init /\ [][Next]_vars

-----------------------------------------------------------------------------
(* Properties.                                                             *)

Listed(x) == {Entries[x][i] : i \in 1 .. Len(Entries[x])}

ListedHosts(x) == {HostEntries[x][i] : i \in 1 .. Len(HostEntries[x])}

Claim(c) == token.payload.claims[c]

\* The texts of a claim that is one string or an array of strings.
Texts(j) == IF is_string(j) THEN {j.str} ELSE {j.items[i].str : i \in 1 .. Len(j.items)}

\* The scopes a token carries.
Scopes(j) ==
    IF is_string(j) THEN {Words[j.str][i] : i \in 1 .. Len(Words[j.str])} ELSE Texts(j)

RsaBits == 2048 .. 8192

skew == config.clock_skew_ms \div 1000

\* Exactly one published key has the token's key identifier; it signed the
\* token, is public, and its algorithm is the token's and an allowed one.
OneKey ==
    LET keys == jwks.keys.items
    IN  \E i \in 1 .. Len(keys) :
            /\ \A j \in 1 .. Len(keys) :
                    json_string_equals(keys[j].kid, token.header.kid.str) <=> j = i
            /\ token.signer = keys[i].material /\ ~keys[i].private
            /\ keys[i].alg.str = token.header.alg.str
            /\ keys[i].alg.str \in Listed(config.allowed_algorithms)
            /\ keys[i].alg.str = "RS256" => keys[i].n.bits \in RsaBits

OneIssuer ==
    /\ json_string_equals(Claim("iss"), hba.issuer)
    /\ json_string_equals(metadata.issuer, hba.issuer)
    /\ host_allowed(metadata.jwks_uri.str)

InWindow ==
    /\ Claim("exp").num + skew > now
    /\ \A c \in {"nbf", "iat"} : Claim(c) # Absent => Claim(c).num <= now + skew

Entitled ==
    /\ Texts(Claim("aud")) \cap Listed(config.audiences) # {}
    /\ \A i \in 1 .. Len(Words[hba.required_scopes]) :
            Words[hba.required_scopes][i] \in Scopes(Claim("scope"))
    /\ hba.delegate_ident_mapping => role \in Texts(Claim(config.role_claim))

\* Whatever the settings and documents, an accepted token was signed with the
\* one key that its issuer publishes for it.
AcceptedByOneKey == accepted => OneKey /\ OneIssuer

\* An accepted token is within its lifetime, and its audience, scopes and, with
\* delegated mapping, its roles cover the connection.
AcceptedIsEntitled == accepted => InWindow /\ Entitled

\* A policy that pg_oauth_policy_build accepts never makes a later stage fail
\* with "invalid argument", except for what policy.c does not look at: the
\* form of the HBA rule's scopes and the length of the requested role.  The
\* metadata stage also calls a lack of memory an invalid argument.
PolicyFeedsStages ==
    verdict.error = "invalid_argument" =>
        \/ verdict.stage = "metadata" /\ ~metadata.memory
        \/ /\ verdict.stage = "claims"
           /\ \/ \E i \in 1 .. Len(Words[hba.required_scopes]) :
                    i > 64 \/ Words[hba.required_scopes][i] \notin ScopeToken
              \/ hba.delegate_ident_mapping /\ Size[role] \notin 1 .. NameDataLen - 1

\* As time passes a token can only mature and then expire: one that has
\* expired stays so, and one that is accepted is refused for no other reason.
ClockOnlyExpires ==
    [][now' > now =>
        /\ verdict.error = "expired" => verdict' = verdict
        /\ accepted /\ ~accepted' => verdict'.error = "expired"]_vars

ManyKeys == 16
LongKeyId == 1024

\* Every key is an object, and its identifier, if it has one, is of the right
\* form.
Readable(doc) ==
    /\ is_array(doc.keys) /\ Len(doc.keys.items) \in 1 .. ManyKeys
    /\ \A i \in 1 .. Len(doc.keys.items) :
            LET k == doc.keys.items[i]
            IN  k.object /\ (k.kid = Absent \/ clean_string(k.kid, LongKeyId))

\* The keys of a document with the token's key identifier.
Named(doc) ==
    {i \in 1 .. Len(doc.keys.items) :
        is_string(token.header.kid) /\ json_string_equals(doc.keys.items[i].kid, token.header.kid.str)}

\* The documents have the same keys for the token, in whatever order.
SameForToken(old, new) ==
    /\ Readable(old) /\ Readable(new)
    /\ \E f \in Bijection(Named(old), Named(new)) :
            \A i \in Named(old) : new.keys.items[f[i]] = old.keys.items[i]
    /\ old.served = new.served /\ old.size = new.size /\ old.json = new.json

\* Keys that an issuer publishes or withdraws under other identifiers, of
\* whatever form or algorithm, change no decision on this token, nor does the
\* order of the keys.
OtherKeysIrrelevant ==
    [][/\ SameForToken(jwks, jwks')
       /\ UNCHANGED <<config, hba, role, now, metadata, token>>
       => verdict' = verdict]_vars

\* c is as strict as d or stricter.
Stricter(c, d) ==
    /\ \A f \in {"allowed_algorithms", "allowed_token_types", "audiences"} :
            Listed(c[f]) \subseteq Listed(d[f])
    /\ ListedHosts(c.allowed_jwks_hosts) \subseteq ListedHosts(d.allowed_jwks_hosts)
    /\ \A f \in {"allow_missing_token_type", "allow_insecure_http"} : c[f] => d[f]
    /\ \A f \in {"clock_skew_ms", "max_token_size"} : c[f] <= d[f]
    /\ c.identity_claim = d.identity_claim /\ c.role_claim = d.role_claim

\* Of two settings that both make a policy, the stricter accepts no token that
\* the other refuses.
PolicyMonotone ==
    [][UNCHANGED <<hba, role, now, metadata, jwks, token>> /\ verdict.stage # "policy" =>
        /\ Stricter(config', config) /\ accepted' => accepted
        /\ Stricter(config, config') /\ verdict'.stage # "policy" /\ accepted => accepted']_vars
=============================================================================
