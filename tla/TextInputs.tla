----------------------------- MODULE TextInputs -----------------------------
(***************************************************************************)
(* What must hold of the checks on every text: identities, lists, scopes   *)
(* and URLs.                                                               *)
(***************************************************************************)
EXTENDS Inputs, TextChecks

-----------------------------------------------------------------------------
(* identity.c, claims.c                                                    *)

\* Well-formed UTF-8 by the byte ranges of table 3-7 of the Unicode standard.
Trail == 128 .. 191
TwoBytes(a, b) == a \in 194 .. 223 /\ b \in Trail
ThreeBytes(a, b, c) ==
    /\ c \in Trail
    /\ \/ a = 224 /\ b \in 160 .. 191
       \/ a \in 225 .. 239 \ {237} /\ b \in Trail
       \/ a = 237 /\ b \in 128 .. 159
FourBytes(a, b, c, d) ==
    /\ c \in Trail /\ d \in Trail
    /\ \/ a = 240 /\ b \in 144 .. 191
       \/ a \in 241 .. 243 /\ b \in Trail
       \/ a = 244 /\ b \in 128 .. 143

\* The length of the character that s starts with, or 0.
WellFormedHead(s) ==
    IF s[1] \in 0 .. 127 THEN 1
    ELSE IF Len(s) >= 2 /\ TwoBytes(s[1], s[2]) THEN 2
    ELSE IF Len(s) >= 3 /\ ThreeBytes(s[1], s[2], s[3]) THEN 3
    ELSE IF Len(s) >= 4 /\ FourBytes(s[1], s[2], s[3], s[4]) THEN 4
    ELSE 0

WellFormed(s) ==
    LET f[i \in 1 .. Len(s) + 1] ==
            i > Len(s) \/ LET n == WellFormedHead(SubSeq(s, i, Len(s)))
                          IN  n > 0 /\ f[i + n]
    IN  f[1]

\* C1 controls are the two-byte characters from C2 80 to C2 9F.
NoControls(s) ==
    \A i \in 1 .. Len(s) :
        s[i] \notin Control /\ ~(s[i] = 194 /\ i < Len(s) /\ s[i + 1] \in 128 .. 159)

\* identity.c accepts exactly the well-formed UTF-8 texts without control
\* characters: no overlong form, surrogate or code point beyond 10FFFF, and
\* none of the characters that are none of these is refused.  claims.c agrees
\* on every text that is well-formed UTF-8, which all strings of a parsed
\* payload are: no token passes the claims and then fails to make an identity,
\* or has controls that only one of them sees.
IdentityExact ==
    kind = "identity" =>
        /\ valid_utf8(text) <=> WellFormed(text) /\ NoControls(text)
        /\ text # <<>> /\ WellFormed(text) =>
                (valid_identity_string(text) <=> valid_utf8(text))

-----------------------------------------------------------------------------
(* policy.c, claims.c, http_transport.c                                    *)

lowered(s) == [i \in 1 .. Len(s) |-> lower(s[i])]
Sub(s) == {SubSeq(s, i, j) : i \in 1 .. Len(s), j \in 0 .. Len(s)} \cup {<<>>}

\* t is what remains between two commas or ends of s without Blank around it.
Listed(t, s, Blank) ==
    \E i \in 1 .. Len(s) : \E j \in i .. Len(s) :
        /\ t = SubSeq(s, i, j)
        /\ 44 \notin {s[k] : k \in i .. j}
        /\ s[i] \notin Blank /\ s[j] \notin Blank
        /\ \E a \in 0 .. i - 1 : (a = 0 \/ s[a] = 44) /\ \A k \in a + 1 .. i - 1 : s[k] \in Blank
        /\ \E b \in j + 1 .. Len(s) + 1 :
                (b = Len(s) + 1 \/ s[b] = 44) /\ \A k \in j + 1 .. b - 1 : s[k] \in Blank

\* A URL that parse_url accepts has no control or blank in its host.
HostNames == {h \in Sub(text) \ {<<>>} : \A i \in 1 .. Len(h) : h[i] \in 33 .. 126}

\* A list that policy.c accepts means the same to the parser that uses it.
\* claims.c: the audiences of a token that match are exactly the entries.
\* http_transport.c: a key server's host is allowed only when it is an entry, up
\* to case; where the two trim differently, a host is refused, and with blanks
\* and tabs only every listed host is allowed.
ListsAgree ==
    kind = "list" =>
        /\ validate_audiences(text) =>
            \A t \in Sub(text) :
                configured_audience_matches(text, t) <=> Listed(t, text, Space)
        /\ validate_jwks_hosts(text) =>
            \A h \in HostNames :
                /\ host_in_list(h, text) =>
                    \E t \in Sub(text) : Listed(t, text, Space) /\ lowered(t) = lowered(h)
                /\ /\ Listed(h, text, Space)
                   /\ \A i \in 1 .. Len(text) : text[i] \notin 10 .. 13
                   => host_in_list(h, text)

-----------------------------------------------------------------------------
(* claims.c                                                                *)

\* The blanks of s and its two ends, and what lies between neighbours of them.
Words(s) ==
    LET Blanks == {0, Len(s) + 1} \cup {i \in 1 .. Len(s) : s[i] = 32}
    IN  {w \in Blanks \X Blanks :
            w[1] < w[2] /\ \A k \in w[1] + 1 .. w[2] - 1 : k \notin Blanks}
WordText(s, w) == SubSeq(s, w[1] + 1, w[2] - 1)

\* A scope string is accepted when it is at most max_scopes different scope
\* tokens with one blank between each two, and then contains exactly those; no
\* more than max_scopes slots of the two arrays are ever written.
ScopesExact ==
    kind = "scope" =>
        LET words == Words(text)
            scopes == {WordText(text, w) : w \in words}
            wellFormed == /\ \A t \in scopes : valid_scope_token(t)
                          /\ Cardinality(scopes) = Cardinality(words)
                          /\ Cardinality(words) <= MaxScopes
        IN  \A required \in Sub(text) \ {<<>>} :
                LET r == scope_string_contains(text, required)
                IN  /\ Len(r.stored) <= MaxScopes
                    /\ r.valid <=> wellFormed
                    /\ r.found <=> wellFormed /\ required \in scopes

-----------------------------------------------------------------------------
(* metadata.c, http_transport.c, pg_oauth_validator.c                      *)

url == [scheme |-> scheme, rest |-> text]

\* What metadata.c accepts as jwks_uri the transport can fetch, and nothing
\* else; what metadata.c calls insecure the transport calls insecure.
UrlChecksAgree ==
    kind = "url" =>
        \A allow, curl \in BOOLEAN :
            LET v == validate_url(url, allow, FALSE, curl)
                p == parse_url(url, allow, curl)
            IN  /\ v = "ok" <=> p = "ok"
                /\ v = "insecure" => p = "insecure"

\* For an issuer that metadata.c accepts, the metadata URL leads to the same
\* authority, and the well-known suffix is at the end of its path.
IssuerAuthorityKept ==
    kind = "url" =>
        \A allow, curl \in BOOLEAN :
            LET m == pg_oauth_metadata_url(url)
            IN  validate_url(url, allow, TRUE, curl) = "ok" /\ m # NoUrl =>
                    /\ parse_url(m, allow, TRUE) = "ok"
                    /\ authority(m) = authority(url)
                    /\ ~has(m, 63) /\ ~has(m, 35)
                    /\ SubSeq(m.rest, Len(m.rest), Len(m.rest)) = WellKnown
=============================================================================
