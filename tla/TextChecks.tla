----------------------------- MODULE TextChecks -----------------------------
(***************************************************************************)
(* The checks on text that two components make independently and must      *)
(* agree on: identities (claims.c, identity.c), audience lists (policy.c,  *)
(* claims.c), host lists (policy.c, http_transport.c), URLs (metadata.c,   *)
(* http_transport.c), and scope strings (claims.c).  Texts are sequences   *)
(* of bytes.  A loop over a text is a recursive function of its state,     *)
(* the cursor and what it has counted or stored.                           *)
(***************************************************************************)
EXTENDS Integers, Sequences, FiniteSets

CONSTANTS MaxAudiences,   \* PG_OAUTH_MAX_AUDIENCES, max_audiences
          MaxHosts,       \* PG_OAUTH_MAX_JWKS_HOSTS
          MaxHostLength,  \* PG_OAUTH_MAX_HOST_LENGTH
          MaxScopes,      \* max_scopes
          MaxUrl          \* PG_OAUTH_MAX_URL_SIZE

ASSUME LimitAssumption ==
    {MaxAudiences, MaxHosts, MaxHostLength, MaxScopes, MaxUrl} \subseteq Nat

\* isspace, iscntrl, isalnum and tolower in the "C" locale.
Space == {32} \cup 9 .. 13
Control == 0 .. 31 \cup {127}
Alnum == 48 .. 57 \cup 65 .. 90 \cup 97 .. 122
lower(c) == IF c \in 65 .. 90 THEN c + 32 ELSE c

\* The first position at or after i of a byte in S, or the end of s.
next(s, i, S) ==
    LET P == {j \in i .. Len(s) : s[j] \in S}
    IN  IF P = {} THEN Len(s) + 1 ELSE CHOOSE j \in P : \A k \in P : j <= k

-----------------------------------------------------------------------------
(* Identities.                                                             *)

\* identity.c: how many bytes follow the first one; -1 for none that may lead.
continuations(first) ==
    IF first \in 194 .. 223 THEN 1
    ELSE IF first \in 224 .. 239 THEN 2
    ELSE IF first \in 240 .. 244 THEN 3
    ELSE -1

\* Its bits, then six of each continuation.
codepoint(s, i, n) ==
    LET c(k) == s[i + k] % 64
    IN  CASE n = 1 -> (s[i] % 32) * 64 + c(1)
          [] n = 2 -> (s[i] % 16) * 4096 + c(1) * 64 + c(2)
          [] n = 3 -> (s[i] % 8) * 262144 + c(1) * 4096 + c(2) * 64 + c(3)

\* No C1 control, no surrogate and nothing beyond the last code point.
admitted(c) ==
    ~(128 <= c /\ c <= 159) /\ ~(55296 <= c /\ c <= 57343) /\ c <= 1114111

valid_sequence_Overlong(s, i, n) ==
    /\ n > 0 /\ n <= Len(s) - i
    /\ \A k \in 1 .. n : s[i + k] \in 128 .. 191
    /\ admitted(codepoint(s, i, n))

valid_sequence(s, i, n) ==
    /\ n > 0 /\ n <= Len(s) - i
    /\ \A k \in 1 .. n : s[i + k] \in 128 .. 191
    /\ n = 2 => codepoint(s, i, n) >= 2048
    /\ n = 3 => codepoint(s, i, n) >= 65536
    /\ admitted(codepoint(s, i, n))

valid_utf8(s) ==
    LET from[i \in 1 .. Len(s) + 1] ==
            IF i > Len(s) THEN TRUE
            ELSE IF s[i] <= 127 THEN s[i] \notin Control /\ from[i + 1]
            ELSE LET n == continuations(s[i])
                 IN  valid_sequence(s, i, n) /\ from[i + n + 1]
    IN  from[1]

\* claims.c, without the bound on the length.
valid_identity_string(s) ==
    /\ s # <<>>
    /\ \A i \in 1 .. Len(s) :
            /\ s[i] \notin Control
            /\ ~(s[i] = 194 /\ i < Len(s) /\ s[i + 1] \in 128 .. 159)

-----------------------------------------------------------------------------
(* Comma-separated lists.                                                  *)

Comma == {44}

\* The entry that starts at i: where its text begins, the position after the
\* trimmed text and the comma that ends it.
entry(s, i, Blank) ==
    LET end == next(s, i, Comma)
        first == next(s, i, (0 .. 255) \ Blank)
        last == {j \in first .. end - 1 : s[j] \notin Blank}
    IN  [end |-> end,
         text |-> IF last = {} THEN <<>>
                  ELSE SubSeq(s, first, CHOOSE j \in last : \A k \in last : k <= j)]

\* policy.c.
validate_audiences(s) ==
    LET from[at \in [i : 1 .. Len(s) + 1, count : 0 .. MaxAudiences]] ==
            IF at.i > Len(s) THEN FALSE
            ELSE LET e == entry(s, at.i, Space)
                 IN  /\ e.text # <<>> /\ at.count < MaxAudiences
                     /\ \A j \in 1 .. Len(e.text) : e.text[j] \notin Control
                     /\ e.end > Len(s) \/ from[[i |-> e.end + 1, count |-> at.count + 1]]
    IN  from[[i |-> 1, count |-> 0]]

audience_equal_Prefix(text, token) ==
    Len(text) >= Len(token) /\ SubSeq(text, 1, Len(token)) = token

audience_equal(text, token) == text = token

\* claims.c.
configured_audience_matches(s, token) ==
    LET from[at \in [i : 1 .. Len(s) + 1, count : 0 .. MaxAudiences]] ==
            IF at.i > Len(s) THEN FALSE
            ELSE LET e == entry(s, at.i, Space)
                 IN  /\ e.text # <<>> /\ at.count < MaxAudiences
                     /\ \/ audience_equal(e.text, token)
                        \/ e.end <= Len(s) /\ from[[i |-> e.end + 1, count |-> at.count + 1]]
    IN  from[[i |-> 1, count |-> 0]]

\* policy.c.
validate_jwks_hosts(s) ==
    LET from[at \in [i : 1 .. Len(s) + 1, count : 0 .. MaxHosts]] ==
            IF at.i > Len(s) THEN FALSE
            ELSE LET t == entry(s, at.i, Space).text
                     end == entry(s, at.i, Space).end
                 IN  /\ Len(t) \in 1 .. MaxHostLength /\ at.count < MaxHosts
                     /\ t[1] \in Alnum /\ t[Len(t)] \in Alnum
                     /\ \A j \in 1 .. Len(t) : t[j] \in Alnum \cup {45, 46}
                     /\ end > Len(s) \/ from[[i |-> end + 1, count |-> at.count + 1]]
    IN  s = <<>> \/ from[[i |-> 1, count |-> 0]]

same_host(a, b) == Len(a) = Len(b) /\ \A i \in 1 .. Len(a) : lower(a[i]) = lower(b[i])

\* http_transport.c: blanks and tabs only are trimmed.
host_in_list(host, s) ==
    LET from[i \in 1 .. Len(s) + 1] ==
            IF i > Len(s) THEN FALSE
            ELSE LET e == entry(s, i, {9, 32})
                 IN  \/ same_host(e.text, host)
                     \/ e.end <= Len(s) /\ from[e.end + 1]
    IN  from[1]

-----------------------------------------------------------------------------
(* Scope strings.                                                          *)

valid_scope_token(t) ==
    t # <<>> /\ \A i \in 1 .. Len(t) : t[i] \in {33} \cup 35 .. 91 \cup 93 .. 126

duplicate_Adjacent(tokens, t) == tokens # <<>> /\ tokens[Len(tokens)] = t

\* The slots written so far, starts and lengths, are the tokens.
duplicate(tokens, t) == \E j \in 1 .. Len(tokens) : tokens[j] = t

\* claims.c.  "stored" are the tokens in the two arrays when the loop ends.
scope_string_contains(s, required) ==
    LET from[at \in [start : 1 .. Len(s) + 2, stored : Seq(Seq(0 .. 255)),
                     found : BOOLEAN]] ==
            IF at.start > Len(s) + 1
            THEN [valid |-> TRUE, found |-> at.found, stored |-> at.stored]
            ELSE LET i == next(s, at.start, {32})
                     t == SubSeq(s, at.start, i - 1)
                 IN  IF \/ Len(at.stored) >= MaxScopes
                        \/ ~valid_scope_token(t)
                        \/ duplicate(at.stored, t)
                     THEN [valid |-> FALSE, found |-> FALSE, stored |-> at.stored]
                     ELSE from[[start |-> i + 1, stored |-> Append(at.stored, t),
                                found |-> at.found \/ t = required]]
    IN  IF s = <<>> THEN [valid |-> FALSE, found |-> FALSE, stored |-> <<>>]
        ELSE from[[start |-> 1, stored |-> <<>>, found |-> FALSE]]

-----------------------------------------------------------------------------
(* URLs: a scheme prefix, if there is one, and the bytes after it.         *)

scheme_length(u) ==
    CASE u.scheme = "https" -> 8 [] u.scheme = "http" -> 7 [] u.scheme = "" -> 0

url_length(u) == scheme_length(u) + Len(u.rest)

valid_url_octets(u) ==
    \A i \in 1 .. Len(u.rest) : u.rest[i] \in 33 .. 126 \ {92}

has(u, c) == \E i \in 1 .. Len(u.rest) : u.rest[i] = c

\* "/", "?" and "#" end the authority.
authority(u) == SubSeq(u.rest, 1, next(u.rest, 1, {47, 63, 35}) - 1)

\* Text follows the prefix.
secure(u) == u.scheme = "https" /\ u.rest # <<>>
plain(u) == u.scheme = "http" /\ u.rest # <<>>

named(u) == authority(u) # <<>> /\ ~\E i \in 1 .. Len(authority(u)) : authority(u)[i] = 64

\* metadata.c.  "curl" is the verdict of libcurl's parser: it accepts the URL,
\* finds a host and neither user, password nor fragment.
validate_url_AnyQuery(u, allow_http, issuer, curl) ==
    IF url_length(u) \notin 1 .. MaxUrl \/ ~valid_url_octets(u) \/ has(u, 35)
    THEN "invalid"
    ELSE IF ~secure(u) /\ ~plain(u) THEN "invalid"
    ELSE IF ~secure(u) /\ ~allow_http THEN "insecure"
    ELSE IF ~named(u) \/ ~curl THEN "invalid" ELSE "ok"

validate_url(u, allow_http, issuer, curl) ==
    IF url_length(u) \notin 1 .. MaxUrl \/ ~valid_url_octets(u) \/ has(u, 35)
    THEN "invalid"
    ELSE IF ~secure(u) /\ ~plain(u) THEN "invalid"
    ELSE IF ~secure(u) /\ ~allow_http THEN "insecure"
    ELSE IF ~named(u) THEN "invalid"
    ELSE IF issuer /\ has(u, 63) THEN "invalid"
    ELSE IF ~curl THEN "invalid" ELSE "ok"

\* http_transport.c.
parse_url_UserInfo(u, allow_insecure_http, curl) ==
    IF url_length(u) \notin 1 .. MaxUrl \/ ~valid_url_octets(u) THEN "invalid"
    ELSE IF ~secure(u) /\ ~plain(u) THEN "invalid"
    ELSE IF ~secure(u) /\ ~allow_insecure_http THEN "insecure"
    ELSE IF authority(u) = <<>> \/ has(u, 35) \/ ~curl THEN "invalid" ELSE "ok"

parse_url(u, allow_insecure_http, curl) ==
    IF url_length(u) \notin 1 .. MaxUrl \/ ~valid_url_octets(u) THEN "invalid"
    ELSE IF ~secure(u) /\ ~plain(u) THEN "invalid"
    ELSE IF ~secure(u) /\ ~allow_insecure_http THEN "insecure"
    ELSE IF ~named(u) \/ has(u, 35) \/ ~curl THEN "invalid" ELSE "ok"

\* pg_oauth_validator.c.  The byte "." stands for the well-known path.
WellKnown == <<46>>
NoUrl == [scheme |-> "", rest |-> <<>>]

pg_oauth_metadata_url(u) ==
    LET slash == u.rest = <<>> \/ u.rest[Len(u.rest)] = 47
        suffix == IF slash THEN WellKnown ELSE <<47>> \o WellKnown
    IN  IF url_length(u) \notin 1 .. MaxUrl
           \/ Len(suffix) > MaxUrl - url_length(u)
        THEN NoUrl
        ELSE [u EXCEPT !.rest = @ \o suffix]
=============================================================================
