------------------------------ MODULE Metadata ------------------------------
(* Issuer metadata (metadata.c) and the URLs the callback derives.         *)
EXTENDS JsonValues

CONSTANTS Scheme,       \* of each URL: "https", "http", or "invalid" for the
                        \* texts that both parsers refuse with any policy
          Query,        \* the URLs with a "?"
          Host,         \* what libcurl takes for the host
          MetadataUrl   \* pg_oauth_metadata_url, and "" for NULL

\* metadata.c; TextChecks has its bytes.
validate_url(x, allow_http, issuer) ==
    IF Scheme[x] = "http" /\ ~allow_http THEN "insecure_uri"
    ELSE IF Scheme[x] = "invalid" \/ (issuer /\ x \in Query) THEN "invalid_jwks_uri"
    ELSE "ok"

\* http_transport.c; TextChecks has its bytes.
parse_url(x, allow_http) ==
    IF Scheme[x] = "http" /\ ~allow_http THEN "insecure_url"
    ELSE IF Scheme[x] = "invalid" THEN "invalid_url"
    ELSE "ok"

\* doc.memory: there is memory for a copy of jwks_uri.
pg_oauth_metadata_parse(doc, issuer, p) ==
    IF p.max_document_size = 0 THEN "invalid_argument"
    ELSE IF doc.size = 0 THEN "empty"
    ELSE IF doc.size > p.max_document_size THEN "too_large"
    ELSE IF validate_url(issuer, p.allow_insecure_http, TRUE) # "ok" THEN "invalid_issuer"
    ELSE IF ~doc.json THEN "invalid_json"
    ELSE IF ~is_string(doc.issuer) THEN "invalid_issuer"
    ELSE IF doc.issuer.str # issuer THEN "issuer_mismatch"
    ELSE IF ~is_string(doc.jwks_uri) THEN "invalid_jwks_uri"
    ELSE IF validate_url(doc.jwks_uri.str, p.allow_insecure_http, FALSE) # "ok"
         THEN validate_url(doc.jwks_uri.str, p.allow_insecure_http, FALSE)
    ELSE IF ~doc.memory THEN "invalid_argument"
    ELSE "ok"
=============================================================================
