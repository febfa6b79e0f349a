SPECIFICATION Spec
CONSTANTS
    Hosts = {issuer, keys, other}
    allowed_host = issuer
    additional_allowed_hosts = {keys}
    allow_insecure_http = FALSE
    cancelable = TRUE
    max_response_size = 3
    HeaderMax = 3
    SizeMax = 15
    Timeout = 2
    ChunkSizes = {0, 2}
    ValueSizes = {1, 3}
    MaxLines = 2
CHECK_DEADLOCK FALSE
INVARIANTS
    HeadersBounded
