--------------------------- MODULE HttpTransport ----------------------------
(***************************************************************************)
(* src/http_transport.c: one call of pg_oauth_http_get_json.  It checks    *)
(* the URL against the policy, drives libcurl's multi interface in waits   *)
(* of at most 50 ms between which it looks for an interrupt, collects      *)
(* header values and body in libcurl's callbacks, classifies the outcome   *)
(* and releases all it holds.  libcurl chooses how it cuts the response    *)
(* into callbacks; signal handlers may set InterruptPending between any    *)
(* two steps.                                                              *)
(*                                                                         *)
(* A body chunk and a header value are their lengths.                      *)
(* An operator X_Y is X with a mistake, for the mutants of PROJECT.json.   *)
(***************************************************************************)
EXTENDS Integers

CONSTANTS
    Hosts,            \* host names
    allowed_host,     \* policy->allowed_host, the issuer's
    additional_allowed_hosts,
                      \* the entries of the comma-separated list
    allow_insecure_http,
    cancelable,       \* policy->cancel_requested is set
    max_response_size,
    HeaderMax,        \* PG_OAUTH_MAX_FRESHNESS_HEADER_SIZE
    SizeMax,          \* SIZE_MAX
    Timeout,          \* total_timeout_ms, in polls
    ChunkSizes,       \* lengths of body chunks
    ValueSizes,       \* lengths of header values
    MaxLines          \* bound on the header lines of a response

ASSUME TransportAssumption ==
    /\ allowed_host \in Hosts
    /\ additional_allowed_hosts \subseteq Hosts
    /\ allow_insecure_http \in BOOLEAN
    /\ cancelable \in BOOLEAN
    /\ max_response_size \in Nat \ {0}
    /\ HeaderMax \in Nat
    /\ SizeMax \in Nat
    /\ Timeout \in Nat \ {0}
    /\ ChunkSizes \subseteq Nat
    /\ ValueSizes \subseteq Nat
    /\ MaxLines \in Nat

VARIABLES
    pc,         \* where the call is
    url,        \* its argument
    held,       \* its locals that are set: pointers and added_to_multi
    live,       \* what exists: allocated and not freed
    body,       \* ResponseBuffer: whether data is set, length
    lines,      \* header lines so far
    flags,      \* too_large and out_of_memory of the two buffers
    timeout,    \* CURLOPT_TIMEOUT_MS, 0 for none
    elapsed,    \* time since the transfer started
    transfer,   \* libcurl's result, "running" before there is one
    interrupt,  \* InterruptPending
    late,       \* waits that ended with the interrupt pending
    error,      \* the result
    response    \* *response: lengths of body and headers, -1 for NULL

vars == <<pc, url, held, live, body, lines, flags, timeout, elapsed, transfer,
          interrupt, late, error, response>>

Fields == {"cache_control", "date", "expires", "age"}

\* What parse_url looks at: length within max_url_size and printable bytes,
\* scheme, an authority without user information or fragment, and whether
\* libcurl parses it.
Url == [clean: BOOLEAN, scheme: {"https", "http", "other"},
        plain: BOOLEAN, parses: BOOLEAN, host: Hosts]

\* "added" is libcurl's link from the multi handle to the easy handle.
Locals == {"url", "handle", "slist", "multi", "added"}
Resources == Locals \cup Fields \cup {"body"}

CurlResults ==
    {"ok", "write_error", "filesize_exceeded", "timedout", "tls", "failed"}

Errors ==
    {"none", "ok", "invalid_url", "insecure_url", "host_not_allowed",
     "timeout", "interrupted", "tls_failure", "response_too_large", "status",
     "content_type", "network_failure", "out_of_memory"}

NoHeaders == [f \in Fields |-> -1]
NoResponse == [body |-> -1, headers |-> NoHeaders]

Init ==
    /\ pc = "call"
    /\ url \in Url
    /\ held = {}
    /\ live = {}
    /\ body = [allocated |-> FALSE, length |-> 0]
    /\ lines = 0
    /\ flags = {}
    /\ timeout = 0
    /\ elapsed = 0
    /\ transfer = "running"
    /\ interrupt = FALSE
    /\ late = 0
    /\ error = "none"
    /\ response = NoResponse

-----------------------------------------------------------------------------
(* The URL policy *)

\* curl_url() may return NULL.
parse_url(u, memory) ==
    IF ~u.clean THEN "invalid_url"
    ELSE IF u.scheme = "other" THEN "invalid_url"
    ELSE IF u.scheme = "http" /\ ~allow_insecure_http THEN "insecure_url"
    ELSE IF ~u.plain THEN "invalid_url"
    ELSE IF ~memory THEN "out_of_memory"
    ELSE IF ~u.parses THEN "invalid_url"
    ELSE "ok"

host_in_list(h) == h \in additional_allowed_hosts

validate_request_url(u, memory) ==
    IF parse_url(u, memory) # "ok" THEN parse_url(u, memory)
    ELSE IF u.host # allowed_host /\ ~host_in_list(u.host)
    THEN "host_not_allowed"
    ELSE "ok"

-----------------------------------------------------------------------------
(* Leaving the function *)

\* A jump to done with an error.
Abort(e) ==
    /\ error' = e
    /\ pc' = "done"

\* What *response points to.
Owned(r) ==
    {f \in Fields : r.headers[f] # -1} \cup (IF r.body # -1 THEN {"body"} ELSE {})

\* One line of the label done.
Release(from, to, objects) ==
    /\ pc = from
    /\ pc' = to
    /\ live' = live \ objects
    /\ UNCHANGED <<url, held, body, lines, flags, timeout, elapsed, transfer,
                   interrupt, late, error>>

FreeBuffer ==
    /\ Release("done", "clear", IF body.allocated THEN {"body"} ELSE {})
    /\ UNCHANGED response

\* pg_oauth_http_response_clear, unless the call succeeded.
ClearResponse ==
    \/ /\ error # "ok"
       /\ Release("clear", "free_slist", Owned(response))
       /\ response' = NoResponse
    \/ /\ error = "ok"
       /\ Release("clear", "free_slist", {})
       /\ UNCHANGED response

FreeSlist ==
    /\ Release("free_slist", "remove_handle", held \cap {"slist"})
    /\ UNCHANGED response

RemoveHandle ==
    /\ Release("remove_handle", "multi_cleanup", held \cap {"added"})
    /\ UNCHANGED response

MultiCleanup ==
    /\ Release("multi_cleanup", "easy_cleanup", held \cap {"multi"})
    /\ UNCHANGED response

EasyCleanup ==
    /\ Release("easy_cleanup", "url_cleanup", held \cap {"handle"})
    /\ UNCHANGED response

UrlCleanup ==
    /\ Release("url_cleanup", "returned", held \cap {"url"})
    /\ UNCHANGED response

Cleanup ==
    \/ FreeBuffer
    \/ ClearResponse
    \/ FreeSlist
    \/ RemoveHandle
    \/ MultiCleanup
    \/ EasyCleanup
    \/ UrlCleanup

-----------------------------------------------------------------------------
(* Before the transfer *)

Acquire(objects) ==
    /\ held' = held \cup objects
    /\ live' = live \cup objects

\* A refused URL is released where it was parsed, and the call returns.
ValidateUrl ==
    /\ pc = "call"
    /\ \E memory \in BOOLEAN :
            /\ error' = validate_request_url(url, memory)
            /\ IF validate_request_url(url, memory) = "ok"
               THEN pc' = "setup" /\ Acquire({"url"})
               ELSE pc' = "returned" /\ UNCHANGED <<held, live>>
    /\ UNCHANGED <<url, body, lines, flags, timeout, elapsed, transfer,
                   interrupt, late, response>>

\* curl_easy_init and curl_slist_append, or a libcurl that cannot be
\* cancelled.
SetUp ==
    /\ pc = "setup"
    /\ \/ Abort("out_of_memory") /\ UNCHANGED <<held, live>>
       \/ cancelable /\ Abort("network_failure") /\ Acquire({"handle"})
       \/ Abort("out_of_memory") /\ Acquire({"handle"})
       \/ pc' = "options" /\ Acquire({"handle", "slist"}) /\ UNCHANGED error
    /\ UNCHANGED <<url, body, lines, flags, timeout, elapsed, transfer,
                   interrupt, late, response>>

SetOptions_NoTimeout ==
    /\ pc = "options"
    /\ pc' = "multi"
    /\ UNCHANGED <<url, held, live, body, lines, flags, timeout, elapsed,
                   transfer, interrupt, late, error, response>>

\* The SETOPT sequence.  Of all options only the timeout matters here.
SetOptions ==
    /\ pc = "options"
    /\ \/ Abort("network_failure") /\ UNCHANGED timeout
       \/ /\ pc' = "multi"
          /\ timeout' = Timeout
          /\ UNCHANGED error
    /\ UNCHANGED <<url, held, live, body, lines, flags, elapsed, transfer,
                   interrupt, late, response>>

StartMulti ==
    /\ pc = "multi"
    /\ \/ Abort("out_of_memory") /\ UNCHANGED <<held, live>>
       \/ Abort("network_failure") /\ Acquire({"multi"})
       \/ pc' = "check" /\ Acquire({"multi", "added"}) /\ UNCHANGED error
    /\ UNCHANGED <<url, body, lines, flags, timeout, elapsed, transfer,
                   interrupt, late, response>>

-----------------------------------------------------------------------------
(* The transfer loop *)

CheckCancel_OnlyFirst ==
    /\ pc = "check"
    /\ IF cancelable /\ interrupt /\ elapsed = 0
       THEN Abort("interrupted")
       ELSE pc' = "perform" /\ UNCHANGED error
    /\ UNCHANGED <<url, held, live, body, lines, flags, timeout, elapsed,
                   transfer, interrupt, late, response>>

CheckCancel ==
    /\ pc = "check"
    /\ IF cancelable /\ interrupt
       THEN Abort("interrupted")
       ELSE pc' = "perform" /\ UNCHANGED error
    /\ UNCHANGED <<url, held, live, body, lines, flags, timeout, elapsed,
                   transfer, interrupt, late, response>>

\* size_t subtraction
Minus(a, b) == (a - b) % (SizeMax + 1)

append_header_value(current, length) ==
    LET separator == IF current > 0 THEN 1 ELSE 0
    IN  IF length > Minus(Minus(HeaderMax, current), separator) THEN -1
        ELSE current + separator + length

\* capture_header on a line of one of the four fields: a callback inside
\* curl_multi_perform.
CaptureHeader(f, length) ==
    LET old == response.headers[f]
        current == IF old = -1 THEN 0 ELSE old
        joined == append_header_value(current, length)
    IN  /\ pc = "perform"
        /\ transfer = "running"
        /\ lines < MaxLines
        /\ lines' = lines + 1
        /\ \/ /\ joined # -1
              /\ response' = [response EXCEPT !.headers[f] = joined]
              /\ live' = live \cup {f}
              /\ UNCHANGED <<flags, transfer>>
           \/ \* too long, or realloc fails
              /\ flags' = flags \cup
                    {IF old # -1 \/ length > HeaderMax THEN "too_large"
                     ELSE "out_of_memory"}
              /\ transfer' = "write_error"
              /\ UNCHANGED <<response, live>>
        /\ UNCHANGED <<pc, url, held, body, timeout, elapsed, interrupt, late,
                       error>>

append_response_ChunkOnly(length) ==
    IF length > max_response_size THEN -1 ELSE body.length + length

\* The new length of the body, or -1.
append_response(length) ==
    IF length > max_response_size - body.length THEN -1
    ELSE body.length + length

AppendResponse(length) ==
    LET grown == append_response(length)
    IN  /\ pc = "perform"
        /\ transfer = "running"
        /\ \/ /\ grown # -1
              /\ body' = [allocated |-> TRUE, length |-> grown]
              /\ live' = live \cup {"body"}
              /\ UNCHANGED <<flags, transfer>>
           \/ /\ flags' = flags \cup
                    {IF grown = -1 THEN "too_large" ELSE "out_of_memory"}
              /\ transfer' = "write_error"
              /\ UNCHANGED <<body, live>>
        /\ UNCHANGED <<pc, url, held, lines, timeout, elapsed, interrupt,
                       late, error, response>>

\* libcurl ends the transfer: its own limits, a failure, or success.
EndTransfer ==
    /\ pc = "perform"
    /\ transfer = "running"
    /\ transfer' \in CurlResults \ {"write_error"}
    /\ UNCHANGED <<pc, url, held, live, body, lines, flags, timeout,
                   elapsed, interrupt, late, error, response>>

TimeIsUp == timeout # 0 /\ elapsed >= timeout

\* curl_multi_perform returns with or without a running transfer.  One that
\* is past its timeout is not running.
ReturnPerform ==
    /\ pc = "perform"
    /\ transfer = "running" => ~TimeIsUp
    /\ pc' = IF transfer = "running" THEN "poll" ELSE "finish"
    /\ UNCHANGED <<url, held, live, body, lines, flags, timeout, elapsed,
                   transfer, interrupt, late, error, response>>

\* It returns an error.
PerformFails ==
    /\ pc = "perform"
    /\ Abort("network_failure")
    /\ UNCHANGED <<url, held, live, body, lines, flags, timeout, elapsed,
                   transfer, interrupt, late, response>>

Poll ==
    /\ pc = "poll"
    /\ \/ Abort("network_failure") /\ UNCHANGED <<elapsed, late>>
       \/ /\ pc' = "check"
          /\ elapsed' = IF elapsed < Timeout THEN elapsed + 1 ELSE elapsed
          /\ late' = IF interrupt /\ late < 2 THEN late + 1 ELSE late
          /\ UNCHANGED error
    /\ UNCHANGED <<url, held, live, body, lines, flags, timeout, transfer,
                   interrupt, response>>

-----------------------------------------------------------------------------
(* After the transfer *)

classify ==
    IF "too_large" \in flags \/ transfer = "filesize_exceeded"
    THEN "response_too_large"
    ELSE IF "out_of_memory" \in flags THEN "out_of_memory"
    ELSE IF transfer = "timedout" THEN "timeout"
    ELSE IF transfer = "tls" THEN "tls_failure"
    ELSE "network_failure"

Finish ==
    /\ pc = "finish"
    /\ \/ cancelable /\ interrupt /\ Abort("interrupted")
       \/ /\ ~(cancelable /\ interrupt)
          /\ \/ Abort("network_failure")
             \/ transfer # "ok" /\ Abort(classify)
             \/ /\ transfer = "ok"
                /\ \/ Abort("status")
                   \/ Abort("content_type")
                   \/ pc' = "body" /\ UNCHANGED error
    /\ UNCHANGED <<url, held, live, body, lines, flags, timeout, elapsed,
                   transfer, interrupt, late, response>>

\* Gives the caller what there is, be it NULL.
TakeBody_AsIs ==
    /\ pc = "body"
    /\ Abort("ok")
    /\ response' = [response EXCEPT !.body = IF body.allocated THEN body.length
                                            ELSE -1]
    /\ body' = [body EXCEPT !.allocated = FALSE]
    /\ UNCHANGED live
    /\ UNCHANGED <<url, held, lines, flags, timeout, elapsed, transfer,
                   interrupt, late>>

\* Leaves buffer.data as it is.
TakeBody_Shared ==
    /\ pc = "body"
    /\ Abort("ok")
    /\ response' = [response EXCEPT !.body = body.length]
    /\ live' = live \cup {"body"}
    /\ UNCHANGED body
    /\ UNCHANGED <<url, held, lines, flags, timeout, elapsed, transfer,
                   interrupt, late>>

\* The buffer is moved to *response.  A response without a body gets an empty
\* one, if there is memory.
TakeBody ==
    /\ pc = "body"
    /\ \/ /\ Abort("ok")
          /\ response' = [response EXCEPT !.body = body.length]
          /\ body' = [body EXCEPT !.allocated = FALSE]
          /\ live' = live \cup {"body"}
       \/ /\ ~body.allocated
          /\ Abort("out_of_memory")
          /\ UNCHANGED <<response, body, live>>
    /\ UNCHANGED <<url, held, lines, flags, timeout, elapsed, transfer,
                   interrupt, late>>

-----------------------------------------------------------------------------
\* A signal handler.
Interrupt ==
    /\ pc # "returned"
    /\ ~interrupt
    /\ interrupt' = TRUE
    /\ UNCHANGED <<pc, url, held, live, body, lines, flags, timeout,
                   elapsed, transfer, late, error, response>>

\* The steps of the function itself, those of libcurl among them.
Step ==
    \/ ValidateUrl
    \/ SetUp
    \/ SetOptions
    \/ StartMulti
    \/ CheckCancel
    \/ ReturnPerform
    \/ Poll
    \/ Finish
    \/ TakeBody
    \/ Cleanup

Callback ==
    \/ \E f \in Fields, n \in ValueSizes : CaptureHeader(f, n)
    \/ \E n \in ChunkSizes : AppendResponse(n)
    \/ EndTransfer

Next == Step \/ PerformFails \/ Callback \/ Interrupt

Spec == Init /\ [][Next]_vars

\* The process runs, curl_multi_perform returns, and libcurl ends a transfer
\* that has used up the timeout it was given.
Fairness ==
    /\ WF_vars(Step)
    /\ WF_vars(TimeIsUp /\ EndTransfer)

FairSpec == Spec /\ Fairness

-----------------------------------------------------------------------------
(* Types, and that a transfer has the policy's timeout or none yet.        *)
TypeOK ==
    /\ pc \in {"call", "setup", "options", "multi", "check", "perform", "poll",
               "finish", "body", "done", "clear", "free_slist",
               "remove_handle", "multi_cleanup", "easy_cleanup",
               "url_cleanup", "returned"}
    /\ url \in Url
    /\ held \subseteq Locals
    /\ live \subseteq Resources
    /\ body \in [allocated: BOOLEAN, length: Nat]
    /\ lines \in 0 .. MaxLines
    /\ flags \subseteq {"too_large", "out_of_memory"}
    /\ timeout \in {0, Timeout}
    /\ elapsed \in 0 .. Timeout
    /\ transfer \in CurlResults \cup {"running"}
    /\ interrupt \in BOOLEAN
    /\ late \in 0 .. 2
    /\ error \in Errors
    /\ response \in [body: Nat \cup {-1}, headers: [Fields -> Nat \cup {-1}]]

(* However libcurl cuts the response, the body stays within                *)
(* max_response_size.                                                      *)
BodyBounded == body.length <= max_response_size

(* A caller that gets PG_OAUTH_HTTP_OK gets all of a body, be it empty,    *)
(* and the headers: nothing was cut off.  issuer_key.c releases the        *)
(* refresh of a document that does not parse only because of it.           *)
OkIsComplete ==
    pc = "returned" /\ error = "ok" =>
        /\ response.body = body.length
        /\ transfer = "ok" /\ flags = {}

(* Whatever fails, what the call allocates has one owner.  When it returns *)
(* just what *response points to is left, nothing after an error.  What    *)
(* *response points to has not been freed and is not the buffer's too, and *)
(* libcurl frees neither handle while one is in the other.                 *)
OwnedOnce ==
    /\ pc = "returned" => live = Owned(response)
    /\ pc = "returned" /\ error # "ok" => response = NoResponse
    /\ Owned(response) \subseteq live
    /\ body.allocated => response.body = -1
    /\ "added" \in live => {"handle", "multi"} \subseteq live

(* The function starts no transfer but to a host of the policy, over HTTPS *)
(* unless the policy allows otherwise.                                     *)
OnlyAllowedHosts ==
    "handle" \in held =>
        /\ url.host \in {allowed_host} \cup additional_allowed_hosts
        /\ url.scheme = "https" \/ allow_insecure_http

(* docs/configuration.md: interrupts are looked for between waits.  Once   *)
(* one is pending at most the wait in progress goes on, and the call does  *)
(* not return a document fetched after it.                                 *)
CancelWithinOneWait ==
    cancelable =>
        /\ late <= 1
        /\ late > 0 /\ pc = "returned" => error # "ok"

(* The call returns, whatever the server does.                             *)
CallReturns == <>(pc = "returned")

-----------------------------------------------------------------------------
(* docs/architecture.md: freshness is computed from "bounded cache         *)
(* headers".  No captured header grows beyond                              *)
(* PG_OAUTH_MAX_FRESHNESS_HEADER_SIZE; the run that checks this ends in a  *)
(* counterexample.                                                         *)
HeadersBounded == \A f \in Fields : response.headers[f] <= HeaderMax
=============================================================================
