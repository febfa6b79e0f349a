---------------------------- MODULE HttpProofs -----------------------------
(***************************************************************************)
(* The safety of one HTTP request for every policy, every limit and every  *)
(* way libcurl cuts a response into callbacks; and how long a response may *)
(* be reused, for every number and order of header lines.                  *)
(***************************************************************************)
EXTENDS HttpTransport, HttpFreshness, WellFoundedInduction, TLAPS

-----------------------------------------------------------------------------
(* src/http_transport.c: one request *)

\* The label done and what is behind it.
Ended == {"done", "clear", "free_slist", "remove_handle", "multi_cleanup",
          "easy_cleanup", "url_cleanup", "returned"}

\* The locals that the clean-up has not freed at point p.
Left(p) ==
    CASE p = "remove_handle" -> {"url", "handle", "multi", "added"}
      [] p = "multi_cleanup" -> {"url", "handle", "multi"}
      [] p = "easy_cleanup" -> {"url", "handle"}
      [] p = "url_cleanup" -> {"url"}
      [] p = "returned" -> {}
      [] OTHER -> Locals

\* What exists is a local, or *response points to it, or it is the buffer.
LiveOwned ==
    /\ \A x \in Locals : x \in live <=> x \in held /\ x \in Left(pc)
    /\ \A f \in Fields : f \in live <=> response.headers[f] # -1
    /\ "body" \in live <=> \/ response.body # -1
                           \/ body.allocated /\ pc \notin Ended \ {"done"}

\* A callback that could not store its data made libcurl end the transfer.
RefusalEndsTransfer == flags # {} => transfer = "write_error"

\* Nothing is captured before the URL is validated.
NothingYet == pc = "call" => response = NoResponse /\ ~body.allocated

\* The body is in the buffer or, with a transfer that libcurl completed, moved.
BodyMoved ==
    /\ pc = "body" => transfer = "ok"
    /\ IF pc \in Ended /\ error = "ok"
       THEN transfer = "ok" /\ ~body.allocated /\ response.body = body.length
       ELSE response.body = -1

\* After an error *response is cleared.
Cleared == pc \in Ended \ {"done", "clear"} /\ error # "ok" => response = NoResponse

\* What the call acquires, in order: nothing before the URL was validated, and
\* the handle before the multi handle it is added to.
Acquired ==
    /\ pc = "call" => held = {}
    /\ pc \notin Ended \cup {"call"} => "url" \in held
    /\ pc \notin Ended \cup {"call", "setup"} => "handle" \in held
    /\ "added" \in held => {"handle", "multi"} \subseteq held
    /\ held # {} => validate_request_url(url, TRUE) = "ok"

\* After a wait with a pending interrupt the next step leaves the loop.
LateStops ==
    cancelable /\ late > 0 =>
        /\ late = 1 /\ interrupt
        /\ pc = "check" \/ (pc \in Ended /\ error # "ok")

\* The inductive invariant.
IInv ==
    /\ TypeOK /\ BodyBounded /\ RefusalEndsTransfer
    /\ LiveOwned
    /\ NothingYet /\ BodyMoved /\ Cleared
    /\ Acquired /\ LateStops

\* A call that has not begun satisfies the invariant.
LEMMA TransportInit == Init => IInv
<1> SUFFICES ASSUME Init PROVE IInv
  OBVIOUS
<1> USE TransportAssumption DEF Init
<1>1. TypeOK
  <2>1. NoHeaders \in [Fields -> Nat \cup {-1}]
    BY Zenon DEF NoHeaders
  <2>2. response \in [body: Nat \cup {-1}, headers: [Fields -> Nat \cup {-1}]]
    BY <2>1, Zenon DEF NoResponse
  <2>3. body \in [allocated: BOOLEAN, length: Nat]
    OBVIOUS
  <2>4. interrupt \in BOOLEAN
    BY Zenon
  <2>5. /\ timeout \in {0, Timeout} /\ elapsed \in 0 .. Timeout
        /\ lines \in 0 .. MaxLines /\ late \in 0 .. 2
    OBVIOUS
  <2>6. /\ held \subseteq Locals /\ live \subseteq Resources
        /\ flags \subseteq {"too_large", "out_of_memory"}
        /\ transfer \in CurlResults \cup {"running"} /\ error \in Errors
    BY Zenon DEF Errors
  <2>7. url \in Url /\ pc = "call"
    OBVIOUS
  <2> HIDE DEF Init
  <2> QED BY <2>2, <2>3, <2>4, <2>5, <2>6, <2>7, Zenon DEF TypeOK
<1>2. BodyBounded /\ RefusalEndsTransfer /\ Acquired /\ LateStops
  BY DEF BodyBounded, RefusalEndsTransfer, Acquired, LateStops, Ended
<1>3. NothingYet /\ BodyMoved /\ Cleared
  BY Zenon DEF NothingYet, BodyMoved, Cleared, NoResponse, Ended
<1>4. LiveOwned
  BY Zenon DEF LiveOwned, NoResponse, NoHeaders
<1> QED BY <1>1, <1>2, <1>3, <1>4, Zenon DEF IInv

\* The clean-up frees the locals one by one.
LEMMA LeftAll ==
    /\ \A p : p \notin Ended \cup {"returned"} => Left(p) = Locals
    /\ Left("done") = Locals /\ Left("clear") = Locals /\ Left("free_slist") = Locals
    /\ Left("remove_handle") = {"url", "handle", "multi", "added"}
    /\ Left("multi_cleanup") = {"url", "handle", "multi"}
    /\ Left("easy_cleanup") = {"url", "handle"}
    /\ Left("url_cleanup") = {"url"} /\ Left("returned") = {}
  BY Zenon DEF Left, Ended

\* The verdicts of validate_request_url are results of the call, and with
\* memory it accepts no less.
LEMMA UrlVerdict ==
    ASSUME NEW memory \in BOOLEAN
    PROVE  /\ validate_request_url(url, memory) \in Errors \ {"none"}
           /\ validate_request_url(url, memory) = "ok" => validate_request_url(url, TRUE) = "ok"
  BY Zenon DEF validate_request_url, parse_url, Errors

\* A captured value has a length, whatever the size_t arithmetic came to.
LEMMA HeaderLength ==
    ASSUME NEW current \in Nat, NEW length \in Nat
    PROVE  append_header_value(current, length) \in Nat \cup {-1}
  BY DEF append_header_value

\* Before the transfer: what fails goes to the clean-up with an error.
LEMMA SetUpKeepsInv ==
    ASSUME IInv, ValidateUrl \/ SetUp \/ SetOptions \/ StartMulti
    PROVE  IInv'
<1> USE TransportAssumption DEF IInv
<1>1. CASE ValidateUrl
  <2> PICK memory \in BOOLEAN :
        /\ error' = validate_request_url(url, memory)
        /\ IF validate_request_url(url, memory) = "ok"
           THEN pc' = "setup" /\ Acquire({"url"})
           ELSE pc' = "returned" /\ UNCHANGED <<held, live>>
    BY <1>1, Zenon DEF ValidateUrl
  <2>a. /\ pc = "call" /\ UNCHANGED <<url, body, lines, flags, timeout, elapsed, transfer>>
        /\ UNCHANGED <<interrupt, late, response>>
    BY <1>1, Zenon DEF ValidateUrl
  <2> USE <2>a
  <2> USE DEF Acquire
  <2>1. TypeOK'
    BY ZenonT(30), UrlVerdict DEF TypeOK, Locals, Resources, Errors
  <2>2. (BodyBounded /\ RefusalEndsTransfer)'
    BY Zenon DEF TypeOK, BodyBounded, RefusalEndsTransfer
  <2>3. LiveOwned'
    <3>1. /\ held = {} /\ response = NoResponse /\ ~body.allocated
          /\ Left(pc) = Locals /\ Left("setup") = Locals /\ Left("returned") = {}
      BY <2>a, LeftAll, Zenon DEF NothingYet, Acquired, Ended
    <3>2. CASE pc' = "setup" /\ Acquire({"url"})
      BY <3>1, <3>2, Zenon DEF LiveOwned, Locals, Fields, Ended
    <3>3. CASE pc' = "returned" /\ UNCHANGED <<held, live>>
      BY <3>1, <3>3, Zenon DEF LiveOwned, Locals, Fields, Ended
    <3> QED BY <3>2, <3>3, Zenon
  <2>4. (NothingYet /\ BodyMoved /\ Cleared)'
    BY Zenon DEF TypeOK, NothingYet, BodyMoved, Cleared, Ended
  <2>5. (Acquired /\ LateStops)'
    <3>1. held = {}
      BY <2>a, Zenon DEF Acquired
    <3>2. Acquired'
      <4>1. CASE pc' = "setup" /\ Acquire({"url"}) /\ validate_request_url(url, memory) = "ok"
        <5>1. validate_request_url(url, TRUE) = "ok"
          BY <4>1, UrlVerdict, Zenon
        <5> QED BY <2>a, <3>1, <4>1, <5>1, Zenon DEF Acquired, Ended
      <4>2. CASE pc' = "returned" /\ UNCHANGED <<held, live>>
        BY <2>a, <3>1, <4>2, Zenon DEF Acquired, Ended
      <4> QED BY <4>1, <4>2, Zenon
    <3>3. LateStops'
      BY <2>a, Zenon DEF LateStops, Ended
    <3> QED BY <3>2, <3>3, Zenon
  <2> QED BY <2>1, <2>2, <2>3, <2>4, <2>5, Zenon
<1>2. CASE SetUp
  <2> USE <1>2 DEF SetUp, Abort, Acquire
  <2>1. TypeOK'
    BY ZenonT(60) DEF TypeOK, Acquire, Locals, Resources, Errors
  <2>2. (BodyBounded /\ RefusalEndsTransfer)'
    BY Zenon DEF TypeOK, BodyBounded, RefusalEndsTransfer
  <2>3. LiveOwned'
    BY LeftAll DEF TypeOK, LiveOwned, Ended, Locals, Fields, Acquire
  <2>4. (NothingYet /\ BodyMoved /\ Cleared)'
    BY Zenon DEF TypeOK, NothingYet, BodyMoved, Cleared, Ended
  <2>5. (Acquired /\ LateStops)'
    BY Zenon DEF TypeOK, Acquired, LateStops, Ended
  <2> QED BY <2>1, <2>2, <2>3, <2>4, <2>5, Zenon
<1>3. CASE SetOptions
  <2> USE <1>3 DEF SetOptions, Abort
  <2>1. TypeOK'
    BY DEF TypeOK, Errors
  <2>2. (BodyBounded /\ RefusalEndsTransfer)'
    BY Zenon DEF TypeOK, BodyBounded, RefusalEndsTransfer
  <2>3. LiveOwned'
    BY LeftAll, Zenon DEF TypeOK, LiveOwned, Ended
  <2>4. (NothingYet /\ BodyMoved /\ Cleared)'
    BY Zenon DEF TypeOK, NothingYet, BodyMoved, Cleared, Ended
  <2>5. (Acquired /\ LateStops)'
    BY Zenon DEF TypeOK, Acquired, LateStops, Ended
  <2> QED BY <2>1, <2>2, <2>3, <2>4, <2>5, Zenon
<1>4. CASE StartMulti
  <2> USE <1>4 DEF StartMulti, Abort, Acquire
  <2>1. TypeOK'
    BY ZenonT(60) DEF TypeOK, Acquire, Locals, Resources, Errors
  <2>2. (BodyBounded /\ RefusalEndsTransfer)'
    BY Zenon DEF TypeOK, BodyBounded, RefusalEndsTransfer
  <2>3. LiveOwned'
    BY LeftAll DEF TypeOK, LiveOwned, Ended, Locals, Fields, Acquire
  <2>4. (NothingYet /\ BodyMoved /\ Cleared)'
    BY Zenon DEF TypeOK, NothingYet, BodyMoved, Cleared, Ended
  <2>5. (Acquired /\ LateStops)'
    BY Zenon DEF TypeOK, Acquired, LateStops, Ended
  <2> QED BY <2>1, <2>2, <2>3, <2>4, <2>5, Zenon
<1> QED BY <1>1, <1>2, <1>3, <1>4, Zenon

\* The loop around curl_multi_perform.
LEMMA LoopKeepsInv ==
    ASSUME IInv, CheckCancel \/ ReturnPerform \/ PerformFails \/ Poll
    PROVE  IInv'
<1> USE TransportAssumption DEF IInv
<1>1. CASE CheckCancel
  <2> USE <1>1 DEF CheckCancel, Abort
  <2>1. TypeOK'
    BY DEF TypeOK, Errors
  <2>2. (BodyBounded /\ RefusalEndsTransfer)'
    BY Zenon DEF TypeOK, BodyBounded, RefusalEndsTransfer
  <2>3. LiveOwned'
    BY LeftAll, Zenon DEF TypeOK, LiveOwned, Ended
  <2>4. (NothingYet /\ BodyMoved /\ Cleared)'
    BY Zenon DEF TypeOK, NothingYet, BodyMoved, Cleared, Ended
  <2>5. (Acquired /\ LateStops)'
    BY Zenon DEF TypeOK, Acquired, LateStops, Ended
  <2> QED BY <2>1, <2>2, <2>3, <2>4, <2>5, Zenon
<1>2. CASE ReturnPerform
  <2> USE <1>2 DEF ReturnPerform, Abort
  <2>1. TypeOK'
    BY DEF TypeOK, Errors
  <2>2. (BodyBounded /\ RefusalEndsTransfer)'
    BY Zenon DEF TypeOK, BodyBounded, RefusalEndsTransfer
  <2>3. LiveOwned'
    BY LeftAll, Zenon DEF TypeOK, LiveOwned, Ended
  <2>4. (NothingYet /\ BodyMoved /\ Cleared)'
    BY Zenon DEF TypeOK, NothingYet, BodyMoved, Cleared, Ended
  <2>5. (Acquired /\ LateStops)'
    BY Zenon DEF TypeOK, Acquired, LateStops, Ended
  <2> QED BY <2>1, <2>2, <2>3, <2>4, <2>5, Zenon
<1>3. CASE PerformFails
  <2> USE <1>3 DEF PerformFails, Abort
  <2>1. TypeOK'
    BY Zenon DEF TypeOK, Errors
  <2>2. (BodyBounded /\ RefusalEndsTransfer)'
    BY Zenon DEF TypeOK, BodyBounded, RefusalEndsTransfer
  <2>3. LiveOwned'
    BY LeftAll, Zenon DEF TypeOK, LiveOwned, Ended
  <2>4. (NothingYet /\ BodyMoved /\ Cleared)'
    BY Zenon DEF TypeOK, NothingYet, BodyMoved, Cleared, Ended
  <2>5. (Acquired /\ LateStops)'
    BY Zenon DEF TypeOK, Acquired, LateStops, Ended
  <2> QED BY <2>1, <2>2, <2>3, <2>4, <2>5, Zenon
<1>4. CASE Poll
  <2> USE <1>4 DEF Poll, Abort
  <2>1. TypeOK'
    BY DEF TypeOK, Errors
  <2>2. (BodyBounded /\ RefusalEndsTransfer)'
    BY Zenon DEF TypeOK, BodyBounded, RefusalEndsTransfer
  <2>3. LiveOwned'
    BY LeftAll, Zenon DEF TypeOK, LiveOwned, Ended
  <2>4. (NothingYet /\ BodyMoved /\ Cleared)'
    BY Zenon DEF TypeOK, NothingYet, BodyMoved, Cleared, Ended
  <2>5. (Acquired /\ LateStops)'
    <3>1. Acquired'
      BY Zenon DEF TypeOK, Acquired, Ended
    <3>2. LateStops'
      <4>1. late \in 0 .. 2 /\ (cancelable => ~(late > 0))
        BY Zenon DEF TypeOK, LateStops, Ended
      <4> QED BY <4>1 DEF LateStops, Ended
    <3> QED BY <3>1, <3>2, Zenon
  <2> QED BY <2>1, <2>2, <2>3, <2>4, <2>5, Zenon
<1> QED BY <1>1, <1>2, <1>3, <1>4, Zenon

\* What libcurl does in it, and signal handlers.
LEMMA CallbackKeepsInv ==
    ASSUME IInv, Callback \/ Interrupt
    PROVE  IInv'
<1> USE TransportAssumption DEF IInv
<1>1. CASE \E f \in Fields, n \in ValueSizes : CaptureHeader(f, n)
  <2> PICK f \in Fields, n \in ValueSizes : CaptureHeader(f, n)
    BY <1>1, Zenon
  <2> USE DEF CaptureHeader
  <2>1. TypeOK'
    <3>1. response.headers[f] \in Nat \cup {-1} /\ n \in Nat
      BY Zenon DEF TypeOK
    <3>2. append_header_value(IF response.headers[f] = -1 THEN 0 ELSE response.headers[f], n)
                \in Nat \cup {-1}
      BY <3>1, HeaderLength, Zenon
    <3>3. response' \in [body: Nat \cup {-1}, headers: [Fields -> Nat \cup {-1}]]
      BY <3>2 DEF TypeOK
    <3>4. lines' \in 0 .. MaxLines
      BY DEF TypeOK
    <3> QED BY ZenonT(30), <3>3, <3>4 DEF TypeOK, CurlResults, Resources
  <2>2. (BodyBounded /\ RefusalEndsTransfer)'
    BY Zenon DEF TypeOK, BodyBounded, RefusalEndsTransfer
  <2>3. LiveOwned'
    BY LeftAll DEF TypeOK, LiveOwned, Ended, Locals, Fields
  <2>4. (NothingYet /\ BodyMoved /\ Cleared)'
    BY Zenon DEF TypeOK, NothingYet, BodyMoved, Cleared, Ended
  <2>5. (Acquired /\ LateStops)'
    BY Zenon DEF TypeOK, Acquired, LateStops, Ended
  <2> QED BY <2>1, <2>2, <2>3, <2>4, <2>5, Zenon
<1>2. CASE \E n \in ChunkSizes : AppendResponse(n)
  <2> PICK n \in ChunkSizes : AppendResponse(n)
    BY <1>2, Zenon
  <2> USE DEF AppendResponse, append_response
  <2>1. TypeOK'
    <3>1. body \in [allocated: BOOLEAN, length: Nat] /\ n \in Nat
      BY Zenon DEF TypeOK
    <3>2. body' = body \/ body' = [allocated |-> TRUE, length |-> body.length + n]
      BY <3>1, Zenon
    <3>3. body.length + n \in Nat
      BY <3>1
    <3>4. body' \in [allocated: BOOLEAN, length: Nat]
      <4> HIDE DEF AppendResponse
      <4>1. [allocated |-> TRUE, length |-> body.length + n]
                \in [allocated: BOOLEAN, length: Nat]
        BY <3>3, Zenon
      <4> QED BY <3>1, <3>2, <4>1, Zenon
    <3> QED BY Zenon, <3>4 DEF TypeOK, Resources, CurlResults
  <2>2. (BodyBounded /\ RefusalEndsTransfer)'
    BY DEF TypeOK, BodyBounded, RefusalEndsTransfer
  <2>3. LiveOwned'
    BY LeftAll DEF TypeOK, LiveOwned, Ended, Locals, Fields
  <2>4. (NothingYet /\ BodyMoved /\ Cleared)'
    BY Zenon DEF TypeOK, NothingYet, BodyMoved, Cleared, Ended
  <2>5. (Acquired /\ LateStops)'
    BY Zenon DEF TypeOK, Acquired, LateStops, Ended
  <2> QED BY <2>1, <2>2, <2>3, <2>4, <2>5, Zenon
<1>3. CASE EndTransfer
  <2> USE <1>3 DEF EndTransfer
  <2>1. TypeOK'
    BY Zenon DEF TypeOK, CurlResults
  <2>2. (BodyBounded /\ RefusalEndsTransfer)'
    BY Zenon DEF TypeOK, BodyBounded, RefusalEndsTransfer
  <2>3. LiveOwned'
    BY LeftAll, Zenon DEF TypeOK, LiveOwned, Ended
  <2>4. (NothingYet /\ BodyMoved /\ Cleared)'
    BY Zenon DEF TypeOK, NothingYet, BodyMoved, Cleared, Ended
  <2>5. (Acquired /\ LateStops)'
    BY Zenon DEF TypeOK, Acquired, LateStops, Ended
  <2> QED BY <2>1, <2>2, <2>3, <2>4, <2>5, Zenon
<1>4. CASE Interrupt
  <2> USE <1>4 DEF Interrupt
  <2>1. TypeOK'
    BY Zenon DEF TypeOK
  <2>2. (BodyBounded /\ RefusalEndsTransfer)'
    BY Zenon DEF TypeOK, BodyBounded, RefusalEndsTransfer
  <2>3. LiveOwned'
    BY LeftAll, Zenon DEF TypeOK, LiveOwned, Ended
  <2>4. (NothingYet /\ BodyMoved /\ Cleared)'
    BY Zenon DEF TypeOK, NothingYet, BodyMoved, Cleared, Ended
  <2>5. (Acquired /\ LateStops)'
    BY Zenon DEF TypeOK, Acquired, LateStops, Ended
  <2> QED BY <2>1, <2>2, <2>3, <2>4, <2>5, Zenon
<1> QED BY <1>1, <1>2, <1>3, <1>4, Zenon DEF Callback

\* After the transfer: the classification and the body.
LEMMA EndKeepsInv ==
    ASSUME IInv, Finish \/ TakeBody
    PROVE  IInv'
<1> USE TransportAssumption DEF IInv
<1>1. CASE Finish
  <2> USE <1>1 DEF Finish, Abort, classify
  <2>1. TypeOK'
    BY DEF TypeOK, Errors
  <2>2. (BodyBounded /\ RefusalEndsTransfer)'
    BY Zenon DEF TypeOK, BodyBounded, RefusalEndsTransfer
  <2>3. LiveOwned'
    BY LeftAll, Zenon DEF TypeOK, LiveOwned, Ended
  <2>4. (NothingYet /\ BodyMoved /\ Cleared)'
    BY Zenon DEF TypeOK, NothingYet, BodyMoved, Cleared, Ended
  <2>5. (Acquired /\ LateStops)'
    BY Zenon DEF TypeOK, Acquired, LateStops, Ended
  <2> QED BY <2>1, <2>2, <2>3, <2>4, <2>5, Zenon
<1>2. CASE TakeBody
  <2> USE <1>2 DEF TakeBody, Abort
  <2>1. TypeOK'
    BY ZenonT(30) DEF TypeOK, Resources, Errors
  <2>2. (BodyBounded /\ RefusalEndsTransfer)'
    BY Zenon DEF TypeOK, BodyBounded, RefusalEndsTransfer
  <2>3. LiveOwned'
    BY LeftAll DEF TypeOK, LiveOwned, Ended, Locals, Fields
  <2>4. (NothingYet /\ BodyMoved /\ Cleared)'
    BY DEF TypeOK, NothingYet, BodyMoved, Cleared, Ended
  <2>5. (Acquired /\ LateStops)'
    BY Zenon DEF TypeOK, Acquired, LateStops, Ended
  <2> QED BY <2>1, <2>2, <2>3, <2>4, <2>5, Zenon
<1> QED BY <1>1, <1>2, Zenon

\* The clean-up frees what is owned, and nothing twice.
LEMMA CleanupKeepsInv ==
    ASSUME IInv, Cleanup
    PROVE  IInv'
<1> USE TransportAssumption DEF IInv
<1>1. CASE FreeBuffer
  <2> USE <1>1 DEF FreeBuffer, Release
  <2>1. TypeOK'
    BY Zenon DEF TypeOK
  <2>2. (BodyBounded /\ RefusalEndsTransfer)'
    BY Zenon DEF TypeOK, BodyBounded, RefusalEndsTransfer
  <2>3. LiveOwned'
    BY LeftAll DEF TypeOK, LiveOwned, Ended, Locals, Fields, BodyMoved
  <2>4. (NothingYet /\ BodyMoved /\ Cleared)'
    BY Zenon DEF TypeOK, NothingYet, BodyMoved, Cleared, Ended
  <2>5. (Acquired /\ LateStops)'
    BY Zenon DEF TypeOK, Acquired, LateStops, Ended
  <2> QED BY <2>1, <2>2, <2>3, <2>4, <2>5, Zenon
<1>2. CASE ClearResponse
  <2> USE <1>2 DEF ClearResponse, Release
  <2>1. TypeOK'
    <3>1. NoResponse \in [body: Nat \cup {-1}, headers: [Fields -> Nat \cup {-1}]]
      <4>1. NoHeaders \in [Fields -> Nat \cup {-1}]
        BY Zenon DEF NoHeaders
      <4> QED BY <4>1, Zenon DEF NoResponse
    <3>2. response' \in [body: Nat \cup {-1}, headers: [Fields -> Nat \cup {-1}]]
      BY <3>1, Zenon DEF TypeOK
    <3> QED BY <3>2, ZenonT(30) DEF TypeOK
  <2>2. (BodyBounded /\ RefusalEndsTransfer)'
    BY Zenon DEF TypeOK, BodyBounded, RefusalEndsTransfer
  <2>3. LiveOwned'
    BY LeftAll DEF TypeOK, LiveOwned, Ended, Locals, Fields, Owned, NoResponse, NoHeaders
  <2>4. (NothingYet /\ BodyMoved /\ Cleared)'
    BY DEF TypeOK, NothingYet, BodyMoved, Cleared, Ended, NoResponse
  <2>5. (Acquired /\ LateStops)'
    BY Zenon DEF TypeOK, Acquired, LateStops, Ended
  <2> QED BY <2>1, <2>2, <2>3, <2>4, <2>5, Zenon
<1>3. CASE FreeSlist
  <2> USE <1>3 DEF FreeSlist, Release
  <2>1. TypeOK'
    BY Zenon DEF TypeOK
  <2>2. (BodyBounded /\ RefusalEndsTransfer)'
    BY Zenon DEF TypeOK, BodyBounded, RefusalEndsTransfer
  <2>3. LiveOwned'
    BY LeftAll DEF TypeOK, LiveOwned, Ended, Locals, Fields
  <2>4. (NothingYet /\ BodyMoved /\ Cleared)'
    BY Zenon DEF TypeOK, NothingYet, BodyMoved, Cleared, Ended
  <2>5. (Acquired /\ LateStops)'
    BY Zenon DEF TypeOK, Acquired, LateStops, Ended
  <2> QED BY <2>1, <2>2, <2>3, <2>4, <2>5, Zenon
<1>4. CASE RemoveHandle
  <2> USE <1>4 DEF RemoveHandle, Release
  <2>1. TypeOK'
    BY Zenon DEF TypeOK
  <2>2. (BodyBounded /\ RefusalEndsTransfer)'
    BY Zenon DEF TypeOK, BodyBounded, RefusalEndsTransfer
  <2>3. LiveOwned'
    BY LeftAll DEF TypeOK, LiveOwned, Ended, Locals, Fields
  <2>4. (NothingYet /\ BodyMoved /\ Cleared)'
    BY Zenon DEF TypeOK, NothingYet, BodyMoved, Cleared, Ended
  <2>5. (Acquired /\ LateStops)'
    BY Zenon DEF TypeOK, Acquired, LateStops, Ended
  <2> QED BY <2>1, <2>2, <2>3, <2>4, <2>5, Zenon
<1>5. CASE MultiCleanup
  <2> USE <1>5 DEF MultiCleanup, Release
  <2>1. TypeOK'
    BY Zenon DEF TypeOK
  <2>2. (BodyBounded /\ RefusalEndsTransfer)'
    BY Zenon DEF TypeOK, BodyBounded, RefusalEndsTransfer
  <2>3. LiveOwned'
    BY LeftAll DEF TypeOK, LiveOwned, Ended, Locals, Fields
  <2>4. (NothingYet /\ BodyMoved /\ Cleared)'
    BY Zenon DEF TypeOK, NothingYet, BodyMoved, Cleared, Ended
  <2>5. (Acquired /\ LateStops)'
    BY Zenon DEF TypeOK, Acquired, LateStops, Ended
  <2> QED BY <2>1, <2>2, <2>3, <2>4, <2>5, Zenon
<1>6. CASE EasyCleanup
  <2> USE <1>6 DEF EasyCleanup, Release
  <2>1. TypeOK'
    BY Zenon DEF TypeOK
  <2>2. (BodyBounded /\ RefusalEndsTransfer)'
    BY Zenon DEF TypeOK, BodyBounded, RefusalEndsTransfer
  <2>3. LiveOwned'
    BY LeftAll DEF TypeOK, LiveOwned, Ended, Locals, Fields
  <2>4. (NothingYet /\ BodyMoved /\ Cleared)'
    BY Zenon DEF TypeOK, NothingYet, BodyMoved, Cleared, Ended
  <2>5. (Acquired /\ LateStops)'
    BY Zenon DEF TypeOK, Acquired, LateStops, Ended
  <2> QED BY <2>1, <2>2, <2>3, <2>4, <2>5, Zenon
<1>7. CASE UrlCleanup
  <2> USE <1>7 DEF UrlCleanup, Release
  <2>1. TypeOK'
    BY Zenon DEF TypeOK
  <2>2. (BodyBounded /\ RefusalEndsTransfer)'
    BY Zenon DEF TypeOK, BodyBounded, RefusalEndsTransfer
  <2>3. LiveOwned'
    BY LeftAll DEF TypeOK, LiveOwned, Ended, Locals, Fields
  <2>4. (NothingYet /\ BodyMoved /\ Cleared)'
    BY Zenon DEF TypeOK, NothingYet, BodyMoved, Cleared, Ended
  <2>5. (Acquired /\ LateStops)'
    BY Zenon DEF TypeOK, Acquired, LateStops, Ended
  <2> QED BY <2>1, <2>2, <2>3, <2>4, <2>5, Zenon
<1> QED BY <1>1, <1>2, <1>3, <1>4, <1>5, <1>6, <1>7, Zenon DEF Cleanup

\* The invariant holds in every state of a request.
LEMMA TransportInvariant == Spec => []IInv
<1>1. IInv /\ [Next]_vars => IInv'
  <2> SUFFICES ASSUME IInv, [Next]_vars PROVE IInv'
    OBVIOUS
  <2>1. CASE UNCHANGED vars
    <3>1. (TypeOK /\ BodyBounded /\ RefusalEndsTransfer)'
      BY <2>1, ZenonT(60) DEF vars, IInv, TypeOK, BodyBounded, RefusalEndsTransfer
    <3>2. (LiveOwned /\ NothingYet /\ BodyMoved /\ Cleared)'
      BY <2>1, Zenon DEF vars, IInv, LiveOwned, NothingYet, BodyMoved, Cleared
    <3>3. (Acquired /\ LateStops)'
      BY <2>1, Zenon DEF vars, IInv, Acquired, LateStops
    <3> QED BY <3>1, <3>2, <3>3, Zenon DEF IInv
  <2>2. CASE Next
    BY <2>2, SetUpKeepsInv, LoopKeepsInv, CallbackKeepsInv, EndKeepsInv, CleanupKeepsInv, Zenon
       DEF Next, Step
  <2> QED BY <2>1, <2>2, Zenon
<1> QED BY <1>1, TransportInit, PTL DEF Spec

-----------------------------------------------------------------------------
(* However libcurl cuts a response, and whatever append_response meets,    *)
(* the body stays within max_response_size.                                *)
THEOREM BodyStaysBounded == Spec => []BodyBounded
<1>1. IInv => BodyBounded
  BY Zenon DEF IInv
<1> QED BY <1>1, TransportInvariant, PTL

(* A caller of pg_oauth_http_get_json that gets PG_OAUTH_HTTP_OK gets all  *)
(* of a body, from a transfer that libcurl completed.                      *)
THEOREM SuccessComplete == Spec => []OkIsComplete
<1>1. IInv => OkIsComplete
  BY Zenon DEF IInv, RefusalEndsTransfer, BodyMoved, OkIsComplete, Ended
<1> QED BY <1>1, TransportInvariant, PTL

(* On every path through pg_oauth_http_get_json the lines behind done free *)
(* each object once, in an order libcurl allows, and leave just what       *)
(* *response points to: nothing after an error.                            *)
THEOREM EverythingOwnedOnce == Spec => []OwnedOnce
<1>1. IInv => OwnedOnce
  <2> SUFFICES ASSUME IInv PROVE OwnedOnce
    OBVIOUS
  <2>1. /\ live \subseteq Resources /\ LiveOwned
    BY Zenon DEF IInv, TypeOK
  <2>2. Owned(response) \subseteq live
    BY <2>1, Zenon DEF Owned, LiveOwned
  <2>3. pc = "returned" => live = Owned(response)
    BY <2>1, <2>2, LeftAll DEF Owned, LiveOwned, Resources, Ended
  <2>4. pc = "returned" /\ error # "ok" => response = NoResponse
    BY Zenon DEF IInv, Cleared, Ended
  <2>5. body.allocated => response.body = -1
    BY Zenon DEF IInv, BodyMoved
  <2>6. "added" \in live => {"handle", "multi"} \subseteq live
    <3> SUFFICES ASSUME "added" \in live PROVE "handle" \in live /\ "multi" \in live
      OBVIOUS
    <3>1. "added" \in held /\ "added" \in Left(pc)
      BY <2>1, Zenon DEF LiveOwned, Locals
    <3>2. "handle" \in held /\ "multi" \in held
      BY <3>1, Zenon DEF IInv, Acquired
    <3>3. "handle" \in Left(pc) /\ "multi" \in Left(pc)
      BY <3>1, Zenon DEF Left, Locals
    <3> QED BY <2>1, <3>2, <3>3, Zenon DEF LiveOwned, Locals
  <2> QED BY <2>2, <2>3, <2>4, <2>5, <2>6, Zenon DEF OwnedOnce
<1> QED BY <1>1, TransportInvariant, PTL

(* libcurl gets no URL that validate_request_url refuses.                  *)
THEOREM AllowedHosts == Spec => []OnlyAllowedHosts
<1>1. IInv => OnlyAllowedHosts
  <2> SUFFICES ASSUME IInv, "handle" \in held
               PROVE  /\ url.host \in {allowed_host} \cup additional_allowed_hosts
                      /\ url.scheme = "https" \/ allow_insecure_http
    BY Zenon DEF OnlyAllowedHosts
  <2>1. validate_request_url(url, TRUE) = "ok" /\ url \in Url
    BY Zenon DEF IInv, Acquired, TypeOK
  <2> QED BY <2>1, Zenon DEF validate_request_url, parse_url, host_in_list, Url
<1> QED BY <1>1, TransportInvariant, PTL

(* A pending interrupt ends the loop after at most the wait in progress,   *)
(* and the call does not succeed any more.                                 *)
THEOREM InterruptsEndTheCall == Spec => []CancelWithinOneWait
<1>1. IInv => CancelWithinOneWait
  BY DEF IInv, TypeOK, LateStops, CancelWithinOneWait
<1> QED BY <1>1, TransportInvariant, PTL

-----------------------------------------------------------------------------
(* src/http_freshness.c: numbers *)

(* What holds of 0 and, with each number, of the next holds of all.        *)
LEMMA Induction ==
    ASSUME NEW S, 0 \in S, \A n \in Nat : n \in S => n + 1 \in S
    PROVE  \A n \in Nat : n \in S
<1> DEFINE Below == {ss \in Nat \X Nat : ss[1] < ss[2]}
           Rest == {n \in Nat : n \notin S}
<1>1. IsWellFoundedOn(Below, Nat)
  BY NatLessThanWellFounded, Zenon DEF OpToRel
<1>2. \A x, y \in Nat : y < x => <<y, x>> \in Below
  OBVIOUS
<1> HIDE DEF Below
<1>3. SUFFICES ASSUME Rest # {} PROVE FALSE
  OBVIOUS
<1>4. PICK x \in Rest : \A y \in Rest : ~(<<y, x>> \in Below)
  <2>1. Rest \subseteq Nat
    OBVIOUS
  <2> HIDE DEF Rest
  <2> QED
    BY <1>1, <1>3, <2>1, WFMin, Zenon
<1>5. x \in Nat /\ x # 0 /\ x \notin S
  OBVIOUS
<1>6. x - 1 \in Nat /\ x - 1 < x /\ x - 1 \notin S
  BY <1>5
<1>7. <<x - 1, x>> \in Below
  BY <1>2, <1>5, <1>6, Zenon
<1> QED
  BY <1>4, <1>6, <1>7, Zenon

(* Products of natural numbers keep order.                                 *)
LEMMA TimesOrder ==
    ASSUME NEW x \in Nat, NEW y \in Nat, NEW k \in Nat \ {0}
    PROVE  /\ x * k \in Nat
           /\ x <= y <=> x * k <= y * k
           /\ x < y <=> x * k < y * k
<1>1. x * k \in Nat /\ y * k \in Nat
  OBVIOUS
<1>2. ASSUME x <= y PROVE x * k <= y * k
  <2>1. (y - x) * k \in Nat
    BY <1>2
  <2>2. (y - x) * k = y * k - x * k
    OBVIOUS
  <2> QED
    BY <1>1, <2>1, <2>2
<1>3. ASSUME x < y PROVE x * k < y * k
  <2>1. (y - x - 1) * k \in Nat
    BY <1>3
  <2>2. (y - x - 1) * k = y * k - x * k - k
    OBVIOUS
  <2> QED
    BY <1>1, <2>1, <2>2
<1>4. ASSUME y < x PROVE y * k < x * k
  <2>1. (x - y - 1) * k \in Nat
    BY <1>4
  <2>2. (x - y - 1) * k = x * k - y * k - k
    OBVIOUS
  <2> QED
    BY <1>1, <2>1, <2>2
<1>5. x < y \/ x = y \/ y < x
  OBVIOUS
<1> QED
  BY <1>1, <1>2, <1>3, <1>4, <1>5

(* The whole milliseconds in Int64Max, or the seconds themselves.          *)
LEMMA Milliseconds ==
    ASSUME NEW x \in Nat
    PROVE  /\ seconds_to_milliseconds(x) \in Nat
           /\ seconds_to_milliseconds(x) <= x * MsPerSecond
           /\ seconds_to_milliseconds(x) <= Int64Max
<1>1. PICK q : q = Int64Max \div MsPerSecond
  OBVIOUS
<1>2. /\ Int64Max \in Nat /\ MsPerSecond \in Nat \ {0}
  BY FreshnessAssumption, Zenon
<1>3. q \in Nat /\ q * MsPerSecond <= Int64Max
      /\ Int64Max < (q + 1) * MsPerSecond
  BY <1>1, <1>2
<1>4. CASE x > q
  <2>1. (q + 1) * MsPerSecond <= x * MsPerSecond
    BY <1>2, <1>3, <1>4, TimesOrder
  <2>2. seconds_to_milliseconds(x) = Int64Max
    BY <1>1, <1>4, Zenon DEF seconds_to_milliseconds
  <2>3. x * MsPerSecond \in Nat /\ (q + 1) * MsPerSecond \in Nat
    BY <1>2, <1>3, TimesOrder
  <2> QED
    BY <1>2, <1>3, <2>1, <2>2, <2>3
<1>5. CASE ~(x > q)
  <2>1. x * MsPerSecond <= q * MsPerSecond
    BY <1>2, <1>3, <1>5, TimesOrder
  <2>2. seconds_to_milliseconds(x) = x * MsPerSecond
    BY <1>1, <1>5, Zenon DEF seconds_to_milliseconds
  <2>3. x * MsPerSecond \in Nat /\ q * MsPerSecond \in Nat
    BY <1>2, <1>3, TimesOrder, Zenon
  <2> QED
    BY <1>2, <1>3, <2>1, <2>2, <2>3
<1> QED
  BY <1>4, <1>5, Zenon

(* Fewer seconds are no more milliseconds, also where they are cut off.    *)
LEMMA MillisecondsOrder ==
    ASSUME NEW x \in Nat, NEW y \in Nat, x <= y
    PROVE  seconds_to_milliseconds(x) <= seconds_to_milliseconds(y)
<1>1. PICK q : q = Int64Max \div MsPerSecond
  OBVIOUS
<1>2. Int64Max \in Nat /\ MsPerSecond \in Nat \ {0} /\ q \in Nat
  BY <1>1, FreshnessAssumption
<1>3. CASE y > q
  <2>1. seconds_to_milliseconds(y) = Int64Max
    BY <1>1, <1>3, Zenon DEF seconds_to_milliseconds
  <2> QED
    BY <2>1, Milliseconds, Zenon
<1>4. CASE ~(y > q)
  <2>1. ~(x > q)
    BY <1>2, <1>4
  <2>2. /\ seconds_to_milliseconds(y) = y * MsPerSecond
        /\ seconds_to_milliseconds(x) = x * MsPerSecond
    BY <1>1, <1>4, <2>1, Zenon DEF seconds_to_milliseconds
  <2> QED
    BY <1>2, <2>2, TimesOrder, Zenon
<1> QED
  BY <1>3, <1>4, Zenon

-----------------------------------------------------------------------------
(* The loop of parse_cache_control *)

ItemType == [name: STRING, argument: Int]

Control ==
    [ok: BOOLEAN, has_max_age: BOOLEAN, max_age: Nat, no_store: BOOLEAN,
     no_cache: BOOLEAN, must_revalidate: BOOLEAN]

\* f is what the loop computes over s, after each turn up to n.
IsLoop(f, s, n) ==
    f = [k \in 0 .. n |-> IF k = 0 THEN NoControl ELSE parse_item(f[k - 1], s[k])]

(* The loop computes something: the recursion of `turns` has a solution.   *)
LEMMA LoopExists ==
    ASSUME NEW s \in Seq(ItemType)
    PROVE  \E f : IsLoop(f, s, Len(s))
<1> DEFINE S == {n \in Nat : \E f : IsLoop(f, s, n)}
<1>1. 0 \in S
  <2>1. PICK f : f = [k \in 0 .. 0 |-> NoControl]
    BY Zenon
  <2>2. f = [k \in 0 .. 0 |-> IF k = 0 THEN NoControl ELSE parse_item(f[k - 1], s[k])]
    BY <2>1
  <2> QED
    BY <2>2, Zenon DEF IsLoop
<1>2. ASSUME NEW n \in Nat, n \in S PROVE n + 1 \in S
  <2>1. PICK f : IsLoop(f, s, n)
    BY <1>2, Zenon
  <2>2. PICK last : last = parse_item(f[n], s[n + 1])
    OBVIOUS
  <2>3. PICK g : g = [k \in 0 .. n + 1 |-> IF k = n + 1 THEN last ELSE f[k]]
    BY Zenon
  <2>4. \A k \in 0 .. n + 1 :
            g[k] = IF k = 0 THEN NoControl ELSE parse_item(g[k - 1], s[k])
    <3> TAKE k \in 0 .. n + 1
    <3>1. CASE k = n + 1
      <4>1. g[k] = last /\ g[k - 1] = f[n] /\ k - 1 = n /\ k # 0
        BY <2>3, <3>1
      <4> QED
        BY <2>2, <3>1, <4>1, Zenon
    <3>2. CASE k # n + 1
      <4>1. k \in 0 .. n /\ g[k] = f[k]
        BY <2>3, <3>2
      <4>2. k # 0 => g[k - 1] = f[k - 1]
        BY <2>3, <3>2
      <4>3. f[k] = IF k = 0 THEN NoControl ELSE parse_item(f[k - 1], s[k])
        BY <2>1, <4>1, Zenon DEF IsLoop
      <4> QED
        BY <4>1, <4>2, <4>3, Zenon
    <3> QED
      BY <3>1, <3>2, Zenon
  <2>5. IsLoop(g, s, n + 1)
    BY <2>3, <2>4, Zenon DEF IsLoop
  <2> QED
    BY <2>5
<1> HIDE DEF S
<1>3. \A n \in Nat : n \in S
  BY <1>1, <1>2, Induction, Zenon
<1> QED
  BY <1>3 DEF S

(* The first turn starts from nothing and each one parses the next item.   *)
LEMMA Turns ==
    ASSUME NEW s \in Seq(ItemType)
    PROVE  /\ turns(s)[0] = NoControl
           /\ \A n \in 1 .. Len(s) :
                    turns(s)[n] = parse_item(turns(s)[n - 1], s[n])
<1>1. IsLoop(turns(s), s, Len(s))
  <2>1. turns(s) = CHOOSE f : IsLoop(f, s, Len(s))
    BY Zenon DEF turns, IsLoop
  <2> QED
    BY <2>1, LoopExists, Zenon
<1>2. Len(s) \in Nat
  OBVIOUS
<1>3. \A n \in 0 .. Len(s) : turns(s)[n] =
            IF n = 0 THEN NoControl ELSE parse_item(turns(s)[n - 1], s[n])
  BY <1>1, Zenon DEF IsLoop
<1> QED
  BY <1>2, <1>3

(* One turn: the item must be well-formed, and no second max-age.          *)
WellFormed(i) ==
    /\ i.name # ""
    /\ i.name \in {"no-store", "must-revalidate"} => i.argument = NoArgument
    /\ i.name = "max-age" => i.argument >= 0

(* parse_item keeps the first max-age and fails on what is not so.         *)
LEMMA ParseItem ==
    ASSUME NEW c \in Control, NEW i \in ItemType
    PROVE  LET d == parse_item(c, i)
           IN  /\ d \in Control
               /\ d.ok <=> /\ c.ok /\ WellFormed(i)
                           /\ ~(c.has_max_age /\ i.name = "max-age")
               /\ d.ok => /\ d.no_store <=> c.no_store \/ i.name = "no-store"
                          /\ d.no_cache <=> c.no_cache \/ i.name = "no-cache"
                          /\ d.must_revalidate <=>
                                c.must_revalidate \/ i.name = "must-revalidate"
                          /\ d.has_max_age <=>
                                c.has_max_age \/ i.name = "max-age"
                          /\ d.max_age = IF i.name = "max-age" THEN i.argument
                                         ELSE c.max_age
<1> DEFINE d == parse_item(c, i)
<1>t. /\ i.name \in STRING /\ i.argument \in Int
      /\ NoArgument = -1
  BY Zenon DEF ItemType, NoArgument
<1>1. CASE ~c.ok
  <2>1. d = c
    BY <1>1, Zenon DEF parse_item
  <2>2. d \in Control /\ ~d.ok
    BY <1>1, <2>1, Zenon
  <2> QED
    BY Zenon, <1>1, <2>2
<1>2. CASE c.ok /\ i.name = "no-store"
  <2>1. CASE i.argument = NoArgument
    <3>1. d = [c EXCEPT !.no_store = TRUE]
      BY <1>2, <2>1, Zenon DEF parse_item
    <3> QED
      BY Zenon, <1>2, <1>t, <2>1, <3>1 DEF Control, WellFormed
  <2>2. CASE i.argument # NoArgument
    <3>1. d = [c EXCEPT !.ok = FALSE]
      BY <1>2, <2>2, Zenon DEF parse_item, Bad
    <3> QED
      BY Zenon, <1>2, <1>t, <2>2, <3>1 DEF Control, WellFormed
  <2> QED
    BY Zenon, <2>1, <2>2
<1>3. CASE c.ok /\ i.name = "no-cache"
  <2>1. d = [c EXCEPT !.no_cache = TRUE]
    BY <1>3, Zenon DEF parse_item
  <2> QED
    BY Zenon, <1>3, <1>t, <2>1 DEF Control, WellFormed
<1>4. CASE c.ok /\ i.name = "must-revalidate"
  <2>1. CASE i.argument = NoArgument
    <3>1. d = [c EXCEPT !.must_revalidate = TRUE]
      BY <1>4, <2>1, Zenon DEF parse_item
    <3> QED
      BY Zenon, <1>4, <1>t, <2>1, <3>1 DEF Control, WellFormed
  <2>2. CASE i.argument # NoArgument
    <3>1. d = [c EXCEPT !.ok = FALSE]
      BY <1>4, <2>2, Zenon DEF parse_item, Bad
    <3> QED
      BY ZenonT(30), <1>4, <1>t, <2>2, <3>1 DEF Control, WellFormed
  <2> QED
    BY Zenon, <2>1, <2>2
<1>5. CASE c.ok /\ i.name = "max-age"
  <2>1. CASE c.has_max_age \/ i.argument < 0
    <3>1. d = [c EXCEPT !.ok = FALSE]
      BY <1>5, <2>1, Zenon DEF parse_item, Bad
    <3>2. d \in Control /\ d.ok = FALSE
      BY Zenon, <3>1 DEF Control
    <3>3. c.has_max_age \/ ~WellFormed(i)
      BY <1>5, <1>t, <2>1 DEF WellFormed
    <3> QED
      BY Zenon, <1>5, <3>2, <3>3
  <2>2. CASE ~(c.has_max_age \/ i.argument < 0)
    <3>1. d = [c EXCEPT !.has_max_age = TRUE, !.max_age = i.argument]
      BY <1>5, <2>2, Zenon DEF parse_item
    <3>2. i.argument \in Nat /\ WellFormed(i)
      BY <1>5, <1>t, <2>2 DEF WellFormed
    <3>3. /\ d \in Control
          /\ d.ok = c.ok /\ d.no_store = c.no_store
          /\ d.no_cache = c.no_cache
          /\ d.must_revalidate = c.must_revalidate
          /\ d.has_max_age = TRUE /\ d.max_age = i.argument
      BY Zenon, <3>1, <3>2 DEF Control
    <3>4. /\ i.name # "no-store" /\ i.name # "no-cache"
          /\ i.name # "must-revalidate"
      BY <1>5, Zenon
    <3> QED
      BY Zenon, <1>5, <2>2, <3>2, <3>3, <3>4
  <2> QED
    BY <2>1, <2>2, Zenon
<1>6. CASE c.ok /\ i.name = ""
  <2>1. d = [c EXCEPT !.ok = FALSE]
    BY Zenon, <1>6 DEF parse_item, Bad
  <2> QED
    BY Zenon, <1>6, <1>t, <2>1 DEF Control, WellFormed
<1>7. CASE /\ c.ok
           /\ i.name \notin {"no-store", "no-cache", "must-revalidate",
                             "max-age", ""}
  <2>1. d = c
    BY Zenon, <1>7 DEF parse_item
  <2> QED
    BY Zenon, <1>7, <2>1 DEF WellFormed
<1> QED
  BY Zenon, <1>1, <1>2, <1>3, <1>4, <1>5, <1>6, <1>7

Has(s, n, name) == \E k \in 1 .. n : s[k].name = name

\* What the first n turns accept, and what they then have parsed.
Accepted(s, n) ==
    /\ \A k \in 1 .. n : WellFormed(s[k])
    /\ \A j, k \in 1 .. n :
            s[j].name = "max-age" /\ s[k].name = "max-age" => j = k

Parsed(s, n, c) ==
    /\ c \in Control
    /\ c.ok <=> Accepted(s, n)
    /\ c.ok => /\ c.no_store <=> Has(s, n, "no-store")
               /\ c.no_cache <=> Has(s, n, "no-cache")
               /\ c.must_revalidate <=> Has(s, n, "must-revalidate")
               /\ c.has_max_age <=> Has(s, n, "max-age")
               /\ \A k \in 1 .. n :
                        s[k].name = "max-age" => s[k].argument = c.max_age

(* One more turn finds what is in one more item.                           *)
LEMMA HasNext ==
    ASSUME NEW s, NEW n \in Nat, NEW name
    PROVE  Has(s, n + 1, name) <=> Has(s, n, name) \/ s[n + 1].name = name
<1>1. \A k : k \in 1 .. n + 1 <=> k \in 1 .. n \/ k = n + 1
  OBVIOUS
<1> QED
  BY Zenon, <1>1 DEF Has

(* One more turn accepts one more item.                                    *)
LEMMA AcceptedNext ==
    ASSUME NEW s, NEW n \in Nat
    PROVE  Accepted(s, n + 1) <=>
                /\ Accepted(s, n) /\ WellFormed(s[n + 1])
                /\ ~(Has(s, n, "max-age") /\ s[n + 1].name = "max-age")
<1>1. \A k : k \in 1 .. n + 1 <=> k \in 1 .. n \/ k = n + 1
  OBVIOUS
<1>2. n + 1 \notin 1 .. n
  OBVIOUS
<1>3. ASSUME Accepted(s, n + 1)
      PROVE  /\ Accepted(s, n) /\ WellFormed(s[n + 1])
             /\ ~(Has(s, n, "max-age") /\ s[n + 1].name = "max-age")
  BY Zenon, <1>1, <1>2, <1>3 DEF Accepted, Has
<1>4. ASSUME Accepted(s, n), WellFormed(s[n + 1]),
             ~(Has(s, n, "max-age") /\ s[n + 1].name = "max-age")
      PROVE  Accepted(s, n + 1)
  BY Zenon, <1>1, <1>2, <1>4 DEF Accepted, Has
<1> QED
  BY <1>3, <1>4, Zenon

(* What parse_cache_control has parsed after any number of turns.          *)
LEMMA TurnsParse ==
    ASSUME NEW s \in Seq(ItemType)
    PROVE  \A n \in 0 .. Len(s) : Parsed(s, n, turns(s)[n])
<1> DEFINE S == {n \in Nat : n <= Len(s) => Parsed(s, n, turns(s)[n])}
<1>0. Len(s) \in Nat /\ \A k \in 1 .. Len(s) : s[k] \in ItemType
  OBVIOUS
<1>1. 0 \in S
  <2>1. turns(s)[0] = NoControl
    BY Turns, Zenon
  <2>2. /\ NoControl \in Control /\ NoControl.ok
        /\ ~NoControl.no_store /\ ~NoControl.no_cache
        /\ ~NoControl.must_revalidate /\ ~NoControl.has_max_age
    BY Zenon DEF NoControl, Control
  <2>3. \A k : k \notin 1 .. 0
    OBVIOUS
  <2>4. Parsed(s, 0, NoControl)
    BY Zenon, <2>2, <2>3 DEF Parsed, Accepted, Has
  <2> QED
    BY <2>1, <2>4, Zenon
<1>2. ASSUME NEW n \in Nat, n \in S PROVE n + 1 \in S
  <2> SUFFICES ASSUME n + 1 <= Len(s)
               PROVE  Parsed(s, n + 1, turns(s)[n + 1])
    OBVIOUS
  <2>1. PICK c, d : c = turns(s)[n] /\ d = turns(s)[n + 1]
    OBVIOUS
  <2>2. Parsed(s, n, c)
    BY <1>0, <1>2, <2>1
  <2>3. d = parse_item(c, s[n + 1]) /\ s[n + 1] \in ItemType
    <3>1. n + 1 \in 1 .. Len(s) /\ (n + 1) - 1 = n
      BY <1>0, SMTT(30)
    <3> QED
      BY <1>0, <2>1, <3>1, Turns, Zenon
  <2>4. c \in Control
    BY <2>2, Zenon DEF Parsed
  <2>5. PICK i : i = s[n + 1]
    OBVIOUS
  <2>6. /\ d \in Control
        /\ d.ok <=> /\ c.ok /\ WellFormed(i)
                    /\ ~(c.has_max_age /\ i.name = "max-age")
        /\ d.ok => /\ d.no_store <=> c.no_store \/ i.name = "no-store"
                   /\ d.no_cache <=> c.no_cache \/ i.name = "no-cache"
                   /\ d.must_revalidate <=>
                         c.must_revalidate \/ i.name = "must-revalidate"
                   /\ d.has_max_age <=> c.has_max_age \/ i.name = "max-age"
                   /\ d.max_age = IF i.name = "max-age" THEN i.argument
                                  ELSE c.max_age
    BY Zenon, <2>3, <2>4, <2>5, ParseItem
  <2>7. d.ok <=> Accepted(s, n + 1)
    BY Zenon, <2>2, <2>5, <2>6, AcceptedNext DEF Parsed
  <2>8. ASSUME d.ok, NEW k \in 1 .. n + 1, s[k].name = "max-age"
        PROVE  s[k].argument = d.max_age
    <3>1. CASE k = n + 1
      BY <2>5, <2>6, <2>8, <3>1, Zenon
    <3>2. CASE k \in 1 .. n
      <4>1. c.ok /\ c.has_max_age /\ s[k].argument = c.max_age
        BY Zenon, <2>2, <2>6, <2>8, <3>2 DEF Parsed, Has
      <4> QED
        BY <2>6, <2>8, <4>1, Zenon
    <3> QED
      BY <3>1, <3>2, SMTT(30)
  <2> QED
    BY Zenon, <2>1, <2>2, <2>5, <2>6, <2>7, <2>8, HasNext DEF Parsed
<1> HIDE DEF S
<1>3. \A n \in Nat : n \in S
  BY <1>1, <1>2, Induction, Zenon
<1> QED
  BY <1>0, <1>3 DEF S

(* Only an empty item at the end is not visited.                           *)
LEMMA Visited ==
    ASSUME NEW items \in Seq(ItemType)
    PROVE  LET s == visited(items)
           IN  /\ s \in Seq(ItemType) /\ Len(s) \in Nat
               /\ Len(s) <= Len(items)
               /\ \A k \in 1 .. Len(s) : s[k] = items[k]
               /\ \A k \in 1 .. Len(items) :
                        k \in 1 .. Len(s) \/ items[k] = EmptyItem
               /\ Len(items) <= Len(s) + 1
               /\ items # <<>> /\ items[Len(items)] # EmptyItem => s = items
<1>1. CASE items # <<>> /\ items[Len(items)] = EmptyItem
  <2>1. visited(items) = SubSeq(items, 1, Len(items) - 1)
    BY <1>1, Zenon DEF visited
  <2>2. Len(items) \in Nat \ {0} /\ items[Len(items)] = EmptyItem
    BY <1>1
  <2> QED
    BY <2>1, <2>2
<1>2. CASE ~(items # <<>> /\ items[Len(items)] = EmptyItem)
  <2>1. visited(items) = items
    BY <1>2, Zenon DEF visited
  <2> QED
    BY <2>1
<1> QED
  BY <1>1, <1>2, Zenon

-----------------------------------------------------------------------------
(* parse_cache_control by the items of the header *)

Named(items, name) == \E k \in 1 .. Len(items) : items[k].name = name

(* What parse_cache_control returns: it accepts a header whose items are   *)
(* well-formed and give max-age at most once, and then finds exactly the   *)
(* directives that are there.                                              *)
THEOREM CacheControlParsed ==
    ASSUME NEW items \in Seq(ItemType)
    PROVE  LET c == parse_cache_control(items)
               s == visited(items)
           IN  /\ c \in Control
               /\ c.ok <=> Accepted(s, Len(s))
               /\ c.ok => /\ c.no_store <=> Named(items, "no-store")
                          /\ c.no_cache <=> Named(items, "no-cache")
                          /\ c.must_revalidate <=> Named(items, "must-revalidate")
                          /\ c.has_max_age <=> Named(items, "max-age")
                          /\ \A k \in 1 .. Len(items) :
                                items[k].name = "max-age" =>
                                    items[k].argument = c.max_age
<1>1. PICK s, c : s = visited(items) /\ c = parse_cache_control(items)
  OBVIOUS
<1>2. /\ s \in Seq(ItemType) /\ Len(s) \in Nat
      /\ \A k \in 1 .. Len(s) : s[k] = items[k]
      /\ \A k \in 1 .. Len(items) :
               k \in 1 .. Len(s) \/ items[k] = EmptyItem
      /\ \A k \in 1 .. Len(s) : k \in 1 .. Len(items)
  BY <1>1, Visited, SMTT(30)
<1>3. Parsed(s, Len(s), c)
  <2>1. Len(s) \in 0 .. Len(s)
    BY <1>2
  <2> QED
    BY <1>1, <1>2, <2>1, TurnsParse, Zenon DEF parse_cache_control
<1>4. EmptyItem.name = ""
  BY Zenon DEF EmptyItem, Item
<1>5. ASSUME NEW name, name # ""
      PROVE  Has(s, Len(s), name) <=> Named(items, name)
  BY Zenon, <1>2, <1>4, <1>5 DEF Has, Named
<1>6. /\ Has(s, Len(s), "no-store") <=> Named(items, "no-store")
      /\ Has(s, Len(s), "no-cache") <=> Named(items, "no-cache")
      /\ Has(s, Len(s), "must-revalidate") <=> Named(items, "must-revalidate")
      /\ Has(s, Len(s), "max-age") <=> Named(items, "max-age")
  BY Zenon, <1>5
<1>7. ASSUME c.ok, NEW k \in 1 .. Len(items), items[k].name = "max-age"
      PROVE  items[k].argument = c.max_age
  <2>1. k \in 1 .. Len(s)
    BY Zenon, <1>2, <1>4, <1>7
  <2> QED
    BY Zenon, <1>2, <1>3, <1>7, <2>1 DEF Parsed
<1> QED
  BY Zenon, <1>1, <1>3, <1>6, <1>7 DEF Parsed

-----------------------------------------------------------------------------
(* What the capture of headers keeps *)

ValueType == {Absent, Malformed} \cup {Given(n) : n \in Nat}

\* The dates as calculate reads them.
Dated == date_value(date)
Expiring == date_value(expires)

\* Every item captured is among the joined ones, or empty.
NothingLost ==
    \A l \in Range(captured) : \A i \in Range(l) :
        i = EmptyItem \/ i \in Range(cache_control)

HeadersInv ==
    /\ cache_control \in Seq(ItemType)
    /\ captured \in Seq(Lines)
    /\ date \in Seq(DatePart) /\ expires \in Seq(DatePart) /\ age \in ValueType
    /\ NothingLost

(* Joining keeps the items, and an empty string has only empty ones.       *)
LEMMA Joined ==
    ASSUME NEW items \in Seq(ItemType), NEW line \in Lines
    PROVE  /\ line \in Seq(ItemType)
           /\ joined(items, line) \in Seq(ItemType)
           /\ \A i \in Range(line) : i \in Range(joined(items, line))
           /\ \A i \in Range(items) :
                    i = EmptyItem \/ i \in Range(joined(items, line))
<1>1. line \in Seq(ItemType)
  BY FreshnessAssumption, Zenon DEF ItemType
<1>2. CASE IsEmptyString(items)
  <2>1. joined(items, line) = line
    BY <1>2, Zenon DEF joined
  <2>2. \A i \in Range(items) : i = EmptyItem
    BY <1>2, SMTT(30) DEF IsEmptyString, Range
  <2> QED
    BY <1>1, <2>1, <2>2, Zenon
<1>3. CASE ~IsEmptyString(items)
  <2>1. joined(items, line) = items \o line
    BY <1>3, Zenon DEF joined
  <2>2. ASSUME NEW k \in 1 .. Len(items)
        PROVE  items[k] \in Range(items \o line)
    <3>1. k \in DOMAIN (items \o line) /\ (items \o line)[k] = items[k]
      BY <1>1
    <3> QED
      BY <3>1, Zenon DEF Range
  <2>3. ASSUME NEW k \in 1 .. Len(line)
        PROVE  line[k] \in Range(items \o line)
    <3>1. /\ Len(items) + k \in DOMAIN (items \o line)
          /\ (items \o line)[Len(items) + k] = line[k]
      BY <1>1
    <3> QED
      BY Zenon, <3>1 DEF Range
  <2>4. DOMAIN items = 1 .. Len(items) /\ DOMAIN line = 1 .. Len(line)
    BY <1>1
  <2> QED
    BY <1>1, <2>1, <2>2, <2>3, <2>4 DEF Range
<1> QED
  BY <1>2, <1>3, Zenon

(* A header captured again is a value still.                               *)
LEMMA CapturedAgain ==
    ASSUME NEW old \in ValueType, NEW new \in Ages
    PROVE  captured_again(old, new) \in ValueType
<1>1. Ages \subseteq ValueType
  <2>1. Seconds \subseteq Nat
    BY FreshnessAssumption
  <2> QED
    BY <2>1, Zenon DEF Ages, ValueType
<1>2. Malformed \in ValueType
  BY Zenon DEF ValueType
<1> QED
  BY <1>1, <1>2, Zenon DEF captured_again

(* Every step keeps the captured items.                                    *)
LEMMA HeadersInvNext ==
    ASSUME HeadersInv, [HeadersNext]_headerVars
    PROVE  HeadersInv'
<1>1. ASSUME NEW l \in Lines, CaptureCacheControl(l) PROVE HeadersInv'
  <2>1. /\ captured' = Append(captured, l)
        /\ cache_control' = joined(cache_control, l)
        /\ date' = date /\ expires' = expires /\ age' = age
    BY <1>1, Zenon DEF CaptureCacheControl
  <2>2. cache_control \in Seq(ItemType) /\ captured \in Seq(Lines)
    BY Zenon DEF HeadersInv
  <2>3. cache_control' \in Seq(ItemType) /\ captured' \in Seq(Lines)
    BY <2>1, <2>2, Joined
  <2>4. \A m \in Range(captured') : m \in Range(captured) \/ m = l
    BY <2>1, <2>2 DEF Range
  <2>5. NothingLost'
    <3>1. ASSUME NEW m \in Range(captured'), NEW i \in Range(m)
          PROVE  i = EmptyItem \/ i \in Range(cache_control')
      <4>1. CASE m = l
        BY Zenon, <2>1, <2>2, <4>1, <3>1, Joined
      <4>2. CASE m \in Range(captured)
        <5>1. i = EmptyItem \/ i \in Range(cache_control)
          BY Zenon, <3>1, <4>2 DEF HeadersInv, NothingLost
        <5> QED
          BY Zenon, <2>1, <2>2, <5>1, Joined
      <4> QED
        BY <2>4, <4>1, <4>2, Zenon
    <3> QED
      BY Zenon, <3>1 DEF NothingLost, Range
  <2> QED
    BY <2>1, <2>3, <2>5, Zenon DEF HeadersInv
<1>2. ASSUME NEW l \in DateLines, CaptureDate(l) \/ CaptureExpires(l)
      PROVE  HeadersInv'
  <2>1. cache_control' = cache_control /\ captured' = captured /\ age' = age
    BY <1>2, Zenon DEF CaptureDate, CaptureExpires
  <2>2. l \in Seq(DatePart)
    BY FreshnessAssumption, Zenon
  <2>3. date \in Seq(DatePart) /\ expires \in Seq(DatePart)
    BY Zenon DEF HeadersInv
  <2>4. date \o l \in Seq(DatePart) /\ expires \o l \in Seq(DatePart)
    BY <2>2, <2>3, SMT
  <2>5. date' \in Seq(DatePart) /\ expires' \in Seq(DatePart)
    BY <1>2, <2>3, <2>4, Zenon DEF CaptureDate, CaptureExpires
  <2> QED
    BY <2>1, <2>5, Zenon DEF HeadersInv, NothingLost
<1>3. ASSUME NEW v \in Ages, CaptureAge(v)
      PROVE  HeadersInv'
  BY <1>3, CapturedAgain, Zenon DEF CaptureAge, HeadersInv, NothingLost
<1>4. CASE UNCHANGED headerVars
  BY <1>4, Zenon DEF headerVars, HeadersInv, NothingLost
<1> QED
  BY <1>1, <1>2, <1>3, <1>4, Zenon DEF HeadersNext

(* No captured directive is lost before the headers are parsed.            *)
THEOREM HeadersKept == HeadersSpec => []HeadersInv
<1>1. HeadersInit => HeadersInv
  BY DEF HeadersInit, HeadersInv, NothingLost, Range, ValueType
<1> QED
  BY <1>1, HeadersInvNext, PTL DEF HeadersSpec

-----------------------------------------------------------------------------
(* curl_getdate *)

(* What curl_getdate makes of a value is a value, and only the empty one   *)
(* is no date at all.                                                      *)
LEMMA DateValue ==
    ASSUME NEW parts \in Seq(DatePart)
    PROVE  /\ date_value(parts) \in ValueType
           /\ parts # <<>> => date_value(parts).given
           /\ date_value(parts).given => parts # <<>>
<1>1. PICK read : read = parts_read(parts)
  OBVIOUS
<1>2. \A k \in DOMAIN read : read[k].value \in Nat
  <2>1. \A k \in 1 .. Len(parts) : parts[k].value \in Nat
    <3>1. \A k \in 1 .. Len(parts) : parts[k] \in DatePart
      BY SMT
    <3>2. \A x \in DatePart : x.value \in Nat
      BY Zenon DEF DatePart
    <3> QED
      BY <3>1, <3>2, Zenon
  <2>2. PICK n : n = Smaller(Len(parts), PartsRead)
    OBVIOUS
  <2>3. n \in 0 .. Len(parts)
    BY <2>2 DEF Smaller, PartsRead
  <2>4. read = SubSeq(parts, 1, n)
    BY <1>1, <2>2, Zenon DEF parts_read
  <2> QED
    BY <2>1, <2>3, <2>4
<1>3. ASSUME NEW field PROVE part_value(read, field) \in Nat
  <2>1. CASE field \in fields_of(read)
    <3>1. \E k \in DOMAIN read : read[k].field = field
      BY <2>1, Zenon DEF fields_of
    <3>2. PICK m : m = CHOOSE k \in DOMAIN read : read[k].field = field
      OBVIOUS
    <3>3. m \in DOMAIN read
      BY <3>1, <3>2, Zenon
    <3>4. part_value(read, field) = read[m].value
      BY <2>1, <3>2, Zenon DEF part_value
    <3> QED
      BY <1>2, <3>3, <3>4, Zenon
  <2>2. CASE field \notin fields_of(read)
    BY <2>2, Zenon DEF part_value
  <2> QED
    BY <2>1, <2>2, Zenon
<1>4. PICK d, m, y, t : /\ d = part_value(read, "day") /\ m = part_value(read, "month")
                        /\ y = part_value(read, "year") /\ t = part_value(read, "time")
  OBVIOUS
<1>5. d + m + y + t \in Nat
  <2>1. d \in Nat /\ m \in Nat /\ y \in Nat /\ t \in Nat
    BY <1>3, <1>4, Zenon
  <2> QED
    BY <2>1, SMT
<1>6. curl_getdate(parts) \in {Malformed, Given(d + m + y + t)}
  BY <1>1, <1>4, Zenon DEF curl_getdate
<1>7. /\ Absent.given = FALSE /\ Malformed.given = TRUE
      /\ Given(d + m + y + t).given = TRUE
  BY Zenon DEF Absent, Malformed, Given
<1> QED
  BY <1>5, <1>6, <1>7, Zenon DEF date_value, ValueType

(* Behind as many parts as it reads, curl_getdate sees nothing.            *)
LEMMA FurtherParts ==
    ASSUME NEW parts \in Seq(DatePart), NEW line \in DateLines, Len(parts) >= PartsRead
    PROVE  date_value(parts \o line) = date_value(parts)
<1>1. line \in Seq(DatePart)
  BY FreshnessAssumption, Zenon
<1>2. PICK more : more = parts \o line
  BY Zenon
<1>3. /\ more \in Seq(DatePart) /\ Len(more) = Len(parts) + Len(line)
      /\ Len(parts) \in Nat /\ Len(line) \in Nat
      /\ \A k \in 1 .. Len(parts) : more[k] = parts[k]
  BY <1>1, <1>2
<1>4. /\ Smaller(Len(parts), PartsRead) = PartsRead
      /\ Smaller(Len(more), PartsRead) = PartsRead
  BY <1>3 DEF Smaller, PartsRead
<1>5. SubSeq(more, 1, PartsRead) = SubSeq(parts, 1, PartsRead)
  BY <1>3 DEF PartsRead
<1>6. parts_read(more) = parts_read(parts)
  BY <1>4, <1>5, Zenon DEF parts_read
<1>7. parts # <<>> /\ more # <<>>
  BY <1>3 DEF PartsRead
<1>8. curl_getdate(more) = curl_getdate(parts)
  BY <1>6, Zenon DEF curl_getdate
<1> QED
  BY <1>2, <1>7, <1>8, Zenon DEF date_value

(* The dates captured are such values.                                     *)
LEMMA DatesRead ==
    ASSUME HeadersInv
    PROVE  /\ Dated \in ValueType /\ Expiring \in ValueType
           /\ expires # <<>> => Expiring.given
  BY DateValue, Zenon DEF HeadersInv, Dated, Expiring

-----------------------------------------------------------------------------
(* calculate as a function of what it reads *)

AgeAt(d, a, now) == IF d.given THEN Greater(a.value, now - d.value) ELSE a.value

Lifetime(c, d, e, now) ==
    IF c.has_max_age THEN c.max_age
    ELSE Greater(e.value - (IF d.given THEN d.value ELSE now), 0)

Remaining(c, d, e, a, now) ==
    IF AgeAt(d, a, now) >= Lifetime(c, d, e, now) THEN 0
    ELSE seconds_to_milliseconds(Lifetime(c, d, e, now) - AgeAt(d, a, now))

Explicit(c, e) == c.has_max_age \/ e.given

Refused(c, d, e, a) ==
    \/ ~c.ok
    \/ a.given /\ ~a.valid
    \/ ~c.has_max_age /\ e.given /\ ~e.valid
    \/ Explicit(c, e) /\ d.given /\ ~d.valid

Reused(c, d, e, a, now, p) ==
    IF c.no_cache THEN 0
    ELSE Smaller(p.maximum, IF Explicit(c, e) THEN Remaining(c, d, e, a, now)
                            ELSE p.default)

\* r is what calculate returns.
Returns(r, c, d, e, a, now, p) ==
    /\ r.valid <=> ~Refused(c, d, e, a)
    /\ r.valid => /\ r.cacheable <=> ~c.no_store
                  /\ r.revalidation_required <=> c.no_cache \/ c.must_revalidate
                  /\ r.ttl = Reused(c, d, e, a, now, p)
    /\ ~r.valid => r.ttl = 0

(* calculate reads the parsed header and the three values.                 *)
LEMMA Calculated ==
    ASSUME NEW now, NEW p
    PROVE  Returns(calculate(now, p), parse_cache_control(cache_control),
                   Dated, Expiring, age, now, p)
<1>1. PICK c : c = parse_cache_control(cache_control)
  OBVIOUS
<1>2. calculate(now, p) =
        IF Refused(c, Dated, Expiring, age) THEN Invalid
        ELSE [valid |-> TRUE, cacheable |-> ~c.no_store,
              revalidation_required |-> c.no_cache \/ c.must_revalidate,
              ttl |-> Reused(c, Dated, Expiring, age, now, p)]
  BY Zenon, <1>1 DEF calculate, Refused, Reused, Explicit, Remaining, Lifetime,
        AgeAt, apparent_age, Dated, Expiring
<1>3. CASE Refused(c, Dated, Expiring, age)
  <2>1. calculate(now, p).valid = FALSE /\ calculate(now, p).ttl = 0
    <3>1. calculate(now, p) = Invalid
      BY Zenon, <1>2, <1>3
    <3>2. Invalid.valid = FALSE /\ Invalid.ttl = 0
      BY Zenon DEF Invalid
    <3> QED
      BY Zenon, <3>1, <3>2
  <2> QED
    BY Zenon, <1>1, <1>3, <2>1 DEF Returns
<1>4. CASE ~Refused(c, Dated, Expiring, age)
  <2>1. /\ calculate(now, p).valid = TRUE
        /\ calculate(now, p).cacheable = ~c.no_store
        /\ calculate(now, p).revalidation_required =
                (c.no_cache \/ c.must_revalidate)
        /\ calculate(now, p).ttl = Reused(c, Dated, Expiring, age, now, p)
    BY <1>2, <1>4
  <2> QED
    BY Zenon, <1>1, <1>4, <2>1 DEF Returns
<1> QED
  BY <1>3, <1>4, Zenon

(* The same after a step.                                                  *)
LEMMA CalculatedNext ==
    ASSUME NEW now, NEW p
    PROVE  Returns(calculate(now, p)', parse_cache_control(cache_control'),
                   Dated', Expiring', age', now, p)
<1>1. PICK c : c = parse_cache_control(cache_control')
  OBVIOUS
<1>2. calculate(now, p)' =
        IF Refused(c, Dated', Expiring', age') THEN Invalid
        ELSE [valid |-> TRUE, cacheable |-> ~c.no_store,
              revalidation_required |-> c.no_cache \/ c.must_revalidate,
              ttl |-> Reused(c, Dated', Expiring', age', now, p)]
  BY Zenon, <1>1 DEF calculate, Refused, Reused, Explicit, Remaining, Lifetime,
        AgeAt, apparent_age, Dated, Expiring
<1>3. CASE Refused(c, Dated', Expiring', age')
  <2>1. calculate(now, p)'.valid = FALSE /\ calculate(now, p)'.ttl = 0
    <3>1. calculate(now, p)' = Invalid
      BY Zenon, <1>2, <1>3
    <3>2. Invalid.valid = FALSE /\ Invalid.ttl = 0
      BY Zenon DEF Invalid
    <3> QED
      BY Zenon, <3>1, <3>2
  <2> QED
    BY Zenon, <1>1, <1>3, <2>1 DEF Returns
<1>4. CASE ~Refused(c, Dated', Expiring', age')
  <2>1. /\ calculate(now, p)'.valid = TRUE
        /\ calculate(now, p)'.cacheable = ~c.no_store
        /\ calculate(now, p)'.revalidation_required =
                (c.no_cache \/ c.must_revalidate)
        /\ calculate(now, p)'.ttl = Reused(c, Dated', Expiring', age', now, p)
    BY <1>2, <1>4
  <2> QED
    BY Zenon, <1>1, <1>4, <2>1 DEF Returns
<1> QED
  BY <1>3, <1>4, Zenon

(* The value of a header.                                                  *)
LEMMA ValueTypes ==
    ASSUME NEW v \in ValueType
    PROVE  /\ v.value \in Nat
           /\ v.given \in BOOLEAN /\ v.valid \in BOOLEAN
           /\ v # Absent => v.given
           /\ v.given /\ v # Malformed => v.valid
<1>1. v \in {Absent, Malformed} \/ \E n \in Nat : v = Given(n)
  BY Zenon DEF ValueType
<1>2. CASE v = Absent
  BY <1>2, Zenon DEF Absent
<1>3. CASE v = Malformed
  BY <1>3, Zenon DEF Malformed, Absent
<1>4. ASSUME NEW n \in Nat, v = Given(n)
      PROVE  v.value \in Nat /\ v.given = TRUE /\ v.valid = TRUE
  BY <1>4, Zenon DEF Given
<1> QED
  BY Zenon, <1>1, <1>2, <1>3, <1>4

(* The lifetime, the age and the time to reuse are numbers.                *)
LEMMA ReusedTypes ==
    ASSUME NEW c \in Control, NEW d \in ValueType, NEW e \in ValueType,
           NEW a \in ValueType, NEW now \in Seconds, NEW p \in Policies
    PROVE  /\ AgeAt(d, a, now) \in Nat
           /\ AgeAt(d, a, now) = Greater(a.value, IF d.given THEN now - d.value ELSE 0)
           /\ Lifetime(c, d, e, now) \in Nat
           /\ Remaining(c, d, e, a, now) \in Nat
           /\ Reused(c, d, e, a, now, p) \in 0 .. p.maximum
           /\ p.default \in Nat /\ p.maximum \in Nat
<1>1. /\ d.value \in Nat /\ e.value \in Nat /\ a.value \in Nat
      /\ now \in Nat /\ p.default \in Nat /\ p.maximum \in Nat
      /\ c.max_age \in Nat
  BY ValueTypes, FreshnessAssumption DEF Control
<1>2. /\ AgeAt(d, a, now) \in Nat
      /\ AgeAt(d, a, now) = Greater(a.value, IF d.given THEN now - d.value ELSE 0)
  BY <1>1 DEF AgeAt, Greater
<1>3. Lifetime(c, d, e, now) \in Nat
  BY <1>1 DEF Lifetime, Greater
<1>4. Remaining(c, d, e, a, now) \in Nat
  BY <1>2, <1>3, Milliseconds DEF Remaining
<1> QED
  BY <1>1, <1>2, <1>3, <1>4 DEF Reused, Smaller

(* As long as a response is reused it is younger than its lifetime.        *)
LEMMA ReusedWithinLifetime ==
    ASSUME NEW c \in Control, NEW d \in ValueType, NEW e \in ValueType,
           NEW a \in ValueType, NEW now \in Seconds, NEW p \in Policies,
           Explicit(c, e),
           NEW t \in Nat, t * MsPerSecond < Reused(c, d, e, a, now, p)
    PROVE  AgeAt(d, a, now) + t < Lifetime(c, d, e, now)
<1>1. PICK g, l, m, u : /\ g = AgeAt(d, a, now) /\ l = Lifetime(c, d, e, now)
                        /\ m = Remaining(c, d, e, a, now)
                        /\ u = Reused(c, d, e, a, now, p)
  OBVIOUS
<1>2. /\ g \in Nat /\ l \in Nat /\ m \in Nat /\ u \in Nat /\ p.maximum \in Nat
  BY <1>1, ReusedTypes
<1>3. MsPerSecond \in Nat \ {0} /\ t * MsPerSecond \in Nat
  BY FreshnessAssumption, TimesOrder, Zenon
<1>4. u <= m
  BY <1>1, <1>2 DEF Reused, Smaller
<1>5. g < l /\ m = seconds_to_milliseconds(l - g)
  BY <1>1, <1>2, <1>3, <1>4 DEF Remaining
<1>6. l - g \in Nat /\ m <= (l - g) * MsPerSecond
  BY <1>2, <1>5, Milliseconds
<1>7. t * MsPerSecond < (l - g) * MsPerSecond
  BY <1>1, <1>2, <1>3, <1>4, <1>6
<1>8. t < l - g
  BY <1>3, <1>6, <1>7, TimesOrder, Zenon
<1> QED
  BY <1>1, <1>2, <1>8

-----------------------------------------------------------------------------
(* The invariants *)

(* An explicit lifetime is never extended: what calculate returns stays    *)
(* within every max-age, or else Expires, and within the administrator's   *)
(* maximum, for every header, clock and policy.                            *)
LEMMA ExplicitKept == HeadersInv => ExplicitNotExtended
<1> SUFFICES ASSUME HeadersInv, NEW now \in Seconds, NEW p \in Policies
             PROVE  LET r == calculate(now, p)
                    IN  /\ r.ttl \in 0 .. p.maximum
                        /\ r.valid /\ (MaxAges # {} \/ expires # <<>>) =>
                             \A t \in {u \in 0 .. Int64Max : u * MsPerSecond < r.ttl} :
                                FreshFor(now, t)
  BY Zenon DEF ExplicitNotExtended
<1>1. PICK c, r : c = parse_cache_control(cache_control) /\ r = calculate(now, p)
  OBVIOUS
<1>2. /\ cache_control \in Seq(ItemType)
      /\ Dated \in ValueType /\ Expiring \in ValueType /\ age \in ValueType
      /\ expires # <<>> => Expiring.given
  BY DatesRead, Zenon DEF HeadersInv
<1>3. /\ c \in Control
      /\ c.ok => /\ c.has_max_age <=> Named(cache_control, "max-age")
                 /\ \A k \in 1 .. Len(cache_control) :
                        cache_control[k].name = "max-age" =>
                            cache_control[k].argument = c.max_age
  BY Zenon, <1>1, <1>2, CacheControlParsed
<1>4. Returns(r, c, Dated, Expiring, age, now, p)
  BY Zenon, <1>1, Calculated
<1>5. r.ttl \in 0 .. p.maximum
  <2>1. CASE r.valid
    <3>1. r.ttl = Reused(c, Dated, Expiring, age, now, p)
      BY Zenon, <1>4, <2>1 DEF Returns
    <3>2. Reused(c, Dated, Expiring, age, now, p) \in 0 .. p.maximum
      BY Zenon, <1>2, <1>3, ReusedTypes
    <3> QED
      BY Zenon, <3>1, <3>2
  <2>2. CASE ~r.valid
    <3>1. p.maximum \in Nat /\ r.ttl = 0
      BY <1>4, <2>2, FreshnessAssumption DEF Returns
    <3> QED
      BY <3>1
  <2> QED
    BY <2>1, <2>2, Zenon
<1>6. ASSUME r.valid, MaxAges # {} \/ expires # <<>>,
             NEW t \in 0 .. Int64Max, t * MsPerSecond < r.ttl
      PROVE  FreshFor(now, t)
  <2>1. c.ok /\ r.ttl = Reused(c, Dated, Expiring, age, now, p)
    BY ZenonT(60), <1>4, <1>6 DEF Returns, Refused
  <2>2. MaxAges # {} <=> c.has_max_age
    <3>1. DOMAIN cache_control = 1 .. Len(cache_control)
      BY <1>2, SMTT(30)
    <3> QED
      BY <1>3, <2>1, <3>1, Zenon DEF MaxAges, Named, Range
  <2>3. \A m \in MaxAges : m = c.max_age
    <3>1. DOMAIN cache_control = 1 .. Len(cache_control)
      BY <1>2
    <3> QED
      BY <1>3, <2>1, <3>1, Zenon DEF MaxAges, Range
  <2>4. PICK g, l : g = AgeAt(Dated, age, now) /\ l = Lifetime(c, Dated, Expiring, now)
    OBVIOUS
  <2>5. /\ g \in Nat /\ l \in Nat /\ t \in Nat
        /\ g = Greater(age.value, IF Dated.given THEN now - Dated.value ELSE 0)
    <3>1. t \in Nat
      BY FreshnessAssumption
    <3> QED
      BY Zenon, <1>2, <1>3, <2>4, <3>1, ReusedTypes
  <2>6. g + t < l
    <3>1. Explicit(c, Expiring)
      BY <1>2, <1>6, <2>2, Zenon DEF Explicit
    <3> QED
      BY Zenon, <1>2, <1>3, <1>6, <2>1, <2>4, <2>5, <3>1, ReusedWithinLifetime
  <2>7. CASE c.has_max_age
    <3>1. l = c.max_age
      BY <2>4, <2>7, Zenon DEF Lifetime
    <3>2. \A m \in MaxAges : m > g + t
      BY <2>3, <2>5, <2>6, <3>1, Zenon
    <3> QED
      BY Zenon, <2>2, <2>5, <2>7, <3>2 DEF FreshFor, Dated, Expiring
  <2>8. CASE ~c.has_max_age
    <3>1. PICK x : x = Expiring.value - (IF Dated.given THEN Dated.value ELSE now)
      OBVIOUS
    <3>2. l = Greater(x, 0)
      BY <2>4, <2>8, <3>1, Zenon DEF Lifetime
    <3>3. x \in Int
      <4>1. Expiring.value \in Nat /\ Dated.value \in Nat /\ now \in Nat
        BY <1>2, ValueTypes, FreshnessAssumption
      <4> QED
        BY <3>1, <4>1
    <3>4. x > g + t
      BY <2>5, <2>6, <3>2, <3>3 DEF Greater
    <3> QED
      BY Zenon, <2>2, <2>5, <2>8, <3>1, <3>4 DEF FreshFor, Dated, Expiring
  <2> QED
    BY <2>7, <2>8, Zenon
<1> QED
  BY <1>1, <1>5, <1>6, Zenon

(* Every directive captured, on whichever line, is in force, or the        *)
(* headers are refused.                                                    *)
LEMMA DirectivesKept == HeadersInv => DirectivesInForce
<1> SUFFICES ASSUME HeadersInv, NEW now \in Seconds, NEW p \in Policies
             PROVE  LET r == calculate(now, p)
                        names == {i.name : i \in UNION {Range(l) : l \in Range(captured)}}
                    IN  r.valid =>
                          /\ "no-store" \in names => ~r.cacheable
                          /\ "no-cache" \in names =>
                                r.ttl = 0 /\ r.revalidation_required
                          /\ "must-revalidate" \in names => r.revalidation_required
  BY Zenon DEF DirectivesInForce
<1>1. PICK c, r : c = parse_cache_control(cache_control) /\ r = calculate(now, p)
  OBVIOUS
<1>2. cache_control \in Seq(ItemType) /\ NothingLost
  BY Zenon DEF HeadersInv
<1>3. /\ c.ok => /\ c.no_store <=> Named(cache_control, "no-store")
                 /\ c.no_cache <=> Named(cache_control, "no-cache")
                 /\ c.must_revalidate <=> Named(cache_control, "must-revalidate")
  BY Zenon, <1>1, <1>2, CacheControlParsed
<1>4. Returns(r, c, Dated, Expiring, age, now, p)
  BY Zenon, <1>1, Calculated
<1>5. ASSUME NEW l \in Range(captured), NEW i \in Range(l), i.name # ""
      PROVE  Named(cache_control, i.name)
  <2>1. EmptyItem.name = ""
    BY Zenon DEF EmptyItem, Item
  <2>2. i \in Range(cache_control)
    BY Zenon, <1>2, <1>5, <2>1 DEF NothingLost
  <2>3. DOMAIN cache_control = 1 .. Len(cache_control)
    BY <1>2
  <2> QED
    BY Zenon, <2>2, <2>3 DEF Range, Named
<1>6. PICK names : names = {i.name : i \in UNION {Range(l) : l \in Range(captured)}}
  BY Zenon
<1>7. \A name \in names : name # "" => Named(cache_control, name)
  BY Zenon, <1>5, <1>6
<1>8. /\ "no-store" \in names => Named(cache_control, "no-store")
      /\ "no-cache" \in names => Named(cache_control, "no-cache")
      /\ "must-revalidate" \in names => Named(cache_control, "must-revalidate")
  BY Zenon, <1>7
<1>9. ASSUME r.valid
      PROVE  /\ "no-store" \in names => ~r.cacheable
             /\ "no-cache" \in names => r.ttl = 0 /\ r.revalidation_required
             /\ "must-revalidate" \in names => r.revalidation_required
  <2>1. c.ok /\ r.ttl = Reused(c, Dated, Expiring, age, now, p)
    BY Zenon, <1>4, <1>9 DEF Returns, Refused
  <2>2. c.no_cache => r.ttl = 0
    BY Zenon, <2>1 DEF Reused
  <2> QED
    BY Zenon, <1>3, <1>4, <1>8, <1>9, <2>1, <2>2 DEF Returns
<1> QED
  BY Zenon, <1>1, <1>6, <1>9

(* Of any response, an explicit lifetime is never extended.                *)
THEOREM FreshnessExplicitNotExtended == HeadersSpec => []ExplicitNotExtended
  BY HeadersKept, ExplicitKept, PTL

(* Of any response, every captured directive is in force.                  *)
THEOREM FreshnessDirectivesInForce == HeadersSpec => []DirectivesInForce
  BY HeadersKept, DirectivesKept, PTL

-----------------------------------------------------------------------------
(* One more header *)

(* A line joined after others makes the header harder to accept and takes  *)
(* no directive back.                                                      *)
LEMMA LineRestricts ==
    ASSUME NEW items \in Seq(ItemType), NEW line \in Lines, Restricts(line),
           parse_cache_control(joined(items, line)).ok
    PROVE  LET c == parse_cache_control(items)
               d == parse_cache_control(joined(items, line))
           IN  /\ c.ok
               /\ c.no_store => d.no_store
               /\ c.no_cache => d.no_cache
               /\ c.must_revalidate => d.must_revalidate
               /\ c.has_max_age <=> d.has_max_age
               /\ c.has_max_age => c.max_age = d.max_age
<1>1. PICK more : more = joined(items, line)
  OBVIOUS
<1>2. PICK s, t : s = visited(items) /\ t = visited(more)
  OBVIOUS
<1>3. /\ line \in Seq(ItemType) /\ line # <<>> /\ more \in Seq(ItemType)
  BY <1>1, Joined, FreshnessAssumption, Zenon
<1>4. Restricts(line) => \A k \in 1 .. Len(line) : line[k].name # "max-age"
  BY <1>3 DEF Restricts, Range
<1>5. Accepted(t, Len(t))
  BY Zenon, <1>1, <1>2, <1>3, CacheControlParsed
<1>6. /\ s \in Seq(ItemType) /\ t \in Seq(ItemType)
      /\ Len(s) \in Nat /\ Len(t) \in Nat
      /\ \A k \in 1 .. Len(s) : s[k] = items[k]
      /\ \A k \in 1 .. Len(t) : t[k] = more[k]
      /\ Len(s) <= Len(items)
      /\ Len(more) <= Len(t) + 1
  BY <1>2, <1>3, Visited, Zenon
<1>7. /\ \A k \in 1 .. Len(s) : k \in 1 .. Len(t) /\ t[k] = s[k]
      /\ \A name : name # "" /\ Named(items, name) => Named(more, name)
      /\ Named(more, "max-age") => Named(items, "max-age")
      /\ \A k \in 1 .. Len(items) : items[k].name = "max-age" =>
            k \in 1 .. Len(more) /\ more[k] = items[k]
  <2>1. CASE IsEmptyString(items)
    <3>1. more = line
      BY <1>1, <2>1, Zenon DEF joined
    <3>2. Len(s) = 0
      <4>1. visited(<<>>) = <<>> /\ visited(<<EmptyItem>>) = <<>>
        BY DEF visited
      <4> QED
        BY <1>2, <2>1, <4>1 DEF IsEmptyString
    <3>3. EmptyItem.name = ""
      BY Zenon DEF EmptyItem, Item
    <3>4. \A k \in 1 .. Len(items) : items[k].name = ""
      <4>0. (\A k : k \notin 1 .. 0) /\ \A k \in 1 .. 1 : k = 1
        OBVIOUS
      <4>1. CASE items = <<>>
        <5>1. Len(items) = 0
          BY <4>1, Zenon
        <5> QED
          BY Zenon, <4>0, <5>1
      <4>2. CASE items = <<EmptyItem>>
        <5>1. Len(items) = 1 /\ items[1] = EmptyItem
          BY <4>2, Zenon
        <5> QED
          BY Zenon, <3>3, <4>0, <5>1
      <4> QED
        BY Zenon, <2>1, <4>1, <4>2 DEF IsEmptyString
    <3>5. \A k : k \notin 1 .. 0
      OBVIOUS
    <3>6. "max-age" # ""
      OBVIOUS
    <3> QED
      BY Zenon, <1>4, <3>1, <3>2, <3>4, <3>5, <3>6 DEF Named
  <2>2. CASE ~IsEmptyString(items)
    <3>1. more = items \o line
      BY <1>1, <2>2, Zenon DEF joined
    <3>2. /\ Len(more) = Len(items) + Len(line) /\ Len(line) \in Nat \ {0}
          /\ Len(items) \in Nat
          /\ \A k \in 1 .. Len(items) : k \in 1 .. Len(more) /\ more[k] = items[k]
      BY <1>3, <3>1, SMTT(30)
    <3>3. \A k \in 1 .. Len(s) : k \in 1 .. Len(t) /\ t[k] = s[k]
      BY <1>6, <3>2
    <3>4. \A name : Named(items, name) => Named(more, name)
      BY Zenon, <3>2 DEF Named
    <3>5. Named(more, "max-age") => Named(items, "max-age")
      <4> SUFFICES ASSUME NEW k \in 1 .. Len(more), more[k].name = "max-age"
                   PROVE  k \in 1 .. Len(items)
        BY Zenon, <3>2 DEF Named
      <4>1. SUFFICES ASSUME k \notin 1 .. Len(items) PROVE FALSE
        BY Zenon
      <4>2. k - Len(items) \in 1 .. Len(line)
        BY <3>2, <4>1, SMTT(30)
      <4>3. more[k] = line[k - Len(items)]
        BY <1>3, <3>1, <3>2, <4>1, <4>2
      <4> QED
        BY <1>4, <4>2, <4>3, Zenon
    <3> QED
      BY Zenon, <3>2, <3>3, <3>4, <3>5
  <2> QED
    BY Zenon, <2>1, <2>2
<1>8. Accepted(s, Len(s))
  BY Zenon, <1>5, <1>7 DEF Accepted
<1>9. PICK c, d : c = parse_cache_control(items) /\ d = parse_cache_control(more)
  OBVIOUS
<1>10. d.ok /\ c.ok
  BY Zenon, <1>1, <1>2, <1>8, <1>9, CacheControlParsed
<1>11. /\ c.no_store => d.no_store
       /\ c.no_cache => d.no_cache
       /\ c.must_revalidate => d.must_revalidate
       /\ c.has_max_age <=> d.has_max_age
  <2>1. /\ c.no_store <=> Named(items, "no-store")
        /\ c.no_cache <=> Named(items, "no-cache")
        /\ c.must_revalidate <=> Named(items, "must-revalidate")
        /\ c.has_max_age <=> Named(items, "max-age")
    BY Zenon, <1>9, <1>10, CacheControlParsed
  <2>2. /\ d.no_store <=> Named(more, "no-store")
        /\ d.no_cache <=> Named(more, "no-cache")
        /\ d.must_revalidate <=> Named(more, "must-revalidate")
        /\ d.has_max_age <=> Named(more, "max-age")
    BY Zenon, <1>3, <1>9, <1>10, CacheControlParsed
  <2>3. /\ Named(items, "no-store") => Named(more, "no-store")
        /\ Named(items, "no-cache") => Named(more, "no-cache")
        /\ Named(items, "must-revalidate") => Named(more, "must-revalidate")
        /\ Named(items, "max-age") => Named(more, "max-age")
    BY ZenonT(60), <1>7
  <2> QED
    BY Zenon, <1>7, <2>1, <2>2, <2>3
<1>12. c.has_max_age => c.max_age = d.max_age
  <2> SUFFICES ASSUME c.has_max_age PROVE c.max_age = d.max_age
    OBVIOUS
  <2>1. PICK k \in 1 .. Len(items) : items[k].name = "max-age"
    BY Zenon, <1>9, <1>10, CacheControlParsed DEF Named
  <2>2. items[k].argument = c.max_age
    BY Zenon, <1>9, <1>10, <2>1, CacheControlParsed
  <2>3. k \in 1 .. Len(more) /\ more[k] = items[k]
    BY Zenon, <1>7, <2>1
  <2>4. more[k].argument = d.max_age
    <3>1. more[k].name = "max-age"
      BY <2>1, <2>3, Zenon
    <3> QED
      BY ZenonT(60), <1>3, <1>9, <1>10, <2>3, <3>1, CacheControlParsed
  <2> QED
    BY <2>2, <2>3, <2>4, Zenon
<1> QED
  BY Zenon, <1>1, <1>9, <1>10, <1>11, <1>12

(* The shorter remaining time of an older response.                        *)
LEMMA OlderExpiresSooner ==
    ASSUME NEW c \in Control, NEW d \in ValueType, NEW e \in ValueType,
           NEW a \in ValueType, NEW b \in ValueType, a.value <= b.value,
           NEW now \in Seconds, NEW p \in Policies
    PROVE  Reused(c, d, e, b, now, p) <= Reused(c, d, e, a, now, p)
<1>1. PICK g, h, l, m, n : /\ g = AgeAt(d, a, now) /\ h = AgeAt(d, b, now)
                           /\ l = Lifetime(c, d, e, now)
                           /\ m = Remaining(c, d, e, a, now)
                           /\ n = Remaining(c, d, e, b, now)
  BY Zenon
<1>2. /\ g \in Nat /\ h \in Nat /\ l \in Nat /\ m \in Nat /\ n \in Nat
      /\ p.maximum \in Nat /\ p.default \in Nat
  BY <1>1, ReusedTypes
<1>3. g <= h
  <2>1. a.value \in Nat /\ b.value \in Nat /\ d.value \in Nat /\ now \in Nat
    BY ValueTypes, FreshnessAssumption
  <2> QED
    BY <1>1, <2>1 DEF AgeAt, Greater
<1>4. n <= m
  <2>1. CASE h >= l
    BY <1>1, <1>2, <2>1 DEF Remaining
  <2>2. CASE ~(h >= l)
    <3>1. ~(g >= l) /\ l - h \in Nat /\ l - g \in Nat /\ l - h <= l - g
      BY <1>2, <1>3, <2>2, SMTT(30)
    <3>2. /\ n = seconds_to_milliseconds(l - h)
          /\ m = seconds_to_milliseconds(l - g)
      BY <1>1, <2>2, <3>1, Zenon DEF Remaining
    <3> QED
      BY <3>1, <3>2, MillisecondsOrder, Zenon
  <2> QED
    BY <2>1, <2>2, Zenon
<1> QED
  BY <1>1, <1>2, <1>4 DEF Reused, Smaller

(* One more header, other than a max-age or a Date or an Expires that      *)
(* curl_getdate still reads, makes a response no more reusable.            *)
LEMMA HeaderRestricts ==
    ASSUME HeadersInv, NEW now \in Seconds, NEW p \in Policies,
           \/ \E l \in Lines : Restricts(l) /\ CaptureCacheControl(l)
           \/ \E v \in Ages : CaptureAge(v)
           \/ \E l \in DateLines :
                \/ Len(date) >= PartsRead /\ CaptureDate(l)
                \/ Len(expires) >= PartsRead /\ CaptureExpires(l)
    PROVE  AsStrictAs(calculate(now, p)', calculate(now, p))
<1>1. PICK c, d, r, s :
        /\ c = parse_cache_control(cache_control)
        /\ d = parse_cache_control(cache_control')
        /\ r = calculate(now, p)' /\ s = calculate(now, p)
  OBVIOUS
<1>2. /\ cache_control \in Seq(ItemType)
      /\ Dated \in ValueType /\ Expiring \in ValueType /\ age \in ValueType
      /\ date \in Seq(DatePart) /\ expires \in Seq(DatePart)
  BY DatesRead, Zenon DEF HeadersInv
<1>3. /\ Returns(r, d, Dated', Expiring', age', now, p)
      /\ Returns(s, c, Dated, Expiring, age, now, p)
  BY Zenon, <1>1, Calculated, CalculatedNext
<1>4. c \in Control
  BY Zenon, <1>1, <1>2, CacheControlParsed
<1>5. Malformed.given = TRUE /\ Malformed.valid = FALSE /\ Malformed.value = 0
  BY Zenon DEF Malformed
<1> SUFFICES ASSUME r.valid PROVE AsStrictAs(r, s)
  BY Zenon, <1>1 DEF AsStrictAs
<1>6. ~Refused(d, Dated', Expiring', age')
  BY Zenon, <1>3 DEF Returns
<1>7. ASSUME ~Refused(c, Dated, Expiring, age),
             c.no_store => d.no_store, c.no_cache => d.no_cache,
             c.must_revalidate => d.must_revalidate,
             Reused(d, Dated', Expiring', age', now, p)
                <= Reused(c, Dated, Expiring, age, now, p)
      PROVE  AsStrictAs(r, s)
  BY Zenon, <1>3, <1>7 DEF Returns, AsStrictAs
<1>8. Reused(c, Dated, Expiring, age, now, p) \in Nat
  BY <1>2, <1>4, ReusedTypes, FreshnessAssumption
<1>9. ASSUME NEW l \in Lines, Restricts(l), CaptureCacheControl(l)
      PROVE  AsStrictAs(r, s)
  <2>1. /\ cache_control' = joined(cache_control, l)
        /\ Dated' = Dated /\ Expiring' = Expiring /\ age' = age
    BY <1>9, Zenon DEF CaptureCacheControl, Dated, Expiring
  <2>2. d.ok
    BY Zenon, <1>6 DEF Refused
  <2>3. /\ c.ok
        /\ c.no_store => d.no_store
        /\ c.no_cache => d.no_cache
        /\ c.must_revalidate => d.must_revalidate
        /\ c.has_max_age <=> d.has_max_age
        /\ c.has_max_age => c.max_age = d.max_age
    BY Zenon, <1>1, <1>2, <1>9, <2>1, <2>2, LineRestricts
  <2>4. ~Refused(c, Dated, Expiring, age)
    BY ZenonT(60), <1>6, <2>1, <2>3 DEF Refused, Explicit
  <2>5. /\ Explicit(d, Expiring) <=> Explicit(c, Expiring)
        /\ Lifetime(d, Dated, Expiring, now) = Lifetime(c, Dated, Expiring, now)
    BY <2>3, Zenon DEF Explicit, Lifetime
  <2>6. Remaining(d, Dated, Expiring, age, now) = Remaining(c, Dated, Expiring, age, now)
    BY ZenonT(60), <2>5 DEF Remaining
  <2>7. \/ Reused(d, Dated, Expiring, age, now, p) = 0
        \/ Reused(d, Dated, Expiring, age, now, p)
                = Reused(c, Dated, Expiring, age, now, p)
    BY <2>3, <2>5, <2>6, Zenon DEF Reused
  <2>8. Reused(d, Dated', Expiring', age', now, p)
            <= Reused(c, Dated, Expiring, age, now, p)
    BY <1>8, <2>1, <2>7
  <2> QED
    BY Zenon, <1>7, <2>3, <2>4, <2>8
<1>10. ASSUME NEW v \in Ages, CaptureAge(v)
       PROVE  AsStrictAs(r, s)
  <2>1. /\ age' = captured_again(age, v)
        /\ Dated' = Dated /\ Expiring' = Expiring /\ d = c
    BY <1>1, <1>10, Zenon DEF CaptureAge, Dated, Expiring
  <2>2. age = Absent
    <3>1. age' # Malformed
      BY ZenonT(60), <1>5, <1>6 DEF Refused
    <3> QED
      BY Zenon, <2>1, <3>1 DEF captured_again
  <2>3. age' = v /\ v \in ValueType /\ age.value = 0 /\ age.given = FALSE
    <3>1. captured_again(age, v) = v /\ Absent.value = 0 /\ Absent.given = FALSE
      BY <2>2, Zenon DEF captured_again, Absent
    <3>2. captured_again(age, v) \in ValueType
      BY <1>2, CapturedAgain, Zenon
    <3> QED
      BY <2>1, <2>2, <3>1, <3>2, Zenon
  <2>4. ~Refused(c, Dated, Expiring, age)
    BY Zenon, <1>6, <2>1, <2>3 DEF Refused
  <2>5. age.value <= v.value
    BY <2>3, ValueTypes, SMTT(30)
  <2>6. Reused(c, Dated, Expiring, v, now, p) <= Reused(c, Dated, Expiring, age, now, p)
    BY <1>2, <1>4, <2>3, <2>5, OlderExpiresSooner, Zenon
  <2> QED
    BY ZenonT(60), <1>7, <2>1, <2>3, <2>4, <2>6
<1>11. ASSUME NEW l \in DateLines,
              \/ Len(date) >= PartsRead /\ CaptureDate(l)
              \/ Len(expires) >= PartsRead /\ CaptureExpires(l)
       PROVE  AsStrictAs(r, s)
  <2>1. Dated' = Dated
    <3>1. CASE Len(date) >= PartsRead /\ CaptureDate(l)
      BY <1>2, <3>1, FurtherParts, Zenon DEF CaptureDate, Dated
    <3>2. CASE CaptureExpires(l)
      BY <3>2, Zenon DEF CaptureExpires, Dated
    <3> QED
      BY <1>11, <3>1, <3>2, Zenon
  <2>2. Expiring' = Expiring
    <3>1. CASE Len(expires) >= PartsRead /\ CaptureExpires(l)
      BY <1>2, <3>1, FurtherParts, Zenon DEF CaptureExpires, Expiring
    <3>2. CASE CaptureDate(l)
      BY <3>2, Zenon DEF CaptureDate, Expiring
    <3> QED
      BY <1>11, <3>1, <3>2, Zenon
  <2>3. d = c /\ age' = age
    BY <1>1, <1>11, Zenon DEF CaptureDate, CaptureExpires
  <2>4. ~Refused(c, Dated, Expiring, age)
    BY <1>6, <2>1, <2>2, <2>3, Zenon
  <2>5. Reused(d, Dated', Expiring', age', now, p)
            <= Reused(c, Dated, Expiring, age, now, p)
    <3>1. Reused(d, Dated', Expiring', age', now, p) = Reused(c, Dated, Expiring, age, now, p)
      BY <2>1, <2>2, <2>3, Zenon
    <3> QED
      BY <1>8, <3>1, SMT
  <2> QED
    BY <1>7, <2>3, <2>4, <2>5, Zenon
<1> QED
  BY Zenon, <1>9, <1>10, <1>11

(* Of any response, one more Cache-Control line without max-age, Age line, *)
(* or Date or Expires line behind the parts that curl_getdate reads, only  *)
(* restricts its reuse.                                                    *)
THEOREM FreshnessLinesOnlyRestrict == HeadersSpec => LinesOnlyRestrict
<1> DEFINE Restriction ==
        (\/ \E l \in Lines : Restricts(l) /\ CaptureCacheControl(l)
         \/ \E v \in Ages : CaptureAge(v)
         \/ \E l \in DateLines :
                \/ Len(date) >= PartsRead /\ CaptureDate(l)
                \/ Len(expires) >= PartsRead /\ CaptureExpires(l))
        => \A now \in Seconds, p \in Policies :
                AsStrictAs(calculate(now, p)', calculate(now, p))
<1>1. HeadersInv => Restriction
  BY Zenon, HeaderRestricts
<1>2. HeadersInv /\ [HeadersNext]_headerVars => [Restriction]_headerVars
  BY Zenon, <1>1
<1> HIDE DEF Restriction
<1>3. HeadersSpec => [][Restriction]_headerVars
  BY <1>2, HeadersKept, PTL DEF HeadersSpec
<1> QED
  BY <1>3, Zenon DEF Restriction, LinesOnlyRestrict
=============================================================================
