--------------------------- MODULE HttpFreshness ----------------------------
(***************************************************************************)
(* src/http_freshness.c: how long a response may be reused, computed from  *)
(* the header lines that capture_header of src/http_transport.c joins.     *)
(* Lines arrive in any number and order; in every state the properties     *)
(* look at what pg_oauth_http_freshness_calculate makes of those captured  *)
(* so far.                                                                 *)
(*                                                                         *)
(* A Cache-Control value is the sequence of its comma-separated items, a   *)
(* Date or an Expires the sequence of the parts that curl_getdate tells    *)
(* apart, and an Age a number, given or not, well-formed or not.           *)
(* An operator X_Y is X with a mistake, for the mutants of PROJECT.json.   *)
(***************************************************************************)
EXTENDS Integers, Sequences, Functions

CONSTANTS
    Lines,        \* values of Cache-Control lines
    DateLines,    \* values of Date and Expires lines
    Seconds,      \* ages in headers, and response times
    Policies,     \* PgOAuthHttpFreshnessPolicy: default and maximum TTL
    Int64Max,     \* INT64_MAX
    MsPerSecond,  \* 1000
    MaxCaptured   \* bound on the header lines of a response

\* What a part of a date sets, and the seconds it stands for.  "unknown" is a
\* word or a number that is none of the others.
DatePart ==
    [field: {"weekday", "day", "month", "year", "time", "zone", "unknown"},
     value: Nat]

ASSUME FreshnessAssumption ==
    /\ Seconds \subseteq 0 .. Int64Max
    /\ Int64Max \in Nat
    /\ MsPerSecond \in Nat \ {0}
    /\ MaxCaptured \in Nat
    /\ Lines \subseteq Seq([name: STRING, argument: Int]) \ {<<>>}
    /\ DateLines \subseteq Seq(DatePart)
    /\ Policies \subseteq [default: 0 .. Int64Max, maximum: 0 .. Int64Max]
    /\ \A p \in Policies : p.default <= p.maximum

Greater(a, b) == IF a > b THEN a ELSE b
Smaller(a, b) == IF a < b THEN a ELSE b

\* An item: its directive, and what follows the equals sign, if anything.
\* The name "" with an argument stands for an item without a name or with a
\* character that is not printable.
NoArgument == -1
NotDecimal == -2
Item(name, argument) == [name |-> name, argument |-> argument]

EmptyItem == Item("", NoArgument)

VARIABLES
    cache_control,          \* the joined items, <<>> before the first line
    date, expires,          \* the joined parts, <<>> before the first line
    age,                    \* the Age header
    captured,               \* the Cache-Control lines one by one
    received                \* how many lines there were

headerVars == <<cache_control, date, expires, age, captured, received>>

Absent == [given |-> FALSE, valid |-> FALSE, value |-> 0]
Malformed == [given |-> TRUE, valid |-> FALSE, value |-> 0]
Given(n) == [given |-> TRUE, valid |-> TRUE, value |-> n]

HeadersInit ==
    /\ cache_control = <<>>
    /\ date = <<>>
    /\ expires = <<>>
    /\ age = Absent
    /\ captured = <<>>
    /\ received = 0

-----------------------------------------------------------------------------
(* capture_header and append_header_value: a comma between two values      *)

\* An empty value leaves an empty string behind, which the next one replaces.
IsEmptyString(items) == items \in {<<>>, <<EmptyItem>>}

joined_LastLine(items, line) == line

joined(items, line) == IF IsEmptyString(items) THEN line ELSE items \o line

Received ==
    /\ received < MaxCaptured
    /\ received' = received + 1

CaptureCacheControl(line) ==
    /\ Received
    /\ captured' = Append(captured, line)
    /\ cache_control' = joined(cache_control, line)
    /\ UNCHANGED <<date, expires, age>>

\* curl_getdate passes over the comma between two values, as over any other
\* punctuation.
CaptureDate(line) ==
    /\ Received
    /\ date' = date \o line
    /\ UNCHANGED <<cache_control, expires, age, captured>>

CaptureExpires(line) ==
    /\ Received
    /\ expires' = expires \o line
    /\ UNCHANGED <<cache_control, date, age, captured>>

Ages == {Given(n) : n \in Seconds} \cup {Malformed}

\* Two numbers joined by a comma are no decimal number.
captured_again(old, new) == IF old = Absent THEN new ELSE Malformed

CaptureAge(v) ==
    /\ Received
    /\ age' = captured_again(age, v)
    /\ UNCHANGED <<cache_control, date, expires, captured>>

HeadersNext ==
    \/ \E l \in Lines : CaptureCacheControl(l)
    \/ \E l \in DateLines : CaptureDate(l) \/ CaptureExpires(l)
    \/ \E v \in Ages : CaptureAge(v)

HeadersSpec == HeadersInit /\ [][HeadersNext]_headerVars

-----------------------------------------------------------------------------
(* parse_cache_control *)

NoControl ==
    [ok |-> TRUE, has_max_age |-> FALSE, max_age |-> 0, no_store |-> FALSE,
     no_cache |-> FALSE, must_revalidate |-> FALSE]

Bad_Ignored(parsed) == NoControl

\* The function returns false.
Bad(parsed) == [parsed EXCEPT !.ok = FALSE]

\* One turn of the loop; once it has failed the function has returned.
\* Unknown directives are skipped.
parse_item(parsed, item) ==
    LET bare == item.argument = NoArgument
    IN  IF ~parsed.ok THEN parsed
        ELSE CASE item.name = "no-store" ->
                    IF bare THEN [parsed EXCEPT !.no_store = TRUE]
                    ELSE Bad(parsed)
               [] item.name = "no-cache" -> [parsed EXCEPT !.no_cache = TRUE]
               [] item.name = "must-revalidate" ->
                    IF bare THEN [parsed EXCEPT !.must_revalidate = TRUE]
                    ELSE Bad(parsed)
               [] item.name = "max-age" ->
                    IF parsed.has_max_age \/ item.argument < 0 THEN Bad(parsed)
                    ELSE [parsed EXCEPT !.has_max_age = TRUE,
                                        !.max_age = item.argument]
               [] item.name = "" -> Bad(parsed)
               [] OTHER -> parsed

\* The loop ends before an empty item at the end of the string.
visited(items) ==
    IF items # <<>> /\ items[Len(items)] = EmptyItem
    THEN SubSeq(items, 1, Len(items) - 1) ELSE items

\* What the loop has parsed after each number of turns over s.
turns(s) ==
    LET after[n \in 0 .. Len(s)] ==
            IF n = 0 THEN NoControl ELSE parse_item(after[n - 1], s[n])
    IN  after

parse_cache_control(items) ==
    LET s == visited(items)
    IN  turns(s)[Len(s)]

-----------------------------------------------------------------------------
(* curl_getdate, for values in which a day is followed by its month and    *)
(* year, as in the dates of RFC 9110.  (After a day alone it would take    *)
(* the day of a further date for a year.)                                  *)

\* It reads six parts at most: "Sun, 06 Nov 1994 08:49:37 GMT" has as many.
PartsRead == 6

parts_read(parts) == SubSeq(parts, 1, Smaller(Len(parts), PartsRead))

fields_of(parts) == {parts[k].field : k \in DOMAIN parts}

\* The seconds of the part that sets the field, 0 without one.
part_value(parts, field) ==
    IF field \in fields_of(parts)
    THEN parts[CHOOSE k \in DOMAIN parts : parts[k].field = field].value
    ELSE 0

\* A part fails if what it would set is set already; a date has a day, a month
\* and a year, and is at midnight if no time is given.
date_ok(parts) ==
    /\ "unknown" \notin fields_of(parts)
    /\ IsInjective([k \in DOMAIN parts |-> parts[k].field])
    /\ {"day", "month", "year"} \subseteq fields_of(parts)

curl_getdate(parts) ==
    LET read == parts_read(parts)
    IN  IF date_ok(read)
        THEN Given(part_value(read, "day") + part_value(read, "month")
                    + part_value(read, "year") + part_value(read, "time"))
        ELSE Malformed

\* What calculate sees: NULL and the empty string are no date.
date_value(parts) == IF parts = <<>> THEN Absent ELSE curl_getdate(parts)

-----------------------------------------------------------------------------
(* pg_oauth_http_freshness_calculate *)

seconds_to_milliseconds(seconds) ==
    IF seconds > Int64Max \div MsPerSecond THEN Int64Max
    ELSE seconds * MsPerSecond

\* PG_OAUTH_HTTP_FRESHNESS_INVALID_HEADER: callers do not read the result.
Invalid ==
    [valid |-> FALSE, cacheable |-> FALSE, revalidation_required |-> FALSE,
     ttl |-> 0]

apparent_age_HeaderOnly(now) == age.value

\* The greater of the Age header and the time since Date.
apparent_age(now) ==
    LET d == date_value(date)
    IN  IF d.given THEN Greater(age.value, now - d.value) ELSE age.value

calculate(now, policy) ==
    LET control == parse_cache_control(cache_control)
        d == date_value(date)
        e == date_value(expires)
        date_at == IF d.given THEN d.value ELSE now
        explicit == control.has_max_age \/ e.given
        bad_dates == \/ ~control.has_max_age /\ e.given /\ ~e.valid
                     \/ explicit /\ d.given /\ ~d.valid
        lifetime == IF control.has_max_age THEN control.max_age
                    ELSE Greater(e.value - date_at, 0)
        remaining == IF apparent_age(now) >= lifetime THEN 0
                     ELSE seconds_to_milliseconds(lifetime - apparent_age(now))
    IN  IF ~control.ok \/ (age.given /\ ~age.valid) \/ bad_dates THEN Invalid
        ELSE [valid |-> TRUE,
              cacheable |-> ~control.no_store,
              revalidation_required |-> control.no_cache \/ control.must_revalidate,
              ttl |-> IF control.no_cache THEN 0
                      ELSE Smaller(policy.maximum,
                                   IF explicit THEN remaining
                                   ELSE policy.default)]

-----------------------------------------------------------------------------
\* RFC 9111: the response would be fresh for t more seconds, by the headers.
MaxAges == {i.argument : i \in {j \in Range(cache_control) : j.name = "max-age"}}

FreshFor(now, t) ==
    LET d == date_value(date)
        current_age == Greater(age.value, IF d.given THEN now - d.value ELSE 0)
    IN  IF MaxAges # {} THEN \A a \in MaxAges : a > current_age + t
        ELSE date_value(expires).value - (IF d.given THEN d.value ELSE now)
                > current_age + t

(* ADR 0002: an explicit lifetime is honoured and never extended up to the *)
(* local default.  Whatever headers a response has, as long as it may be   *)
(* reused it is fresh by every max-age given, or else by Expires, at its   *)
(* age by Date and Age; and it is reused no longer than the administrator  *)
(* allows, also where its seconds overflow as milliseconds.                *)
ExplicitNotExtended ==
    \A now \in Seconds, p \in Policies :
        LET r == calculate(now, p)
        IN  /\ r.ttl \in 0 .. p.maximum
            /\ r.valid /\ (MaxAges # {} \/ expires # <<>>) =>
                    \A t \in {u \in 0 .. Int64Max : u * MsPerSecond < r.ttl} :
                        FreshFor(now, t)

Restricts(line) == \A i \in Range(line) : i.name # "max-age"

AsStrictAs(r, s) ==
    r.valid =>
        /\ s.valid
        /\ r.cacheable => s.cacheable
        /\ s.revalidation_required => r.revalidation_required
        /\ r.ttl <= s.ttl

(* One more Cache-Control line, if it has no max-age, or one more Age      *)
(* never makes a response more reusable, whatever lines came before it:    *)
(* joining lines loses and repairs nothing.  Nor does one more Date or     *)
(* Expires line once there are as many parts as curl_getdate reads; before *)
(* that a line may complete a date, or move it.                            *)
LinesOnlyRestrict ==
    [][ (\/ \E l \in Lines : Restricts(l) /\ CaptureCacheControl(l)
         \/ \E v \in Ages : CaptureAge(v)
         \/ \E l \in DateLines :
                \/ Len(date) >= PartsRead /\ CaptureDate(l)
                \/ Len(expires) >= PartsRead /\ CaptureExpires(l))
        => \A now \in Seconds, p \in Policies :
                AsStrictAs(calculate(now, p)', calculate(now, p))
      ]_headerVars

(* A directive that any of the captured lines contains is in force, or the *)
(* headers as a whole are refused.                                         *)
DirectivesInForce ==
    \A now \in Seconds, p \in Policies :
        LET r == calculate(now, p)
            names == {i.name : i \in UNION {Range(l) : l \in Range(captured)}}
        IN  r.valid =>
                /\ "no-store" \in names => ~r.cacheable
                /\ "no-cache" \in names => r.ttl = 0 /\ r.revalidation_required
                /\ "must-revalidate" \in names => r.revalidation_required
=============================================================================
