----------------------------- MODULE JsonValues -----------------------------
(***************************************************************************)
(* JSON values as the stages look at them through jansson, and texts.  A   *)
(* text is an opaque value with the attributes the checks ask for; how the *)
(* attributes follow from its bytes is in TextChecks and Base64url.        *)
(***************************************************************************)
EXTENDS Integers, Sequences

CONSTANTS Size,        \* the length of each text in bytes
          Control,     \* the texts with a byte that iscntrl accepts
          HighControl, \* the texts with a control character U+0080 to U+009F
          Spaced,      \* the texts with white space
          Words,       \* a text split at blanks
          Entries,     \* a text split at commas, each entry trimmed of white space
          HostEntries, \* the same, but each trimmed of blanks and tabs only
          ScopeToken   \* the texts that valid_scope_token accepts

\* valid_scope_token refuses the empty text.
ASSUME ScopeAssumption == "" \notin ScopeToken

\* Only the length of the empty text is known.
ASSUME SizeAssumption == Size[""] = 0

Absent == [t |-> "absent"]
Other == [t |-> "other"]
Str(x) == [t |-> "string", str |-> x]
Num(n) == [t |-> "integer", num |-> n]
Arr(s) == [t |-> "array", items |-> s]

is_string(j) == j.t = "string"
is_integer(j) == j.t = "integer"
is_array(j) == j.t = "array"
json_string_equals(j, x) == is_string(j) /\ j.str = x

\* A string of 1 to maximum bytes without control characters.
clean_string(j, maximum) ==
    is_string(j) /\ Size[j.str] \in 1 .. maximum /\ j.str \notin Control

valid_identity_string(j, maximum) == clean_string(j, maximum) /\ j.str \notin HighControl

distinct(s) == \A i, j \in 1 .. Len(s) : s[i] = s[j] => i = j
=============================================================================
