-------------------------- MODULE MCHttpFreshness ---------------------------
(* Instances of HttpFreshness for TLC.                                     *)
EXTENDS HttpFreshness

MCLines ==
    {<<EmptyItem>>,
     <<Item("no-store", NoArgument)>>,
     <<Item("no-store", NotDecimal)>>,
     <<Item("", NotDecimal)>>,
     <<Item("no-cache", NoArgument)>>,
     <<Item("max-age", 1)>>,
     <<Item("max-age", NotDecimal)>>,
     <<Item("must-revalidate", NoArgument), Item("max-age", 3)>>,
     <<Item("public", NoArgument), EmptyItem>>}

Part(field, value) == [field |-> field, value |-> value]

\* Whole dates, a day and a time alone, "0" (to curl_getdate, the year 2000)
\* and a word that is no part of a date.
Day(n) == <<Part("day", n), Part("month", 0), Part("year", 0)>>
Time(n) == <<Part("time", n)>>
Zero == <<Part("year", 0)>>
Whole(n) ==
    <<Part("weekday", 0)>> \o Day(n) \o Time(0) \o <<Part("zone", 0)>>

MCDateLines ==
    {Whole(1), Whole(3), Day(1), Time(2), Zero, <<Part("unknown", 0)>>}

MCPolicies == {[default |-> 3, maximum |-> 4], [default |-> 0, maximum |-> 7]}
=============================================================================
