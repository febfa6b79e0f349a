---------------------------- MODULE SingleFlight ----------------------------
(***************************************************************************)
(* What the cache promises its callers, without entries, serials or use    *)
(* times: each key has at most one document and at most one refresh in     *)
(* flight, a flight lands once, and only its landing puts a document of    *)
(* its key in place of another.  CacheClients implements it.               *)
(***************************************************************************)
EXTENDS Integers, FiniteSets

CONSTANTS Payloads,
          Capacity,   \* how many keys have a document or a flight
          Ttls,       \* lifetimes of documents
          Grace       \* for how long they may be used after it

VARIABLES held,     \* the documents, each with its key
          flights,  \* the refreshes in flight, each with its key
          clock

vars == <<held, flights, clock>>

Flying(k) == \E f \in flights : f.key = k

KeysOf(S) == {x.key : x \in S}

Init == held = {} /\ flights = {} /\ clock = 0

\* A flight starts, and may push out one expired document of another key.
TakeOff(f) ==
    /\ ~Flying(f.key)
    /\ flights' = flights \cup {f}
    /\ \/ held' = held
       \/ \E d \in held : /\ d.key # f.key /\ ~Flying(d.key) /\ d.stale_until <= clock
                          /\ held' = held \ {d}
    /\ Cardinality(KeysOf(held') \cup KeysOf(flights')) <= Capacity
    /\ UNCHANGED clock

\* A document that a flight can bring: its lifetime starts no later than now.
Brings(f, d) ==
    /\ d.key = f.key /\ d.payload \in Payloads
    /\ \E ttl \in Ttls : d.fresh_until <= clock + ttl
    /\ d.fresh_until <= d.stale_until /\ d.stale_until <= d.fresh_until + Grace

\* A flight lands: it failed, its document must not be kept, or it is kept.
Land(f) ==
    LET others == {d \in held : d.key # f.key}
    IN  /\ flights' = flights \ {f}
        /\ \/ held' = held
           \/ held' = others
           \/ \E d \in held' : Brings(f, d) /\ held' = others \cup {d}
        /\ UNCHANGED clock

Restart == held' = {} /\ flights' = {} /\ UNCHANGED clock

Tick == clock' = clock + 1 /\ UNCHANGED <<held, flights>>

Next ==
    \/ \E f \in flights' \ flights : TakeOff(f)
    \/ \E f \in flights \ flights' : Land(f)
    \/ Restart
    \/ Tick

Spec == Init /\ [][Next]_vars
=============================================================================
