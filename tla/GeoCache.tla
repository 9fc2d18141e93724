------------------------------ MODULE GeoCache ------------------------------
(***************************************************************************)
(* lib/geo.py: place names for the coordinates of a photo.  Worker threads *)
(* look a place up in the cache table; one that misses asks two public     *)
(* services, one request at a time and MinInterval apart for the whole     *)
(* process, and stores what it got, an outage like an unknown place.       *)
(* Time is the time since the last request ended, up to MinInterval.       *)
(***************************************************************************)
EXTENDS Integers, Sequences, FiniteSets

CONSTANTS
    Workers, Places,
    Nobody,
    MinInterval,    \* _MIN_INTERVAL
    MaxLocates,     \* bound on calls of locate
    MaxLost         \* bound on failures of the cache table

VARIABLES
    known,          \* table geo_cache: place to the services that had a name for it
    locating,       \* the workers' calls of locate
    net,            \* holder of _net_lock
    since,          \* monotonic() - _last_request
    begun, lost,
    lookups         \* history: lookups that went past the cache, per place

geoVars == <<known, locating, net, since, begun, lost, lookups>>

Services == <<"nominatim", "overpass">>
Idle == [pc |-> "idle"]

Init ==
    /\ known = << >> /\ locating = [w \in Workers |-> Idle]
    /\ net = Nobody /\ since = MinInterval
    /\ begun = 0 /\ lost = 0 /\ lookups = [p \in Places |-> 0]

\* A call past the cache: asks its nth service, sleeps, requests or stores.
Lookup(pc, c, wait) == [pc |-> pc, place |-> c.place, nth |-> c.nth, got |-> c.got, wait |-> wait]

Goes(w, call) == locating' = [locating EXCEPT ![w] = call]
TableFails == lost < MaxLost /\ lost' = lost + 1

Tick ==
    /\ since < MinInterval \/ \E w \in Workers : locating[w].pc = "sleep" /\ locating[w].wait > 0
    /\ since' = IF since < MinInterval THEN since + 1 ELSE since
    /\ locating' = [w \in Workers |->
          IF locating[w].pc = "sleep" THEN Lookup("sleep", locating[w], locating[w].wait - 1) ELSE locating[w]]
    /\ UNCHANGED <<known, net, begun, lost, lookups>>

Locate(w, p) ==
    /\ locating[w] = Idle /\ begun < MaxLocates /\ begun' = begun + 1
    /\ Goes(w, [pc |-> "read", place |-> p])
    /\ UNCHANGED <<known, net, since, lost, lookups>>

\* An exception of the table ends the call: bare coordinates.
ReadCache(w) ==
    LET p == locating[w].place IN
    /\ locating[w].pc = "read"
    /\ \/ /\ p \in DOMAIN known /\ Goes(w, Idle) /\ UNCHANGED <<lost, lookups>>
       \/ /\ p \notin DOMAIN known
          /\ Goes(w, [pc |-> "ask", place |-> p, nth |-> 1, got |-> {}, wait |-> 0])
          /\ lookups' = [lookups EXCEPT ![p] = @ + 1] /\ UNCHANGED lost
       \/ Goes(w, Idle) /\ TableFails /\ UNCHANGED lookups
    /\ UNCHANGED <<known, net, since, begun>>

\* Mutant: the difference is taken the wrong way round.
BugThrottled(w) ==
    /\ locating[w].pc = "ask" /\ net = Nobody
    /\ net' = w
    /\ Goes(w, Lookup("sleep", locating[w], since - MinInterval))
    /\ UNCHANGED <<known, since, begun, lost, lookups>>

\* _throttled: the wait is computed, slept and followed by the request under the lock.
Throttled(w) ==
    /\ locating[w].pc = "ask" /\ net = Nobody
    /\ net' = w
    /\ Goes(w, Lookup("sleep", locating[w], MinInterval - since))
    /\ UNCHANGED <<known, since, begun, lost, lookups>>

\* Mutant: the lock is given up before the request.
BugRequest(w) ==
    /\ locating[w].pc = "sleep" /\ locating[w].wait <= 0
    /\ Goes(w, Lookup("request", locating[w], 0)) /\ net' = Nobody
    /\ UNCHANGED <<known, since, begun, lost, lookups>>

Request(w) ==
    /\ locating[w].pc = "sleep" /\ locating[w].wait <= 0
    /\ Goes(w, Lookup("request", locating[w], 0))
    /\ UNCHANGED <<known, net, since, begun, lost, lookups>>

\* found is false for an outage, a timeout, and a place without a name.
Answer(w, found) ==
    LET c == locating[w] IN
    /\ c.pc = "request"
    /\ net' = Nobody /\ since' = 0
    /\ Goes(w, [pc |-> IF c.nth < Len(Services) THEN "ask" ELSE "store", place |-> c.place,
                nth |-> c.nth + 1, wait |-> 0,
                got |-> IF found THEN c.got \cup {Services[c.nth]} ELSE c.got])
    /\ UNCHANGED <<known, begun, lost, lookups>>

\* INSERT OR REPLACE: over what another worker stored meanwhile.
Put(p, got) == [q \in DOMAIN known \cup {p} |-> IF q = p THEN got ELSE known[q]]

\* Mutant: what nobody has a name for is not stored.
BugStore(w) ==
    /\ locating[w].pc = "store" /\ Goes(w, Idle)
    /\ \/ /\ known' = IF locating[w].got = {} THEN known ELSE Put(locating[w].place, locating[w].got)
          /\ UNCHANGED lost
       \/ UNCHANGED known /\ TableFails
    /\ UNCHANGED <<net, since, begun, lookups>>

Store(w) ==
    /\ locating[w].pc = "store" /\ Goes(w, Idle)
    /\ \/ known' = Put(locating[w].place, locating[w].got) /\ UNCHANGED lost
       \/ UNCHANGED known /\ TableFails
    /\ UNCHANGED <<net, since, begun, lookups>>

---------------------------------------------------------------------------

LocateStep(w) ==
    \/ ReadCache(w) \/ Throttled(w) \/ Request(w)
    \/ (\E found \in BOOLEAN : Answer(w, found))
    \/ Store(w)

Next == Tick \/ \E w \in Workers : LocateStep(w) \/ \E p \in Places : Locate(w, p)

Spec == Init /\ [][Next]_geoVars

---------------------------------------------------------------------------

TypeOK ==
    /\ DOMAIN known \subseteq Places /\ net \in Workers \cup {Nobody} /\ since \in 0..MinInterval
    /\ \A w \in Workers :
          /\ locating[w].pc \in {"idle", "read", "ask", "sleep", "request", "store"}
          /\ locating[w].pc = "sleep" => locating[w].wait \in 0..MinInterval

\* Requests to the public services go out one at a time, each at least
\* MinInterval after the end of the one before, whichever workers ask.
RequestsSpaced ==
    \A w \in Workers : locating[w].pc = "request" =>
        /\ since >= MinInterval
        /\ \A v \in Workers \ {w} : locating[v].pc # "request"

\* A place costs each worker at most one lookup however they race, but for
\* answers the table would not take: also one that no service has a name for.
LookedUpOnce == \A p \in Places : lookups[p] <= Cardinality(Workers) + lost
=============================================================================
