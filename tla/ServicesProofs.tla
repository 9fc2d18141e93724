-------------------------- MODULE ServicesProofs --------------------------
(***************************************************************************)
(* What the services around the queue promise, for every value of the      *)
(* constants.  A lane changes nothing of another one, so that each         *)
(* invariant is proved from the steps of its own module.                   *)
(***************************************************************************)
EXTENDS AliasProofs, DetectionProofs, SequenceTheorems

-----------------------------------------------------------------------------
(* The geocoder: spacing of requests and number of lookups.                *)

Both == {"nominatim", "overpass"}
Asking == {"ask", "sleep", "request"}
Past == Asking \cup {"store"}

GeoCalls == {G!Idle} \cup [pc : {"read"}, place : Places]
         \cup [pc : Asking, place : Places, nth : 1 .. 2, got : SUBSET Both, wait : Int]
         \cup [pc : {"store"}, place : Places, nth : {3}, got : SUBSET Both, wait : Int]

\* The workers that look a place up, past the cache.
Looking(p) == {w \in Workers : locating[w].pc \in Past /\ locating[w].place = p}

\* The lock is held from the wait on; what is left of it makes up the interval.
SpaceInv ==
    /\ since \in 0 .. MinInterval
    /\ \A w \in Workers :
          /\ locating[w].pc \in {"sleep", "request"} <=> net = w
          /\ locating[w].pc = "sleep" => locating[w].wait = MinInterval - since
          /\ locating[w].pc = "request" => since = MinInterval

\* As long as a place is unknown, each of its lookups is under way or was lost.
CountInv ==
    \A p \in Places :
        /\ lookups[p] <= Cardinality(Workers) + lost
        /\ p \notin DOMAIN known => lookups[p] <= Cardinality(Looking(p)) + lost

GeoShape ==
    /\ locating \in [Workers -> GeoCalls]
    /\ lookups \in [Places -> Nat] /\ lost \in Nat
    /\ DOMAIN known \subseteq Places /\ net \in Workers \cup {Nobody}

GeoInv == GeoShape /\ SpaceInv /\ CountInv

-----------------------------------------------------------------------------
LEMMA GeoStart == G!Init => GeoInv
<1> SUFFICES ASSUME G!Init PROVE GeoInv
  OBVIOUS
<1>1. GeoShape
  BY DEF G!Init, GeoShape, GeoCalls
<1>2. SpaceInv
  BY GeoConstants DEF G!Init, SpaceInv, G!Idle
<1>3. CountInv
  <2>1. Cardinality(Workers) \in Nat
    BY FS_CardinalityType, GeoConstants
  <2>2. \A p \in Places : IsFiniteSet(Looking(p))
    BY FS_Subset, GeoConstants DEF Looking
  <2>3. \A p \in Places : Cardinality(Looking(p)) \in Nat
    BY <2>2, FS_CardinalityType
  <2> QED
    BY <2>1, <2>3 DEF G!Init, CountInv
<1> QED
  BY <1>1, <1>2, <1>3 DEF GeoInv

LEMMA CallShape ==
    ASSUME GeoShape, NEW w \in Workers
    PROVE  /\ locating[w].pc \in {"idle", "read"} \cup Past
           /\ locating[w].pc = "idle" => locating[w] = G!Idle
           /\ locating[w].pc # "idle" => locating[w].place \in Places
           /\ locating[w].pc \in Asking =>
                 /\ locating[w].nth \in 1 .. 2 /\ locating[w].got \subseteq Both
                 /\ locating[w].wait \in Int
BY DEF GeoShape, GeoCalls, G!Idle, Past, Asking

LEMMA LookupShape ==
    ASSUME GeoShape, NEW w \in Workers, locating[w].pc \in Asking, NEW pc \in Asking, NEW wait \in Int
    PROVE  /\ G!Lookup(pc, locating[w], wait) \in GeoCalls
           /\ G!Lookup(pc, locating[w], wait).pc = pc
           /\ G!Lookup(pc, locating[w], wait).place = locating[w].place
           /\ G!Lookup(pc, locating[w], wait).wait = wait
<1>1. locating[w].pc # "idle"
  BY DEF Past, Asking
<1>2. /\ locating[w].place \in Places /\ locating[w].nth \in 1 .. 2
      /\ locating[w].got \in SUBSET Both
  BY <1>1, CallShape
<1>3. G!Lookup(pc, locating[w], wait) \in
         [pc : Asking, place : Places, nth : 1 .. 2, got : SUBSET Both, wait : Int]
  BY <1>2 DEF G!Lookup
<1> QED
  BY <1>3 DEF G!Lookup, GeoCalls

LEMMA Counted ==
           /\ Cardinality(Workers) \in Nat
           /\ \A p \in Places : /\ IsFiniteSet(Looking(p)) /\ Cardinality(Looking(p)) \in Nat
                                /\ Cardinality(Looking(p)) <= Cardinality(Workers)
<1>1. \A p \in Places : Looking(p) \subseteq Workers
  BY DEF Looking
<1> QED
  BY <1>1, FS_Subset, FS_CardinalityType, GeoConstants

LEMMA CountedNext ==
    ASSUME NEW p \in Places
    PROVE  /\ IsFiniteSet(Looking(p)') /\ Cardinality(Looking(p)') \in Nat
           /\ Cardinality(Looking(p)') <= Cardinality(Workers)
<1>1. Looking(p)' \subseteq Workers
  BY DEF Looking
<1> QED
  BY <1>1, FS_Subset, FS_CardinalityType, GeoConstants

\* A step in which nobody enters or leaves a lookup past the cache.
LEMMA CountSame ==
    ASSUME GeoInv, lookups' = lookups, lost' \in {lost, lost + 1},
           DOMAIN known' = DOMAIN known,
           \A w \in Workers : /\ locating'[w].pc \in Past <=> locating[w].pc \in Past
                              /\ locating[w].pc \in Past => locating'[w].place = locating[w].place
    PROVE  CountInv'
<1>1. \A p \in Places : Looking(p)' = Looking(p)
  BY DEF Looking
<1>2. lost \in Nat /\ lookups \in [Places -> Nat]
  BY DEF GeoInv, GeoShape
<1>3. Cardinality(Workers) \in Nat
  BY Counted
<1>4. ASSUME NEW p \in Places
      PROVE  /\ lookups[p] <= Cardinality(Workers) + lost'
             /\ p \notin DOMAIN known => lookups[p] <= Cardinality(Looking(p)') + lost'
  <2>1. Cardinality(Looking(p)) \in Nat
    BY Counted
  <2> QED
    BY <1>1, <1>2, <1>3, <2>1 DEF GeoInv, CountInv
<1> QED
  BY <1>4 DEF CountInv

LEMMA TickKeeps == ASSUME GeoInv, G!Tick PROVE GeoInv'
<1>1. ASSUME NEW w \in Workers
      PROVE  /\ locating'[w] \in GeoCalls
             /\ locating'[w].pc = locating[w].pc
             /\ locating[w].pc \in Past => locating'[w].place = locating[w].place
             /\ locating[w].pc = "sleep" => locating'[w].wait = locating[w].wait - 1
  <2>1. CASE locating[w].pc = "sleep"
    <3>1. locating'[w] = G!Lookup("sleep", locating[w], locating[w].wait - 1)
      BY <2>1 DEF G!Tick
    <3>2. "sleep" \in Asking /\ locating[w].wait - 1 \in Int
      BY <2>1, CallShape DEF GeoInv, Past, Asking
    <3> QED
      BY <2>1, <3>1, <3>2, LookupShape DEF GeoInv, Asking
  <2>2. CASE locating[w].pc # "sleep"
    BY <2>2 DEF G!Tick, GeoInv, GeoShape
  <2> QED
    BY <2>1, <2>2
<1>2. UNCHANGED <<known, net, lost, lookups>> /\ lost \in Nat /\ lookups \in [Places -> Nat]
  BY DEF G!Tick, GeoInv, GeoShape
<1>3. GeoShape'
  <2>1. locating' \in [Workers -> GeoCalls]
    <3>1. locating' = [w \in Workers |-> locating'[w]]
      BY DEF G!Tick
    <3> QED
      BY <1>1, <3>1
  <2> QED
    BY <1>2, <2>1 DEF GeoShape, GeoInv
<1>4. SpaceInv'
  <2>1. since \in 0 .. MinInterval /\ MinInterval \in Nat
    BY GeoConstants DEF GeoInv, SpaceInv
  <2>2. since' = IF since < MinInterval THEN since + 1 ELSE since
    BY DEF G!Tick
  <2>3. since < MinInterval \/ \E w \in Workers : locating[w].pc = "sleep" /\ locating[w].wait > 0
    BY DEF G!Tick
  <2>4. \A w \in Workers : locating[w].pc = "sleep" => locating[w].wait = MinInterval - since
    BY DEF GeoInv, SpaceInv
  <2>5. since' = since + 1 /\ since < MinInterval
    BY <2>1, <2>2, <2>3, <2>4
  <2>6. \A w \in Workers : locating[w].pc # "request"
    BY <2>1, <2>5 DEF GeoInv, SpaceInv
  <2> QED
    BY <1>1, <1>2, <2>1, <2>4, <2>5, <2>6 DEF SpaceInv, GeoInv
<1>5. CountInv'
  BY <1>1, <1>2, CountSame
<1> QED
  BY <1>3, <1>4, <1>5 DEF GeoInv

\* A step of one worker w.
LEMMA OneMoves ==
    ASSUME GeoShape, NEW w \in Workers, NEW call \in GeoCalls, G!Goes(w, call)
    PROVE  /\ locating' \in [Workers -> GeoCalls] /\ locating'[w] = call
           /\ \A v \in Workers \ {w} : locating'[v] = locating[v]
BY DEF GeoShape, G!Goes

\* What the lock guards is left alone by a step outside it.
LEMMA SpaceKept ==
    ASSUME GeoInv, NEW w \in Workers, UNCHANGED <<net, since>>,
           \A v \in Workers \ {w} : locating'[v] = locating[v],
           locating[w].pc \notin {"sleep", "request"}, locating'[w].pc \notin {"sleep", "request"}
    PROVE  SpaceInv'
BY DEF GeoInv, SpaceInv

LEMMA LocateKeeps ==
    ASSUME GeoInv, NEW w \in Workers, NEW p \in Places, G!Locate(w, p)
    PROVE  GeoInv'
<1> DEFINE call == [pc |-> "read", place |-> p]
<1>1. /\ locating[w].pc = "idle" /\ G!Goes(w, call)
      /\ UNCHANGED <<known, net, since, lost, lookups>>
  BY DEF G!Locate, G!Idle
<1>2. call \in GeoCalls /\ call.pc = "read"
  BY DEF GeoCalls
<1>3. /\ locating' \in [Workers -> GeoCalls] /\ locating'[w].pc = "read"
      /\ \A v \in Workers \ {w} : locating'[v] = locating[v]
  BY <1>1, <1>2, OneMoves DEF GeoInv
<1>4. GeoShape'
  BY <1>1, <1>3 DEF GeoShape, GeoInv
<1>5. SpaceInv'
  BY <1>1, <1>3, SpaceKept
<1>6. CountInv'
  BY <1>1, <1>3, CountSame DEF Past, Asking, GeoInv, GeoShape
<1> QED
  BY <1>4, <1>5, <1>6 DEF GeoInv

LEMMA ReadKeeps ==
    ASSUME GeoInv, NEW w \in Workers, G!ReadCache(w)
    PROVE  GeoInv'
<1>0. PICK p \in Places : p = locating[w].place
  BY CallShape DEF G!ReadCache, GeoInv
<1> DEFINE call == [pc |-> "ask", place |-> p, nth |-> 1, got |-> {}, wait |-> 0]
<1>1. /\ locating[w].pc = "read" /\ p = locating[w].place
      /\ UNCHANGED <<known, net, since, begun>>
      /\ lost \in Nat /\ lookups \in [Places -> Nat]
  BY <1>0 DEF G!ReadCache, GeoInv, GeoShape
<1>2. CASE /\ G!Goes(w, G!Idle) /\ UNCHANGED lookups /\ lost' \in {lost, lost + 1}
  <2>1. G!Idle \in GeoCalls /\ G!Idle.pc = "idle"
    BY DEF GeoCalls, G!Idle
  <2>2. /\ locating' \in [Workers -> GeoCalls] /\ locating'[w].pc = "idle"
        /\ \A v \in Workers \ {w} : locating'[v] = locating[v]
    BY <1>2, <2>1, OneMoves DEF GeoInv
  <2>3. GeoShape'
    BY <1>1, <1>2, <2>2 DEF GeoShape, GeoInv
  <2>4. SpaceInv'
    BY <1>1, <2>2, SpaceKept
  <2>5. CountInv'
    BY <1>1, <1>2, <2>2, CountSame DEF Past, Asking
  <2> QED
    BY <2>3, <2>4, <2>5 DEF GeoInv
<1>3. CASE /\ p \notin DOMAIN known /\ G!Goes(w, call)
           /\ lookups' = [lookups EXCEPT ![p] = @ + 1] /\ UNCHANGED lost
  <2>1. call \in GeoCalls /\ call.pc = "ask" /\ call.place = p
    BY <1>1 DEF GeoCalls, Past, Asking
  <2>2. /\ locating' \in [Workers -> GeoCalls] /\ locating'[w].pc = "ask" /\ locating'[w].place = p
        /\ \A v \in Workers \ {w} : locating'[v] = locating[v]
    BY <1>3, <2>1, OneMoves DEF GeoInv
  <2>3. GeoShape'
    BY <1>1, <1>3, <2>2 DEF GeoShape, GeoInv
  <2>4. SpaceInv'
    BY <1>1, <2>2, SpaceKept
  <2>5. Looking(p)' = Looking(p) \cup {w} /\ w \notin Looking(p)
    BY <1>1, <2>2 DEF Looking, Past, Asking
  <2>6. \A q \in Places \ {p} : Looking(q)' = Looking(q)
    BY <1>1, <2>2 DEF Looking, Past, Asking
  <2>7. Cardinality(Looking(p)') = Cardinality(Looking(p)) + 1
    BY <1>1, <2>5, Counted, FS_AddElement
  <2>8. Cardinality(Looking(p)) + 1 <= Cardinality(Workers)
    BY <1>1, <2>7, CountedNext
  <2>9. lookups[p] <= Cardinality(Looking(p)) + lost
    BY <1>1, <1>3 DEF GeoInv, CountInv
  <2>10. lookups'[p] = lookups[p] + 1 /\ \A q \in Places \ {p} : lookups'[q] = lookups[q]
    BY <1>1, <1>3
  <2>11. CountInv'
    <3>1. ASSUME NEW q \in Places
          PROVE  /\ lookups'[q] <= Cardinality(Workers) + lost'
                 /\ q \notin DOMAIN known' => lookups'[q] <= Cardinality(Looking(q)') + lost'
      <4>1. CASE q = p
        BY <1>1, <1>3, <2>7, <2>8, <2>9, <2>10, <4>1, Counted
      <4>2. CASE q # p
        BY <1>1, <1>3, <2>6, <2>10, <4>2 DEF GeoInv, CountInv
      <4> QED
        BY <4>1, <4>2
    <3> QED
      BY <3>1 DEF CountInv
  <2> QED
    BY <2>3, <2>4, <2>11 DEF GeoInv
<1> QED
  BY <1>0, <1>2, <1>3 DEF G!ReadCache, G!TableFails

LEMMA RequestKeeps ==
    ASSUME GeoInv, NEW w \in Workers,
           G!Throttled(w) \/ G!Request(w) \/ \E found \in BOOLEAN : G!Answer(w, found)
    PROVE  GeoInv'
<1> DEFINE c == locating[w]
<1>1. /\ GeoShape /\ SpaceInv /\ since \in 0 .. MinInterval /\ MinInterval \in Nat
      /\ Nobody \notin Workers
      /\ UNCHANGED <<known, lost, lookups>>
  BY GeoConstants DEF GeoInv, SpaceInv, G!Throttled, G!Request, G!Answer
<1>2. ASSUME NEW call \in GeoCalls, G!Goes(w, call), c.pc \in Past, call.pc \in Past, call.place = c.place,
             net' \in {net, w, Nobody}
      PROVE  GeoShape' /\ CountInv'
  <2>1. /\ locating' \in [Workers -> GeoCalls] /\ locating'[w] = call
        /\ \A v \in Workers \ {w} : locating'[v] = locating[v]
    BY <1>1, <1>2, OneMoves
  <2>2. GeoShape'
    BY <1>1, <1>2, <2>1 DEF GeoShape
  <2>3. CountInv'
    BY <1>1, <1>2, <2>1, CountSame
  <2> QED
    BY <2>2, <2>3
<1>3. CASE G!Throttled(w)
  <2> DEFINE call == G!Lookup("sleep", c, MinInterval - since)
  <2>1. c.pc = "ask" /\ net = Nobody /\ net' = w /\ G!Goes(w, call) /\ since' = since
    BY <1>3 DEF G!Throttled
  <2>2. {c.pc, "sleep"} \subseteq Asking /\ Asking \subseteq Past
    BY <2>1 DEF Past, Asking
  <2>3. call \in GeoCalls /\ call.pc = "sleep" /\ call.place = c.place /\ call.wait = MinInterval - since
    <3>1. MinInterval - since \in Int /\ c.pc \in Asking /\ "sleep" \in Asking
      BY <1>1, <2>2
    <3> QED
      BY <1>1, <2>2, <3>1, LookupShape
  <2>4. locating'[w] = call /\ \A v \in Workers \ {w} : locating'[v] = locating[v]
    BY <1>1, <2>1, <2>3, OneMoves
  <2>5. SpaceInv'
    BY <1>1, <2>1, <2>3, <2>4 DEF SpaceInv
  <2> QED
    BY <1>2, <2>1, <2>2, <2>3, <2>5 DEF GeoInv
<1>4. CASE G!Request(w)
  <2> DEFINE call == G!Lookup("request", c, 0)
  <2>1. c.pc = "sleep" /\ c.wait <= 0 /\ G!Goes(w, call) /\ UNCHANGED <<net, since>>
    BY <1>4 DEF G!Request
  <2>2. {c.pc, "request"} \subseteq Asking /\ Asking \subseteq Past
    BY <2>1 DEF Past, Asking
  <2>3. call \in GeoCalls /\ call.pc = "request" /\ call.place = c.place
    BY <1>1, <2>2, LookupShape
  <2>4. locating'[w] = call /\ \A v \in Workers \ {w} : locating'[v] = locating[v]
    BY <1>1, <2>1, <2>3, OneMoves
  <2>5. SpaceInv'
    BY <1>1, <2>1, <2>3, <2>4 DEF SpaceInv
  <2> QED
    BY <1>2, <2>1, <2>2, <2>3, <2>5 DEF GeoInv
<1>5. ASSUME NEW found \in BOOLEAN, G!Answer(w, found) PROVE GeoInv'
  <2> DEFINE call == [pc |-> IF c.nth < Len(G!Services) THEN "ask" ELSE "store", place |-> c.place,
                      nth |-> c.nth + 1, wait |-> 0,
                      got |-> IF found THEN c.got \cup {G!Services[c.nth]} ELSE c.got]
  <2>1. c.pc = "request" /\ net' = Nobody /\ since' = 0 /\ G!Goes(w, call)
    BY <1>5 DEF G!Answer
  <2>2. c.pc \in Past /\ c.place \in Places /\ c.nth \in 1 .. 2 /\ c.got \subseteq Both
    BY <1>1, <2>1, CallShape DEF Past, Asking
  <2>3. call \in GeoCalls /\ call.pc \in {"ask", "store"} /\ call.place = c.place
    <3>1. G!Services[1] \in Both /\ G!Services[2] \in Both /\ Len(G!Services) = 2
      BY DEF G!Services, Both
    <3>2. CASE c.nth = 1
      BY <2>2, <3>1, <3>2 DEF GeoCalls, Asking
    <3>3. CASE c.nth = 2
      BY <2>2, <3>1, <3>3 DEF GeoCalls
    <3> QED
      BY <2>2, <3>2, <3>3
  <2>4. locating'[w] = call /\ \A v \in Workers \ {w} : locating'[v] = locating[v]
    BY <1>1, <2>1, <2>3, OneMoves
  <2>5. SpaceInv'
    BY <1>1, <2>1, <2>3, <2>4 DEF SpaceInv
  <2>6. call.pc \in Past
    BY <2>3 DEF Past, Asking
  <2> QED
    BY <1>2, <2>1, <2>2, <2>3, <2>5, <2>6 DEF GeoInv
<1> QED
  BY <1>3, <1>4, <1>5

LEMMA StoreKeeps ==
    ASSUME GeoInv, NEW w \in Workers, G!Store(w)
    PROVE  GeoInv'
<1>0. PICK p \in Places : p = locating[w].place
  BY CallShape DEF G!Store, GeoInv
<1>1. /\ locating[w].pc = "store" /\ G!Goes(w, G!Idle) /\ p = locating[w].place
      /\ UNCHANGED <<net, since, lookups>>
      /\ lost \in Nat /\ lookups \in [Places -> Nat]
  BY <1>0 DEF G!Store, GeoInv, GeoShape
<1>2. \/ DOMAIN known' = DOMAIN known \cup {p} /\ lost' = lost
      \/ known' = known /\ lost' = lost + 1
  BY <1>1 DEF G!Store, G!Put, G!TableFails
<1>3. /\ locating' \in [Workers -> GeoCalls] /\ locating'[w].pc = "idle"
      /\ \A v \in Workers \ {w} : locating'[v] = locating[v]
  <2>1. G!Idle \in GeoCalls /\ G!Idle.pc = "idle"
    BY DEF GeoCalls, G!Idle
  <2> QED
    BY <1>1, <2>1, OneMoves DEF GeoInv
<1>4. GeoShape'
  BY <1>0, <1>1, <1>2, <1>3 DEF GeoShape, GeoInv
<1>5. SpaceInv'
  BY <1>1, <1>3, SpaceKept
<1>6. /\ Looking(p)' = Looking(p) \ {w} /\ w \in Looking(p)
      /\ \A q \in Places \ {p} : Looking(q)' = Looking(q)
  BY <1>1, <1>3 DEF Looking, Past, Asking
<1>7. Cardinality(Looking(p)') = Cardinality(Looking(p)) - 1
  <2>1. IsFiniteSet(Looking(p))
    BY <1>1, Counted
  <2>2. Cardinality(Looking(p) \ {w}) = Cardinality(Looking(p)) - 1
    BY <1>6, <2>1, FS_RemoveElement
  <2> QED
    BY <1>6, <2>2
<1>8. CountInv'
  <2>1. ASSUME NEW q \in Places
        PROVE  /\ lookups[q] <= Cardinality(Workers) + lost'
               /\ q \notin DOMAIN known' => lookups[q] <= Cardinality(Looking(q)') + lost'
    <3>1. /\ lookups[q] <= Cardinality(Workers) + lost
          /\ q \notin DOMAIN known => lookups[q] <= Cardinality(Looking(q)) + lost
      BY DEF GeoInv, CountInv
    <3>2. Cardinality(Workers) \in Nat /\ Cardinality(Looking(q)) \in Nat /\ lookups[q] \in Nat
      BY <1>1, Counted
    <3>3. CASE q = p
      BY <1>1, <1>2, <1>7, <3>1, <3>2, <3>3
    <3>4. CASE q # p
      BY <1>1, <1>2, <1>6, <3>1, <3>2, <3>4
    <3> QED
      BY <3>3, <3>4
  <2> QED
    BY <1>1, <2>1 DEF CountInv
<1> QED
  BY <1>4, <1>5, <1>8 DEF GeoInv

LEMMA GeoStep == ASSUME GeoInv, [G!Next]_geoVars PROVE GeoInv'
<1>1. CASE UNCHANGED geoVars
  BY <1>1 DEF geoVars, GeoInv, GeoShape, SpaceInv, CountInv, Looking
<1> QED
  BY <1>1, TickKeeps, LocateKeeps, ReadKeeps, RequestKeeps, StoreKeeps DEF G!Next, G!LocateStep

LEMMA GeoInvariance == ServicesSpec => []GeoInv
<1>1. ServicesInit => GeoInv
  BY GeoStart DEF ServicesInit
<1>2. GeoInv /\ [ServicesNext]_vars => GeoInv'
  BY EachLane, GeoStep
<1> QED
  BY <1>1, <1>2, PTL DEF ServicesSpec

\* _throttled: whichever workers ask the public services, requests go out one at
\* a time and MinInterval after the end of the one before.
THEOREM RequestsAreSpaced == ServicesSpec => []RequestsSpaced
<1>1. GeoInv => RequestsSpaced
  BY GeoConstants DEF GeoInv, SpaceInv, RequestsSpaced, G!RequestsSpaced
<1> QED
  BY <1>1, GeoInvariance, PTL

\* locate: a place, known to a service or not, costs each worker at most one
\* lookup, and one for each answer the cache table would not take.
THEOREM PlacesAreLookedUpOnce == ServicesSpec => []LookedUpOnce
<1>1. G!Cardinality(Workers) = Cardinality(Workers)
  BY DEF G!Cardinality, Cardinality
<1>2. GeoInv => LookedUpOnce
  BY <1>1 DEF GeoInv, CountInv, LookedUpOnce, G!LookedUpOnce
<1> QED
  BY <1>2, GeoInvariance, PTL

-----------------------------------------------------------------------------
(* The alias cache: how old a map a caption may get.                       *)

Reading == [pc : {"load", "stamp", "return"}, at : Nat]
           \cup [pc : {"keep"}, at : Nat, map : Nat]

CacheShape ==
    /\ clock \in Nat /\ table \in Nat /\ cacheMap \in 0 .. table
    /\ replacedAt \in [0 .. table - 1 -> Nat]
    /\ cacheAt \in Int /\ cacheAt <= clock
    /\ failedLoads \in Nat
    /\ reader \in [Readers -> {C!NotReading} \cup Reading]

\* Until when a version was the table's.
Until(v) == IF v < table THEN replacedAt[v] ELSE clock

\* The map in the cache was the table's later than, or one load before, the
\* time on it; so it was for who has just put one in or found it fresh.
CacheInv ==
    failedLoads = 0 =>
        /\ Until(cacheMap) >= cacheAt - MaxLoad
        /\ \A r \in Readers :
              /\ reader[r].pc = "stamp" => Until(cacheMap) >= reader[r].at - MaxLoad
              /\ reader[r].pc = "return" => Until(cacheMap) >= reader[r].at - TTL - MaxLoad

\* A call takes no longer than MaxLoad, and what it loaded is newer than itself.
CallInv ==
    \A r \in Readers : reader[r].pc # "none" =>
        /\ reader[r].at <= clock /\ clock - reader[r].at <= MaxLoad
        /\ reader[r].pc = "keep" => reader[r].map <= table /\ Until(reader[r].map) >= reader[r].at

AgeInv == CacheShape /\ CallInv /\ CacheInv

-----------------------------------------------------------------------------
LEMMA AgeStart == C!Init => AgeInv
BY CacheConstants DEF C!Init, AgeInv, CacheShape, CallInv, CacheInv, Until, C!LongAgo, C!NotReading

LEMMA ReaderShape ==
    ASSUME CacheShape, NEW r \in Readers
    PROVE  \/ reader[r] = C!NotReading /\ reader[r].pc = "none"
           \/ reader[r] \in Reading /\ reader[r].at \in Nat
              /\ reader[r].pc \in {"load", "stamp", "return", "keep"}
              /\ (reader[r].pc = "keep" => reader[r].map \in Nat)
BY DEF CacheShape, Reading, C!NotReading

LEMMA Replaced ==
    ASSUME CacheShape, C!Rebuild
    PROVE  /\ table' = table + 1
           /\ replacedAt' \in [0 .. table -> Nat] /\ replacedAt'[table] = clock
           /\ \A v \in 0 .. table - 1 : replacedAt'[v] = replacedAt[v]
BY DEF C!Rebuild, CacheShape

LEMMA CallsKept ==
    ASSUME AgeInv, NEW r \in Readers,
           C!CheckTTL(r) \/ C!LoadAliases(r) \/ C!KeepMap(r) \/ C!Stamp(r) \/ C!ReturnMap(r)
    PROVE  AgeInv'
<1> DEFINE at == reader[r].at
<1>1. /\ CacheShape /\ CallInv /\ CacheInv
      /\ clock \in Nat /\ table \in Nat /\ cacheAt \in Int /\ cacheAt <= clock
      /\ failedLoads \in Nat /\ TTL \in Nat /\ MaxLoad \in Nat
      /\ UNCHANGED <<clock, table, replacedAt>>
      /\ \A v \in 0 .. table : Until(v)' = Until(v) /\ Until(v) \in Nat
  BY CacheConstants DEF AgeInv, CacheShape, C!CheckTTL, C!LoadAliases, C!KeepMap, C!Stamp, C!ReturnMap, Until
<1>2. /\ reader' \in [Readers -> {C!NotReading} \cup Reading]
      /\ \A s \in Readers \ {r} : reader'[s] = reader[s]
      /\ failedLoads' \in Nat /\ failedLoads' >= failedLoads
  <2>1. CASE C!CheckTTL(r)
    BY <1>1, <2>1 DEF CacheShape, C!Goes, C!CheckTTL, Reading
  <2>2. CASE C!LoadAliases(r)
    BY <1>1, <2>2, ReaderShape DEF CacheShape, C!Goes, C!LoadAliases, Reading
  <2>3. CASE C!KeepMap(r)
    BY <1>1, <2>3, ReaderShape DEF CacheShape, C!Goes, C!KeepMap, Reading
  <2>4. CASE C!Stamp(r)
    BY <1>1, <2>4, ReaderShape DEF CacheShape, C!Goes, C!Stamp, Reading
  <2>5. CASE C!ReturnMap(r)
    BY <1>1, <2>5 DEF CacheShape, C!Goes, C!ReturnMap
  <2> QED
    BY <2>1, <2>2, <2>3, <2>4, <2>5
<1>3. CASE C!CheckTTL(r)
  <2>1. /\ reader'[r].pc \in {"load", "return"} /\ reader'[r].at = clock
        /\ reader'[r].pc = "return" => clock - cacheAt <= TTL
        /\ UNCHANGED <<cacheAt, cacheMap, failedLoads>>
    BY <1>1, <1>3 DEF C!CheckTTL, C!Goes, CacheShape
  <2>2. CacheShape'
    BY <1>1, <1>2, <2>1 DEF CacheShape
  <2>3. CallInv'
    BY <1>1, <1>2, <2>1, ReaderShape DEF CallInv, Until
  <2>4. CacheInv'
    <3>1. Until(cacheMap) \in Int /\ Until(cacheMap)' = Until(cacheMap)
      BY <1>1, <2>1 DEF Until, CacheShape
    <3>2. ASSUME failedLoads = 0, NEW s \in Readers
          PROVE  /\ reader'[s].pc = "stamp" => Until(cacheMap) >= reader'[s].at - MaxLoad
                 /\ reader'[s].pc = "return" => Until(cacheMap) >= reader'[s].at - TTL - MaxLoad
      BY <1>1, <1>2, <2>1, <3>1, <3>2 DEF CacheInv
    <3> QED
      BY <1>1, <2>1, <3>1, <3>2 DEF CacheInv
  <2> QED
    BY <2>2, <2>3, <2>4 DEF AgeInv
<1>4. CASE C!LoadAliases(r)
  <2>1. /\ reader[r].pc = "load" /\ reader'[r].at = at
        /\ \/ reader'[r].pc = "keep" /\ reader'[r].map = table /\ failedLoads' = failedLoads
           \/ reader'[r].pc = "stamp" /\ failedLoads' = failedLoads + 1
        /\ UNCHANGED <<cacheAt, cacheMap>>
    BY <1>1, <1>4 DEF C!LoadAliases, C!Goes, CacheShape
  <2>2. Until(table) = clock
    BY <1>1 DEF Until
  <2>3. CacheShape'
    BY <1>1, <1>2, <2>1, <2>2 DEF CacheShape
  <2>4. CallInv'
    BY <1>1, <1>2, <2>1, <2>2, ReaderShape DEF CallInv, Until
  <2>5. CacheInv'
    BY <1>1, <1>2, <2>1, <2>2, ReaderShape DEF CacheInv, Until
  <2> QED
    BY <2>3, <2>4, <2>5 DEF AgeInv
<1>5. CASE C!KeepMap(r)
  <2>1. /\ reader[r].pc = "keep" /\ reader'[r].at = at /\ reader'[r].pc = "stamp"
        /\ cacheMap' = reader[r].map
        /\ UNCHANGED <<cacheAt, failedLoads>>
    BY <1>1, <1>5 DEF C!KeepMap, C!Goes, CacheShape
  <2>2. cacheMap' \in 0 .. table /\ Until(cacheMap') >= at /\ at \in Nat /\ clock - at <= MaxLoad
    BY <1>1, <2>1, ReaderShape DEF CallInv
  <2>3. \A s \in Readers \ {r} : reader[s].pc # "none" => reader[s].at \in Nat /\ reader[s].at <= clock
    BY <1>1, ReaderShape DEF CallInv
  <2>4. Until(cacheMap') >= clock - MaxLoad /\ Until(cacheMap)' = Until(cacheMap') /\ Until(cacheMap') \in Nat
    BY <1>1, <2>2 DEF Until
  <2>5. CacheShape'
    BY <1>1, <1>2, <2>1, <2>2 DEF CacheShape
  <2>6. CallInv'
    BY <1>1, <1>2, <2>1, ReaderShape DEF CallInv, Until
  <2>7. CacheInv'
    BY <1>1, <1>2, <2>1, <2>2, <2>3, <2>4 DEF CacheInv, Until
  <2> QED
    BY <2>5, <2>6, <2>7 DEF AgeInv
<1>6. CASE C!Stamp(r)
  <2>1. /\ reader[r].pc = "stamp" /\ reader'[r].at = at /\ reader'[r].pc = "return"
        /\ cacheAt' = at
        /\ UNCHANGED <<cacheMap, failedLoads>>
    BY <1>1, <1>6 DEF C!Stamp, C!Goes, CacheShape
  <2>2. at \in Nat /\ at <= clock /\ cacheMap \in 0 .. table
    BY <1>1, <2>1, ReaderShape DEF CallInv, CacheShape
  <2>3. CacheShape'
    BY <1>1, <1>2, <2>1, <2>2 DEF CacheShape
  <2>4. CallInv'
    BY <1>1, <1>2, <2>1, <2>2, ReaderShape DEF CallInv, Until
  <2>5. CacheInv'
    BY <1>1, <1>2, <2>1, <2>2, ReaderShape DEF CacheInv, Until
  <2> QED
    BY <2>3, <2>4, <2>5 DEF AgeInv
<1>7. CASE C!ReturnMap(r)
  <2>1. reader'[r].pc = "none" /\ UNCHANGED <<cacheAt, cacheMap, failedLoads>>
    BY <1>1, <1>7 DEF C!ReturnMap, C!Goes, CacheShape, C!NotReading
  <2>2. CacheShape'
    BY <1>1, <1>2, <2>1 DEF CacheShape
  <2>3. CallInv'
    BY <1>1, <1>2, <2>1, ReaderShape DEF CallInv, Until
  <2>4. CacheInv'
    BY <1>1, <1>2, <2>1, ReaderShape DEF CacheInv, Until
  <2> QED
    BY <2>2, <2>3, <2>4 DEF AgeInv
<1> QED
  BY <1>3, <1>4, <1>5, <1>6, <1>7

LEMMA AgeStep == ASSUME AgeInv, [C!Next]_aliasCacheVars PROVE AgeInv'
<1>1. /\ CacheShape /\ CallInv /\ CacheInv /\ cacheMap \in 0 .. table
      /\ clock \in Nat /\ table \in Nat /\ cacheAt \in Int /\ cacheAt <= clock
      /\ failedLoads \in Nat /\ TTL \in Nat /\ MaxLoad \in Nat
  BY CacheConstants DEF AgeInv, CacheShape
<1>2. CASE UNCHANGED aliasCacheVars
  BY <1>1, <1>2 DEF aliasCacheVars, AgeInv, CacheShape, CallInv, CacheInv, Until
<1>3. CASE C!Tick
  <2>1. /\ UNCHANGED <<table, cacheMap, cacheAt, reader, failedLoads, replacedAt>>
        /\ clock' = clock + 1
        /\ \A r \in Readers : reader[r] # C!NotReading => clock - reader[r].at < MaxLoad
    BY <1>3 DEF C!Tick
  <2>2. \A r \in Readers : reader[r].pc # "none" =>
           reader[r].at \in Nat /\ clock - reader[r].at < MaxLoad
    BY <1>1, <2>1, ReaderShape DEF C!NotReading
  <2>3. CacheShape'
    BY <1>1, <2>1 DEF CacheShape
  <2>4. CallInv'
    <3>1. \A v \in 0 .. table : Until(v)' >= Until(v) /\ {Until(v), Until(v)'} \subseteq Nat
      BY <1>1, <2>1 DEF Until, CacheShape
    <3>2. ASSUME NEW r \in Readers, reader[r].pc = "keep"
          PROVE  /\ reader[r].map \in 0 .. table
                 /\ Until(reader[r].map) >= reader[r].at
      BY <1>1, <3>2, ReaderShape DEF CallInv
    <3>3. ASSUME NEW r \in Readers, NEW v \in 0 .. table, Until(v) >= reader[r].at,
                 reader[r].at \in Nat
          PROVE  Until(v)' >= reader[r].at
      BY <3>1, <3>3
    <3>4. ASSUME NEW r \in Readers, reader[r].pc = "keep"
          PROVE  Until(reader[r].map)' >= reader[r].at /\ Until(reader[r].map)' \in Nat
      <4>1. PICK v \in 0 .. table : v = reader[r].map
        BY <3>2, <3>4
      <4>2. Until(v)' >= reader[r].at /\ Until(v)' \in Nat
        BY <2>2, <3>1, <3>2, <3>3, <3>4, <4>1
      <4> QED
        BY <2>1, <4>1, <4>2 DEF Until
    <3>5. ASSUME NEW r \in Readers, reader[r].pc # "none"
          PROVE  reader[r].at <= clock + 1 /\ clock + 1 - reader[r].at <= MaxLoad
      BY <1>1, <2>2, <3>5 DEF CallInv
    <3>6. ASSUME NEW r \in Readers, reader'[r].pc # "none"
          PROVE  /\ reader'[r].at <= clock' /\ clock' - reader'[r].at <= MaxLoad
                 /\ reader'[r].pc = "keep" =>
                       reader'[r].map <= table' /\ Until(reader[r].map)' >= reader'[r].at
      <4>1. reader' = reader /\ clock' = clock + 1 /\ table' = table /\ table \in Nat
            /\ clock \in Nat /\ reader[r].at \in Nat
        BY <1>1, <2>1, <2>2, <3>6
      <4>2. reader[r].at <= clock + 1 /\ clock + 1 - reader[r].at <= MaxLoad
        BY <3>5, <3>6, <4>1
      <4>3. reader[r].pc = "keep" =>
               reader[r].map <= table /\ Until(reader[r].map)' >= reader[r].at /\ Until(reader[r].map)' \in Nat
        BY <3>2, <3>4, <4>1
      <4> QED
        BY <4>1, <4>2, <4>3
    <3> QED
      BY <3>6 DEF CallInv
  <2>5. CacheInv'
    <3>1. Until(cacheMap)' >= Until(cacheMap) /\ {Until(cacheMap), Until(cacheMap)'} \subseteq Nat
      BY <1>1, <2>1 DEF Until, CacheShape
    <3> QED
      BY <1>1, <2>1, <2>2, <3>1 DEF CacheInv
  <2> QED
    BY <2>3, <2>4, <2>5 DEF AgeInv
<1>4. CASE C!Rebuild
  <2>1. UNCHANGED <<clock, cacheAt, cacheMap, reader, failedLoads>>
    BY <1>4 DEF C!Rebuild
  <2>2. \A v \in 0 .. table : Until(v)' = Until(v) /\ Until(v) \in Nat
    BY <1>1, <1>4, <2>1, Replaced DEF Until, CacheShape
  <2>3. CacheShape'
    BY <1>1, <1>4, <2>1, Replaced DEF CacheShape
  <2>4. CallInv'
    BY <1>1, <1>4, <2>1, <2>2, Replaced, ReaderShape DEF CallInv
  <2>5. CacheInv'
    BY <1>1, <2>1, <2>2 DEF CacheInv
  <2> QED
    BY <2>3, <2>4, <2>5 DEF AgeInv
<1>5. CASE C!Invalidate
  <2>1. UNCHANGED <<clock, table, cacheMap, reader, failedLoads, replacedAt>> /\ cacheAt' = C!LongAgo
    BY <1>5 DEF C!Invalidate
  <2>2. Until(cacheMap) \in Nat
    BY <1>1 DEF Until, CacheShape
  <2> QED
    BY <1>1, <2>1, <2>2 DEF AgeInv, CacheShape, CallInv, CacheInv, Until, C!LongAgo
<1> QED
  BY <1>2, <1>3, <1>4, <1>5, CallsKept DEF C!Next

LEMMA AgeInvariance == ServicesSpec => []AgeInv
<1>1. ServicesInit => AgeInv
  BY AgeStart DEF ServicesInit
<1>2. AgeInv /\ [ServicesNext]_vars => AgeInv'
  BY EachLane, AgeStep
<1> QED
  BY <1>1, <1>2, PTL DEF ServicesSpec

\* A caption is never given an alias map that was replaced longer ago than the
\* time to live and one load, however readers, rebuilds and invalidations of
\* get_alias_map interleave.
THEOREM CaptionsUseRecentMaps == ServicesSpec => []MapsAreRecent
<1>1. AgeInv => MapsAreRecent
  BY DEF AgeInv, CacheInv, MapsAreRecent, C!MapsAreRecent, Until, CacheShape
<1> QED
  BY <1>1, AgeInvariance, PTL

-----------------------------------------------------------------------------
(* Backfill: what a crawl that nothing interferes with still has to queue. *)

Groups == (SUBSET Users) \ {{}}
AllPhotos == Users \X Photos

\* From its beginning on, a crawl is under way.
Underway == [pc : {"users", "nodes", "enqueue", "done", "close"}, who : Groups,
             left : SUBSET Users, at : SUBSET Users, todo : SUBSET AllPhotos,
             hand : SUBSET AllPhotos, got : SUBSET AllPhotos, alone : BOOLEAN]

Autoclusters ==
    {B!NoAuto} \cup [pc : {"begin", "wait", "cluster", "dead"}, users : Groups]

BackfillShape ==
    /\ running \in BOOLEAN /\ pending \subseteq AllPhotos
    /\ crawl \in [Crawls -> {B!NoCrawl} \cup [pc : {"task"}, who : Groups] \cup Underway]
    /\ auto \in Autoclusters

\* A crawl queues photos of its users only.
Ours(k) ==
    /\ k.left \cup k.at \subseteq k.who
    /\ k.todo \cup k.hand \cup k.got \subseteq k.who \X Photos

\* What is not queued is still in the list, in hand, or of a user to come.
Owing(k) ==
    /\ k.who \X Photos \subseteq k.got \cup k.todo \cup k.hand \cup ((k.left \ k.at) \X Photos)
    /\ k.pc # "enqueue" => k.hand = {}
    /\ k.pc # "nodes" /\ k.pc # "enqueue" => k.todo = {} /\ k.at = {}
    /\ k.pc = "done" => k.left = {}

AtWork(k) == k.pc \in {"users", "nodes", "enqueue"}

CrawlInv(k) ==
    k \in Underway =>
        /\ Ours(k)
        /\ k.alone /\ AtWork(k) => running
        /\ k.alone /\ (AtWork(k) \/ k.pc = "done") => Owing(k)

BackfillInv == BackfillShape /\ \A c \in Crawls : CrawlInv(crawl[c])

LEMMA CrawlKinds ==
    ASSUME BackfillShape, NEW c \in Crawls
    PROVE  /\ crawl[c].pc = "task" => crawl[c] \in [pc : {"task"}, who : Groups]
           /\ crawl[c].pc \notin {"none", "task"} <=> crawl[c] \in Underway
BY DEF BackfillShape, Underway, B!NoCrawl

LEMMA CrawlFields ==
    ASSUME NEW k \in Underway
    PROVE  /\ k.pc \in {"users", "nodes", "enqueue", "done", "close"} /\ k.who \in Groups
           /\ k.left \in SUBSET Users /\ k.at \in SUBSET Users /\ k.todo \in SUBSET AllPhotos
           /\ k.hand \in SUBSET AllPhotos /\ k.got \in SUBSET AllPhotos /\ k.alone \in BOOLEAN
BY DEF Underway

LEMMA CrawlMade ==
    ASSUME NEW pc \in {"users", "nodes", "enqueue", "done", "close"}, NEW who \in Groups,
           NEW left \in SUBSET Users, NEW at \in SUBSET Users, NEW list \in SUBSET AllPhotos,
           NEW hand \in SUBSET AllPhotos, NEW got \in SUBSET AllPhotos, NEW alone \in BOOLEAN,
           NEW k, k = B!Crawl(pc, who, left, at, list, hand, got, alone)
    PROVE  /\ k \in Underway
           /\ k.pc = pc /\ k.who = who /\ k.left = left /\ k.at = at /\ k.todo = list
           /\ k.hand = hand /\ k.got = got /\ k.alone = alone
BY DEF B!Crawl, Underway

LEMMA BackfillStart == B!Init => BackfillInv
<1> SUFFICES ASSUME B!Init PROVE BackfillInv
  OBVIOUS
<1>1. BackfillShape
  BY DEF B!Init, BackfillShape, Autoclusters
<1>2. B!NoCrawl \notin Underway
  BY CrawlFields DEF B!NoCrawl
<1>3. \A c \in Crawls : crawl[c] = B!NoCrawl
  BY DEF B!Init
<1> QED
  BY <1>1, <1>2, <1>3 DEF BackfillInv, CrawlInv

\* A step of one crawl that leaves the flag alone.
LEMMA CrawlMoves ==
    ASSUME BackfillInv, NEW c \in Crawls, NEW k \in Underway,
           crawl' = [crawl EXCEPT ![c] = k], CrawlInv(k), running' = running,
           pending' \subseteq AllPhotos,
           auto' \in Autoclusters
    PROVE  BackfillInv'
<1>1. /\ crawl' \in [Crawls -> {B!NoCrawl} \cup [pc : {"task"}, who : Groups] \cup Underway]
      /\ crawl'[c] = k /\ \A d \in Crawls \ {c} : crawl'[d] = crawl[d]
  BY DEF BackfillInv, BackfillShape
<1>2. BackfillShape'
  BY <1>1 DEF BackfillInv, BackfillShape
<1>3. ASSUME NEW d \in Crawls PROVE CrawlInv(crawl'[d])
  BY <1>1 DEF BackfillInv
<1>4. \A d \in Crawls : CrawlInv(crawl[d])'
  BY <1>3 DEF CrawlInv
<1> QED
  BY <1>2, <1>4 DEF BackfillInv

\* Another crawl, a stop or an end: what was alone is alone no more.
LEMMA DisturbKeeps ==
    ASSUME BackfillInv, NEW c \in Crawls, NEW k, k = B!Disturbed[c]
    PROVE  /\ k \in {B!NoCrawl} \cup [pc : {"task"}, who : Groups] \cup Underway
           /\ k \in Underway => Ours(k) /\ ~k.alone
<1>1. CASE crawl[c] \in Underway
  <2>1. c \in B!Crawling
    BY <1>1, CrawlKinds DEF BackfillInv, B!Crawling
  <2>2. PICK j : j = crawl[c]
    OBVIOUS
  <2>3. j \in Underway /\ Ours(j)
    BY <1>1, <2>2 DEF BackfillInv, CrawlInv
  <2>4. k = B!Crawl(j.pc, j.who, j.left, j.at, j.todo, j.hand, j.got, FALSE)
    BY <2>1, <2>2 DEF B!Disturbed, B!Disturb
  <2>5. /\ k \in Underway /\ k.who = j.who /\ k.left = j.left /\ k.at = j.at
        /\ k.todo = j.todo /\ k.hand = j.hand /\ k.got = j.got /\ k.alone = FALSE
    <3>1. /\ j.pc \in {"users", "nodes", "enqueue", "done", "close"} /\ j.who \in Groups
          /\ j.left \in SUBSET Users /\ j.at \in SUBSET Users /\ j.todo \in SUBSET AllPhotos
          /\ j.hand \in SUBSET AllPhotos /\ j.got \in SUBSET AllPhotos
      BY <2>3, CrawlFields
    <3> QED
      BY <2>4, <3>1 DEF B!Crawl, Underway
  <2> QED
    BY <2>3, <2>5 DEF Ours
<1>2. CASE crawl[c] \notin Underway
  <2>1. c \notin B!Crawling
    BY <1>2, CrawlKinds DEF BackfillInv, B!Crawling
  <2>2. k = crawl[c]
    BY <2>1 DEF B!Disturbed
  <2> QED
    BY <1>2, <2>2 DEF BackfillInv, BackfillShape
<1> QED
  BY <1>1, <1>2

\* A step that disturbs every crawl and puts k in the place of one of them.
LEMMA AllDisturbed ==
    ASSUME BackfillInv, running' \in BOOLEAN, UNCHANGED <<pending, auto>>,
           NEW c \in Crawls, NEW k \in {B!NoCrawl} \cup Underway, CrawlInv(k)',
           crawl' = [B!Disturbed EXCEPT ![c] = k]
    PROVE  BackfillInv'
<1>1. crawl' = [d \in Crawls |-> IF d = c THEN k ELSE B!Disturbed[d]]
  BY DEF B!Disturbed
<1>2. ASSUME NEW d \in Crawls, d # c
      PROVE  /\ crawl'[d] \in {B!NoCrawl} \cup [pc : {"task"}, who : Groups] \cup Underway
             /\ CrawlInv(crawl[d])'
  <2>1. PICK j : j = B!Disturbed[d]
    OBVIOUS
  <2>2. /\ j \in {B!NoCrawl} \cup [pc : {"task"}, who : Groups] \cup Underway
        /\ j \in Underway => Ours(j) /\ ~j.alone
    BY <2>1, DisturbKeeps
  <2>3. crawl'[d] = j
    BY <1>1, <1>2, <2>1
  <2> QED
    BY <2>2, <2>3 DEF CrawlInv, Ours
<1>3. crawl'[c] = k
  BY <1>1
<1>4. BackfillShape'
  BY <1>1, <1>2, <1>3 DEF BackfillInv, BackfillShape
<1> QED
  BY <1>2, <1>3, <1>4 DEF BackfillInv

LEMMA GoesKeeps ==
    ASSUME BackfillInv, NEW c \in Crawls, NEW j \in Underway, j = crawl[c],
           NEW pc \in {"users", "nodes", "enqueue", "done", "close"},
           NEW left \in SUBSET Users, NEW at \in SUBSET Users, NEW list \in SUBSET AllPhotos,
           NEW hand \in SUBSET AllPhotos, NEW got \in SUBSET AllPhotos,
           B!Goes(c, pc, left, at, list, hand, got), running' = running,
           pending' \subseteq AllPhotos,
           auto' \in Autoclusters,
           CrawlInv(B!Crawl(pc, j.who, left, at, list, hand, got, j.alone))
    PROVE  BackfillInv'
<1>1. PICK k : k = B!Crawl(pc, j.who, left, at, list, hand, got, j.alone)
  OBVIOUS
<1>2. j.who \in Groups /\ j.alone \in BOOLEAN
  BY CrawlFields
<1>3. k \in Underway
  BY <1>1, <1>2, CrawlMade
<1>4. crawl' = [crawl EXCEPT ![c] = k]
  BY <1>1 DEF B!Goes
<1> QED
  BY <1>1, <1>3, <1>4, CrawlMoves

\* What a crawl under way looks like before a step that keeps the flag.
LEMMA CrawlNow ==
    ASSUME BackfillInv, NEW c \in Crawls, NEW j, j = crawl[c],
           j.pc \in {"users", "nodes", "enqueue", "done", "close"}
    PROVE  /\ j \in Underway /\ CrawlInv(j) /\ Ours(j)
           /\ j.who \in Groups /\ j.left \in SUBSET Users /\ j.at \in SUBSET Users
           /\ j.todo \in SUBSET AllPhotos /\ j.hand \in SUBSET AllPhotos
           /\ j.got \in SUBSET AllPhotos
           /\ pending \subseteq AllPhotos
           /\ auto \in Autoclusters
<1>1. j \in Underway
  BY CrawlKinds DEF BackfillInv
<1> QED
  BY <1>1, CrawlFields DEF BackfillInv, BackfillShape, CrawlInv

LEMMA LeavesWalk ==
    ASSUME BackfillInv, NEW c \in Crawls, NEW j, j = crawl[c],
           j.pc \in {"users", "nodes", "enqueue", "done", "close"},
           B!GoesOut(c, "close", j.left), running' = running,
           pending' \subseteq AllPhotos,
           auto' \in Autoclusters
    PROVE  BackfillInv'
<1>1. B!Goes(c, "close", j.left, {}, {}, {}, j.got)
  BY DEF B!GoesOut
<1>2. CrawlInv(B!Crawl("close", j.who, j.left, {}, {}, {}, j.got, j.alone))
  BY CrawlNow DEF CrawlInv, Ours, AtWork, B!Crawl
<1> QED
  BY <1>1, <1>2, CrawlNow, GoesKeeps

LEMMA NextUserKeeps ==
    ASSUME BackfillInv, NEW c \in Crawls, NEW u \in Users, B!NextUser(c, u)
    PROVE  BackfillInv'
<1>0. PICK j : j = crawl[c]
  OBVIOUS
<1>1. /\ j.pc = "users" /\ running /\ u \in j.left
      /\ UNCHANGED <<running, pending, auto>>
  BY <1>0 DEF B!NextUser
<1>2. /\ j \in Underway /\ CrawlInv(j) /\ Ours(j) /\ j.left \in SUBSET Users
      /\ j.got \in SUBSET AllPhotos /\ pending \subseteq AllPhotos
      /\ auto \in Autoclusters
  BY <1>0, <1>1, CrawlNow
<1>3. CASE B!Opens(c, u, B!Library(u))
  <2>1. B!Library(u) = {u} \X Photos /\ B!Library(u) \in SUBSET AllPhotos
    BY DEF B!Library, AllPhotos
  <2>2. B!Goes(c, "nodes", j.left, {u}, B!Library(u), {}, j.got)
    BY <1>0, <1>3 DEF B!Opens
  <2>3. CrawlInv(B!Crawl("nodes", j.who, j.left, {u}, B!Library(u), {}, j.got, j.alone))
    <3>1. j.who \X Photos \subseteq j.got \cup (j.left \X Photos) \/ ~j.alone
      BY <1>1, <1>2 DEF CrawlInv, Owing, AtWork
    <3> QED
      BY <1>1, <1>2, <2>1, <3>1 DEF CrawlInv, Ours, Owing, AtWork, B!Crawl
  <2> QED
    BY <1>0, <1>1, <1>2, <2>1, <2>2, <2>3, GoesKeeps
<1>4. CASE B!GoesOut(c, "close", crawl[c].left)
  BY <1>0, <1>1, <1>2, <1>4, LeavesWalk
<1> QED
  BY <1>3, <1>4 DEF B!NextUser

LEMMA NextNodeKeeps ==
    ASSUME BackfillInv, NEW c \in Crawls, NEW f \in AllPhotos, B!NextNode(c, f)
    PROVE  BackfillInv'
<1>0. PICK j : j = crawl[c]
  OBVIOUS
<1>1. /\ j.pc = "nodes" /\ running /\ f \in j.todo
      /\ B!Goes(c, "enqueue", j.left, j.at, j.todo \ {f}, {f}, j.got)
      /\ UNCHANGED <<running, pending, auto>>
  BY <1>0 DEF B!NextNode
<1>2. CrawlInv(B!Crawl("enqueue", j.who, j.left, j.at, j.todo \ {f}, {f}, j.got, j.alone))
  BY <1>0, <1>1, CrawlNow DEF CrawlInv, Ours, Owing, AtWork, B!Crawl
<1> QED
  BY <1>0, <1>1, <1>2, CrawlNow, GoesKeeps

LEMMA EnqueueNodeKeeps ==
    ASSUME BackfillInv, NEW c \in Crawls, B!EnqueueNode(c)
    PROVE  BackfillInv'
<1>0. PICK j : j = crawl[c]
  OBVIOUS
<1>1. j.pc = "enqueue" /\ UNCHANGED <<running, auto>>
  BY <1>0 DEF B!EnqueueNode
<1>2. CASE B!Goes(c, "nodes", j.left, j.at, j.todo, {}, j.got \cup j.hand) /\ pending' = pending \cup j.hand
  <2>1. CrawlInv(B!Crawl("nodes", j.who, j.left, j.at, j.todo, {}, j.got \cup j.hand, j.alone))
    BY <1>0, <1>1, CrawlNow DEF CrawlInv, Ours, Owing, AtWork, B!Crawl
  <2> QED
    BY <1>0, <1>1, <1>2, <2>1, CrawlNow, GoesKeeps
<1>3. CASE B!GoesOut(c, "close", j.left) /\ UNCHANGED pending
  BY <1>0, <1>1, <1>3, CrawlNow, LeavesWalk
<1> QED
  BY <1>0, <1>2, <1>3 DEF B!EnqueueNode

LEMMA UserDoneKeeps ==
    ASSUME BackfillInv, NEW c \in Crawls, B!UserDone(c)
    PROVE  BackfillInv'
<1>0. PICK j : j = crawl[c]
  OBVIOUS
<1>1. /\ j.pc = "nodes" /\ (j.todo = {} \/ ~running)
      /\ B!Goes(c, "users", j.left \ j.at, {}, {}, {}, j.got)
      /\ UNCHANGED <<running, pending, auto>>
  BY <1>0 DEF B!UserDone, B!GoesOut
<1>2. CrawlInv(B!Crawl("users", j.who, j.left \ j.at, {}, {}, {}, j.got, j.alone))
  BY <1>0, <1>1, CrawlNow DEF CrawlInv, Ours, Owing, AtWork, B!Crawl
<1> QED
  BY <1>0, <1>1, <1>2, CrawlNow, GoesKeeps

LEMMA CrawlDoneKeeps ==
    ASSUME BackfillInv, NEW c \in Crawls, B!CrawlDone(c)
    PROVE  BackfillInv'
<1>0. PICK j : j = crawl[c]
  OBVIOUS
<1>1. /\ j.pc = "users" /\ (j.left = {} \/ ~running)
      /\ B!Goes(c, "done", j.left, {}, {}, {}, j.got)
      /\ UNCHANGED <<running, pending, auto>>
  BY <1>0 DEF B!CrawlDone, B!GoesOut
<1>2. CrawlInv(B!Crawl("done", j.who, j.left, {}, {}, {}, j.got, j.alone))
  BY <1>0, <1>1, CrawlNow DEF CrawlInv, Ours, Owing, AtWork, B!Crawl
<1> QED
  BY <1>0, <1>1, <1>2, CrawlNow, GoesKeeps

LEMMA AutoclusterKeeps ==
    ASSUME BackfillInv, NEW c \in Crawls, B!AutoclusterWhenIdle(c)
    PROVE  BackfillInv'
<1>0. PICK j : j = crawl[c]
  OBVIOUS
<1>1. /\ j.pc = "done" /\ B!GoesOut(c, "close", j.left) /\ UNCHANGED <<running, pending>>
      /\ \/ auto' = auto
         \/ auto' = [pc |-> "begin", users |-> j.who] \/ auto' = [pc |-> "dead", users |-> j.who]
  BY <1>0 DEF B!AutoclusterWhenIdle, B!Autocluster
<1>2. auto' \in Autoclusters
  BY <1>0, <1>1, CrawlNow DEF Autoclusters
<1> QED
  BY <1>0, <1>1, <1>2, CrawlNow, LeavesWalk

LEMMA BeginKeeps ==
    ASSUME BackfillInv, NEW c \in Crawls, B!Begin(c)
    PROVE  BackfillInv'
<1>a. PICK alone \in BOOLEAN : alone = (B!Crawling = {})
  OBVIOUS
<1>b. PICK who : who = crawl[c].who
  OBVIOUS
<1>c. PICK k : k = B!Crawl("users", who, who, {}, {}, {}, {}, alone)
  OBVIOUS
<1>1. /\ crawl[c].pc = "task" /\ running' = TRUE /\ UNCHANGED <<pending, auto>>
      /\ crawl' = [B!Disturbed EXCEPT ![c] = k]
  BY <1>a, <1>b, <1>c DEF B!Begin
<1>2. who \in Groups
  BY <1>b, <1>1, CrawlKinds DEF BackfillInv
<1>3. k \in Underway
  BY <1>c, <1>2 DEF B!Crawl, Underway, Groups
<1>4. CrawlInv(k)'
  BY <1>c, <1>1, <1>2 DEF CrawlInv, Ours, Owing, AtWork, B!Crawl
<1> QED
  BY <1>1, <1>3, <1>4, AllDisturbed

LEMMA CloseKeeps ==
    ASSUME BackfillInv, NEW c \in Crawls, B!Close(c)
    PROVE  BackfillInv'
<1>1. CrawlInv(B!NoCrawl)'
  BY CrawlFields DEF CrawlInv, B!NoCrawl
<1> QED
  BY <1>1, AllDisturbed DEF B!Close

LEMMA StopKeeps == ASSUME BackfillInv, B!Stop PROVE BackfillInv'
<1>1. /\ running' = FALSE /\ crawl' = B!Disturbed /\ UNCHANGED <<pending, auto>>
  BY DEF B!Stop
<1>2. ASSUME NEW d \in Crawls
      PROVE  /\ crawl'[d] \in {B!NoCrawl} \cup [pc : {"task"}, who : Groups] \cup Underway
             /\ CrawlInv(crawl[d])'
  BY <1>1, DisturbKeeps DEF CrawlInv
<1>3. DOMAIN B!Disturbed = Crawls /\ B!Disturbed = [d \in Crawls |-> B!Disturbed[d]]
  BY DEF B!Disturbed
<1>4. BackfillShape'
  BY <1>1, <1>2, <1>3 DEF BackfillInv, BackfillShape
<1> QED
  BY <1>2, <1>4 DEF BackfillInv

\* A crawl that is asked for, and steps that leave all crawls alone.
LEMMA OutsideKeeps ==
    ASSUME BackfillInv, running' = running, pending' \subseteq AllPhotos,
           auto' \in Autoclusters,
           crawl' = crawl \/ \E c \in Crawls, users \in Groups :
                                crawl' = [crawl EXCEPT ![c] = [pc |-> "task", who |-> users]]
    PROVE  BackfillInv'
<1>1. CASE crawl' = crawl
  BY <1>1 DEF BackfillInv, BackfillShape, CrawlInv
<1>2. ASSUME NEW c \in Crawls, NEW users \in Groups, NEW k, k = [pc |-> "task", who |-> users],
             crawl' = [crawl EXCEPT ![c] = k]
      PROVE  BackfillInv'
  <2>1. k \in [pc : {"task"}, who : Groups] /\ k \notin Underway
    BY <1>2, CrawlFields
  <2>2. crawl'[c] = k /\ \A d \in Crawls \ {c} : crawl'[d] = crawl[d]
    BY <1>2 DEF BackfillInv, BackfillShape
  <2>3. BackfillShape'
    BY <1>2, <2>1, <2>2 DEF BackfillInv, BackfillShape
  <2>4. ASSUME NEW d \in Crawls PROVE CrawlInv(crawl'[d])
    BY <2>1, <2>2 DEF BackfillInv, CrawlInv
  <2>5. \A d \in Crawls : CrawlInv(crawl[d])'
    BY <2>4 DEF CrawlInv
  <2> QED
    BY <2>3, <2>5 DEF BackfillInv
<1> QED
  BY <1>1, <1>2

LEMMA RestartKeeps == ASSUME BackfillInv, B!Restart PROVE BackfillInv'
<1>1. \A c \in Crawls : crawl'[c] = B!NoCrawl
  BY DEF B!Restart
<1>2. B!NoCrawl \notin Underway
  BY CrawlFields DEF B!NoCrawl
<1>3. BackfillShape'
  BY DEF B!Restart, BackfillInv, BackfillShape, Autoclusters
<1> QED
  BY <1>1, <1>2, <1>3 DEF BackfillInv, CrawlInv

LEMMA BackfillStep == ASSUME BackfillInv, [B!Next]_backfillVars PROVE BackfillInv'
<1>0. /\ pending \subseteq AllPhotos
      /\ auto \in Autoclusters
  BY DEF BackfillInv, BackfillShape
<1>1. CASE UNCHANGED backfillVars
  BY <1>0, <1>1, OutsideKeeps DEF backfillVars
<1>2. ASSUME NEW c \in Crawls, NEW users \in Groups, B!Start(c, users) PROVE BackfillInv'
  BY <1>0, <1>2, OutsideKeeps DEF B!Start
<1>3. CASE B!Work
  BY <1>0, <1>3, OutsideKeeps DEF B!Work, B!JobDone
<1>4. CASE B!AutoStep
  <2>1. /\ UNCHANGED <<running, crawl, pending>>
        /\ \/ auto' = B!NoAuto
           \/ /\ auto.pc \in {"begin", "wait"}
              /\ \E pc \in {"wait", "cluster", "dead"} : auto' = [pc |-> pc, users |-> auto.users]
    BY <1>4 DEF B!AutoStep, B!AutoBegins, B!StartClustering, B!Clustered, B!Autocluster
  <2>2. auto' \in Autoclusters
    BY <1>0, <2>1 DEF B!NoAuto, Autoclusters
  <2> QED
    BY <1>0, <2>1, <2>2, OutsideKeeps
<1>5. ASSUME NEW c \in Crawls, B!CrawlStep(c) PROVE BackfillInv'
  BY <1>5, BeginKeeps, NextUserKeeps, NextNodeKeeps, EnqueueNodeKeeps, UserDoneKeeps,
     CrawlDoneKeeps, AutoclusterKeeps, CloseKeeps DEF B!CrawlStep, AllPhotos
<1> QED
  BY <1>1, <1>2, <1>3, <1>4, <1>5, StopKeeps, RestartKeeps DEF B!Next, Groups

LEMMA BackfillInvariance == ServicesSpec => []BackfillInv
<1>1. ServicesInit => BackfillInv
  BY BackfillStart DEF ServicesInit
<1>2. BackfillInv /\ [ServicesNext]_vars => BackfillInv'
  BY EachLane, BackfillStep
<1> QED
  BY <1>1, <1>2, PTL DEF ServicesSpec

\* _crawl: a crawl no stop, restart or other crawl interfered with has queued every
\* photo of every user when it says that it is done, for any users and photos.
THEOREM CrawlsAreComplete == ServicesSpec => []CompleteWhenAlone
<1>1. ASSUME BackfillInv, NEW c \in Crawls, NEW k, k = crawl[c], k.pc = "done", k.alone
      PROVE  k.got = k.who \X Photos
  <2>1. CrawlInv(k) /\ k \in Underway
    BY <1>1, CrawlNow
  <2> QED
    BY <1>1, <2>1 DEF CrawlInv, Ours, Owing, AtWork
<1>2. BackfillInv => CompleteWhenAlone
  BY <1>1 DEF CompleteWhenAlone, B!CompleteWhenAlone
<1> QED
  BY <1>2, BackfillInvariance, PTL

-----------------------------------------------------------------------------
(* The types of all services.                                              *)

Secrets == 1 .. MaxCalls

HandlerCalls == {NoCall} \cup [pc : {"secret"}, known : Secrets \cup {NoSecret}]
                \cup [pc : {"drop", "create"}, secret : Secrets]
                \cup [pc : {"start", "disable", "stop"}]

DetectionTypes ==
    /\ TypeOK
    /\ \A n \in notices : n[1] \in DOMAIN file
    /\ calls \in 0 .. MaxCalls /\ (handler.pc = "secret" => calls > 0)
    /\ handler \in HandlerCalls

LEMMA HandlerFields ==
    ASSUME handler \in HandlerCalls
    PROVE  /\ handler.pc \in {"none", "secret", "drop", "create", "start", "disable", "stop"}
           /\ handler.pc = "none" <=> handler = NoCall
           /\ handler.pc = "secret" => handler.known \in Secrets \cup {NoSecret}
           /\ handler.pc \in {"drop", "create"} => handler.secret \in Secrets
                /\ handler \in [pc : {"drop", "create"}, secret : Secrets]
BY DEF HandlerCalls, NoCall

LEMMA HandlerMade ==
    /\ NoCall \in HandlerCalls
    /\ \A s \in Secrets \cup {NoSecret} : [pc |-> "secret", known |-> s] \in HandlerCalls
    /\ \A s \in Secrets : [pc |-> "drop", secret |-> s] \in HandlerCalls
    /\ \A pc \in {"start", "disable", "stop"} : [pc |-> pc] \in HandlerCalls
    /\ \A h \in [pc : {"drop", "create"}, secret : Secrets] :
          [h EXCEPT !.pc = "create"] \in HandlerCalls
BY DEF HandlerCalls

LEMMA DetectionTypesStart == Init => DetectionTypes
<1> SUFFICES ASSUME Init PROVE DetectionTypes
  OBVIOUS
<1>1. DOMAIN file = {} /\ Mtimes = {}
  BY DEF Init, Mtimes
<1>2. NewThread.pc = "start" /\ NoCall.pc = "none" /\ 0 \in Times /\ 0 \in 0 .. MaxCalls
  BY DetectionConstants DEF NewThread, NoCall, Times
<1>3. TypeOK
  BY <1>1, <1>2 DEF TypeOK, Init
<1> QED
  BY <1>2, <1>3, HandlerMade DEF DetectionTypes, Init

LEMMA HandlerTypes ==
    ASSUME DetectionTypes, Enable \/ Disable \/ HandlerStep
    PROVE  DetectionTypes'
<1> USE DEF DetectionTypes
<1>1. /\ UNCHANGED <<now, file, fresh, watermark, queued, passed, notices>>
      /\ handler.pc \in {"none", "secret", "drop", "create", "start", "disable", "stop"}
      /\ handler.pc = "none" <=> handler = NoCall
      /\ handler.pc = "secret" => handler.known \in Secrets \cup {NoSecret} /\ calls \in Secrets
      /\ handler.pc \in {"drop", "create"} => handler.secret \in Secrets
           /\ handler \in [pc : {"drop", "create"}, secret : Secrets]
  BY HandlerFields, DetectionConstants
  DEF Enable, Disable, HandlerStep, EnsureSecret, UnregisterWebhooks, RegisterWebhooks,
      StartLoop, StopLoop, HandlerFails, scanVars, Secrets
<1>2. Mtimes' = Mtimes
  BY <1>1 DEF Mtimes
<1>3. /\ handler' \in HandlerCalls /\ (handler'.pc = "secret" => calls' > 0)
      /\ calls' \in 0 .. MaxCalls
  <2>1. CASE Enable
    <3>1. config \in Secrets \cup {NoSecret}
      BY DEF TypeOK, Secrets
    <3>2. handler' \in HandlerCalls
      BY <2>1, <3>1, HandlerMade DEF Enable
    <3> QED BY <2>1, <3>2, DetectionConstants DEF Enable
  <2>2. CASE Disable
    BY <2>2, HandlerMade, DetectionConstants DEF Disable
  <2>3. CASE EnsureSecret
    <3> DEFINE s == IF handler.known # NoSecret THEN handler.known ELSE calls
    <3>1. s \in Secrets /\ handler' = [pc |-> "drop", secret |-> s] /\ calls' = calls
      BY <2>3, <1>1 DEF EnsureSecret
    <3> HIDE DEF s
    <3> QED BY <3>1, HandlerMade
  <2>4. CASE UnregisterWebhooks
    BY <2>4, <1>1, HandlerMade DEF UnregisterWebhooks
  <2>5. CASE RegisterWebhooks
    BY <2>5, HandlerMade DEF RegisterWebhooks
  <2>6. CASE StartLoop \/ StopLoop \/ HandlerFails
    BY <2>6, HandlerMade DEF StartLoop, StopLoop, HandlerFails, NoCall
  <2> QED BY <2>1, <2>2, <2>3, <2>4, <2>5, <2>6 DEF HandlerStep
<1>4. /\ hooks' \subseteq Secrets /\ config' \in Secrets \cup {NoSecret}
      /\ cache' \in Secrets \cup {NoSecret}
  <2>1. /\ hooks \subseteq Secrets /\ config \in Secrets \cup {NoSecret}
        /\ cache \in Secrets \cup {NoSecret}
    BY DEF TypeOK, Secrets
  <2> QED
    BY <1>1, <2>1
    DEF Enable, Disable, HandlerStep, EnsureSecret, UnregisterWebhooks, RegisterWebhooks,
        StartLoop, StopLoop, HandlerFails
<1>5. stop' \in BOOLEAN /\ loop'.pc \in {"off", "dead", "start", "wait", "walk"}
  <2>1. CASE StartLoop
    <3>1. NewThread.pc = "start"
      BY DEF NewThread
    <3> QED BY <2>1, <3>1 DEF StartLoop, TypeOK
  <2>2. CASE StopLoop
    BY <2>2 DEF StopLoop, TypeOK
  <2>3. CASE UNCHANGED <<stop, loop>>
    BY <2>3 DEF TypeOK
  <2> QED
    BY <2>1, <2>2, <2>3
    DEF Enable, Disable, HandlerStep, EnsureSecret, UnregisterWebhooks, RegisterWebhooks,
        HandlerFails, scanVars
<1>6. handler'.pc \in {"none", "secret", "drop", "create", "start", "disable", "stop"}
  BY <1>3 DEF HandlerCalls, NoCall
<1> QED
  BY <1>1, <1>2, <1>3, <1>4, <1>5, <1>6 DEF TypeOK, Secrets

LEMMA UploadTypes ==
    ASSUME DetectionTypes, ScanInv, NEW f \in Files, NEW t \in Times, Upload(f, t)
    PROVE  DetectionTypes'
<1>1. /\ file' = Append(file, t) /\ f = Len(file) + 1 /\ Len(file) \in Nat
      /\ DOMAIN file = 1 .. Len(file) /\ file \in Seq(Nat)
      /\ UNCHANGED <<now, watermark, queued, passed, loop, stop, hooks, config, cache, handler, calls>>
      /\ notices' = notices \cup {f} \X hooks /\ fresh' \subseteq fresh \cup {f}
  BY DEF Upload, scanVars, ScanInv, FileTypes
<1>2. /\ DOMAIN file' = DOMAIN file \cup {f} /\ file'[f] = t
      /\ \A g \in DOMAIN file : file'[g] = file[g]
  BY <1>1
<1>3. Mtimes' \subseteq Mtimes \cup {t}
  BY <1>2 DEF Mtimes
<1>4. fresh \cup queued \cup passed \subseteq DOMAIN file /\ hooks \subseteq Secrets
  BY DEF DetectionTypes, TypeOK, Secrets
<1>5. \A n \in notices' : n[1] \in DOMAIN file'
  BY <1>1, <1>2 DEF DetectionTypes
<1>6. TypeOK'
  BY <1>1, <1>2, <1>3, <1>4 DEF DetectionTypes, TypeOK
<1> QED
  BY <1>1, <1>5, <1>6 DEF DetectionTypes

LEMMA LoopTypes ==
    ASSUME DetectionTypes, ScanInv, LoopStep
    PROVE  DetectionTypes'
<1>1. UNCHANGED <<now, file, fresh, stop, hooks, notices, config, cache, handler, calls>>
  BY DEF LoopStep, Settle, LoopDies, SeedWatermark, RecentNodes, EnqueueNode, SetWatermark,
         ScanFails, EndLoop, Goes, hookVars
<1>2. /\ now \in Times /\ Mtimes \subseteq Times /\ watermark \in Times \cup {Unset}
      /\ watermark \in Int /\ Times \subseteq Int /\ loop.pc \in {"off", "dead", "start", "wait", "walk"}
      /\ queued \cup passed \subseteq DOMAIN file
  BY FileFacts, DetectionConstants DEF DetectionTypes, TypeOK, Times, ScanInv
<1>3. loop.pc = "walk" => loop.top \in Times \cup {Unset} /\ loop.todo \subseteq DOMAIN file
  BY <1>2 DEF ScanInv, WalkInv, Walking
<1>4. watermark' \in Times \cup {Unset}
  <2>1. CASE SeedWatermark
    BY <2>1, <1>2, RaisedIsMax DEF SeedWatermark
  <2>2. CASE SetWatermark
    <3>1. Unset \in Int /\ loop.top \in Times \cup {Unset}
      BY <2>2, <1>3 DEF SetWatermark, Unset
    <3>2. loop.top \in Int
      BY <3>1, <1>2
    <3> QED BY <2>2, <3>1, <3>2, <1>2, RaisedIsMax DEF SetWatermark
  <2>3. CASE watermark' = watermark
    BY <2>3, <1>2
  <2> QED
    BY <2>1, <2>2, <2>3 DEF LoopStep, Settle, LoopDies, RecentNodes, EnqueueNode, ScanFails, EndLoop
<1>5. queued' \cup passed' \subseteq DOMAIN file
  <2>1. \/ UNCHANGED <<queued, passed>>
        \/ /\ loop.pc = "walk"
           /\ \E f \in loop.todo : queued' \subseteq queued \cup {f} /\ passed' \subseteq passed \cup {f}
    BY DEF LoopStep, Settle, LoopDies, SeedWatermark, RecentNodes, EnqueueNode, SetWatermark,
           ScanFails, EndLoop
  <2> QED BY <2>1, <1>2, <1>3
<1>6. loop'.pc \in {"off", "dead", "start", "wait", "walk"}
  <2>1. CASE \E f \in Files : EnqueueNode(f)
    <3>1. loop' = NextRound \/ \E f \in Files : loop' = [loop EXCEPT !.todo = @ \ {f}, !.top = Max({@, file[f]})]
      BY <2>1 DEF EnqueueNode, Goes
    <3>2. loop.pc = "walk" /\ loop \in Walking
      BY <2>1 DEF EnqueueNode, ScanInv, WalkInv
    <3>3. NextRound.pc = "wait"
      BY DEF NextRound
    <3> QED BY <3>1, <3>2, <3>3 DEF Walking
  <2>2. CASE Settle \/ LoopDies \/ SeedWatermark \/ RecentNodes \/ SetWatermark \/ ScanFails \/ EndLoop
    BY <2>2 DEF Settle, LoopDies, SeedWatermark, RecentNodes, SetWatermark, ScanFails, EndLoop,
                Goes, NextRound, NoThread, DeadThread
  <2> QED BY <2>1, <2>2 DEF LoopStep
<1>7. Mtimes' = Mtimes
  BY <1>1 DEF Mtimes
<1> QED
  BY <1>1, <1>4, <1>5, <1>6, <1>7 DEF DetectionTypes, TypeOK

LEMMA DetectionTypesStep ==
    ASSUME DetectionTypes, ScanInv, [Next]_detectVars
    PROVE  DetectionTypes'
<1>1. CASE UNCHANGED detectVars
  BY <1>1 DEF detectVars, DetectionTypes, TypeOK, Mtimes
<1>2. CASE Tick
  <2>1. now' \in Times
    BY <1>2, DetectionConstants DEF Tick, DetectionTypes, TypeOK, Times
  <2>2. Mtimes' = Mtimes
    BY <1>2 DEF Tick, Mtimes
  <2> QED
    BY <1>2, <2>1, <2>2 DEF Tick, scanVars, hookVars, DetectionTypes, TypeOK
<1>3. CASE Restart
  BY <1>3, HandlerMade DEF Restart, DetectionTypes, TypeOK, Mtimes, NewThread, NoCall
<1>4. ASSUME NEW n \in notices, OnWebhook(n[1], n[2]) \/ LoseNotice(n[1], n[2])
      PROVE  DetectionTypes'
  <2>1. n[1] \in DOMAIN file
    BY DEF DetectionTypes
  <2>2. /\ UNCHANGED <<now, file, fresh, watermark, passed, loop, stop, hooks, config, handler, calls>>
        /\ notices' \subseteq notices /\ queued' \subseteq queued \cup {n[1]}
        /\ cache' = cache \/ cache' = Secret
    BY <1>4 DEF OnWebhook, LoseNotice, scanVars
  <2>3. Mtimes' = Mtimes
    BY <2>2 DEF Mtimes
  <2> QED
    BY <2>1, <2>2, <2>3 DEF DetectionTypes, TypeOK, Secret
<1> QED
  BY <1>1, <1>2, <1>3, <1>4, HandlerTypes, UploadTypes, LoopTypes DEF Next

-----------------------------------------------------------------------------
\* Lines are never empty: the last group is the current second.
Waiting == SUBSET Jobs
Waits(l, x) == \E i \in DOMAIN l : x \in l[i]
Line(l) == l \in Seq(Waiting) /\ Len(l) > 0

OrderTypes ==
    /\ Line(line) /\ holds \in [Threads -> SUBSET Jobs] /\ stuck \subseteq Jobs
    /\ hung \subseteq Threads /\ touched \in 0 .. MaxTouches
    /\ \A t \in Threads : \A x, y \in holds[t] : x = y
    /\ \A t, u \in Threads : t # u => holds[t] \cap holds[u] = {}
    /\ \A x \in stuck : ~Waits(line, x) /\ \A t \in Threads : x \notin holds[t]
    /\ \A t \in Threads : \A x \in holds[t] : ~Waits(line, x)

LEMMA WaitsPending ==
    ASSUME NEW x
    PROVE  x \in Q!Pending <=> Waits(line, x)
BY DEF Q!Pending, Q!ToSet, Waits

LEMMA BackLine ==
    ASSUME NEW l, Line(l), NEW j \in Jobs, NEW b, b = Q!AtTheBack(l, j)
    PROVE  Line(b) /\ \A x : Waits(b, x) <=> Waits(l, x) \/ x = j
<1> PICK n : n = Len(l)
  OBVIOUS
<1>1. n \in Nat /\ n > 0 /\ l \in Seq(Waiting) /\ l \in [1 .. n -> Waiting] /\ n \in 1 .. n
      /\ DOMAIN l = 1 .. n
  BY LenProperties DEF Line
<1>2. l[n] \cup {j} \in Waiting
  BY <1>1 DEF Waiting
<1> PICK g : g = l[n] \cup {j}
  OBVIOUS
<1>3. b = [l EXCEPT ![n] = g]
  BY DEF Q!AtTheBack
<1>4. b \in Seq(Waiting) /\ Len(b) = n /\ \A i \in 1 .. n : b[i] = IF i = n THEN g ELSE l[i]
  BY <1>1, <1>2, <1>3, ExceptSeq
<1>5. DOMAIN b = 1 .. n
  BY <1>1, <1>3
<1>6. Line(b)
  BY <1>1, <1>4 DEF Line
<1> QED BY <1>1, <1>4, <1>5, <1>6 DEF Waits

LEMMA WithoutAt ==
    ASSUME NEW S, NEW r \in Seq(S), NEW k \in 1 .. Len(r) - 1
    PROVE  /\ Q!RemoveAt(r, k) \in Seq(S) /\ Len(Q!RemoveAt(r, k)) = Len(r) - 1
           /\ \A i \in 1 .. Len(r) - 1 :
                 Q!RemoveAt(r, k)[i] = IF i < k THEN r[i] ELSE r[i + 1]
<1> PICK w : w = Q!RemoveAt(r, k)
  OBVIOUS
<1> PICK n : n = Len(r)
  OBVIOUS
<1> PICK a : a = SubSeq(r, 1, k - 1)
  OBVIOUS
<1> PICK b : b = SubSeq(r, k + 1, n)
  OBVIOUS
<1>1. n \in Nat /\ k \in Nat /\ 0 < k /\ k < n
  OBVIOUS
<1>2. \A i \in 1 .. n : r[i] \in S
  OBVIOUS
<1>3. a \in Seq(S) /\ Len(a) = k - 1 /\ \A i \in 1 .. k - 1 : a[i] = r[i]
  <2>1. \A i \in 1 .. k - 1 : r[i] \in S
    BY <1>1, <1>2
  <2>2. 1 \in Int /\ k - 1 \in Int
    BY <1>1
  <2>3. /\ a \in Seq(S) /\ Len(a) = IF 1 <= k - 1 THEN (k - 1) - 1 + 1 ELSE 0
        /\ \A i \in 1 .. (k - 1) - 1 + 1 : a[i] = r[1 + i - 1]
    BY <2>1, <2>2, SubSeqProperties
  <2>4. (k - 1) - 1 + 1 = k - 1 /\ (~(1 <= k - 1) => k - 1 = 0)
        /\ \A i \in 1 .. k - 1 : 1 + i - 1 = i
    BY <1>1
  <2> QED BY <2>3, <2>4
<1>4. b \in Seq(S) /\ Len(b) = n - k /\ \A i \in 1 .. n - k : b[i] = r[i + k]
  <2>1. \A i \in k + 1 .. n : r[i] \in S
    BY <1>1, <1>2
  <2>2. k + 1 \in Int /\ n \in Int /\ k + 1 <= n
    BY <1>1
  <2>3. /\ b \in Seq(S) /\ Len(b) = IF k + 1 <= n THEN n - (k + 1) + 1 ELSE 0
        /\ \A i \in 1 .. n - (k + 1) + 1 : b[i] = r[(k + 1) + i - 1]
    BY <2>1, <2>2, SubSeqProperties
  <2>4. n - (k + 1) + 1 = n - k /\ \A i \in 1 .. n - k : (k + 1) + i - 1 = i + k
    BY <1>1
  <2> QED BY <2>2, <2>3, <2>4
<1>5. w = a \o b
  BY DEF Q!RemoveAt
<1>6. /\ w \in Seq(S) /\ Len(w) = Len(a) + Len(b)
      /\ \A i \in 1 .. Len(a) + Len(b) : w[i] = IF i <= Len(a) THEN a[i] ELSE b[i - Len(a)]
  <2>1. a \in Seq(S) /\ b \in Seq(S)
    BY <1>3, <1>4
  <2>2. /\ a \o b \in Seq(S) /\ Len(a \o b) = Len(a) + Len(b)
        /\ \A i \in 1 .. Len(a) + Len(b) : (a \o b)[i] = IF i <= Len(a) THEN a[i] ELSE b[i - Len(a)]
    BY <2>1, ConcatProperties
  <2> QED BY <1>5, <2>2
<1>7. Len(a) + Len(b) = n - 1
  <2>1. Len(a) = k - 1 /\ Len(b) = n - k
    BY <1>3, <1>4
  <2>2. (k - 1) + (n - k) = n - 1
    BY <1>1
  <2> QED BY <2>1, <2>2
<1>8. ASSUME NEW i \in 1 .. n - 1
      PROVE  w[i] = IF i < k THEN r[i] ELSE r[i + 1]
  <2>1. w[i] = IF i <= k - 1 THEN a[i] ELSE b[i - (k - 1)]
    BY <1>3, <1>6, <1>7
  <2>2. CASE i < k
    <3>1. i \in 1 .. k - 1 /\ i <= k - 1
      BY <1>1, <2>2
    <3> QED BY <2>1, <2>2, <3>1, <1>3
  <2>3. CASE ~(i < k)
    <3>1. i - (k - 1) \in 1 .. n - k /\ (i - (k - 1)) + k = i + 1 /\ ~(i <= k - 1)
      BY <1>1, <2>3
    <3> QED BY <2>1, <2>3, <3>1, <1>4
  <2> QED BY <2>2, <2>3
<1> QED BY <1>6, <1>7, <1>8

LEMMA WithoutLine ==
    ASSUME Line(line), NEW j, NEW w, w = Q!Without(j)
    PROVE  Line(w) /\ \A x : Waits(w, x) <=> Waits(line, x) /\ x # j
<1> PICK n : n = Len(line)
  OBVIOUS
<1>0. PICK r : r = [i \in DOMAIN line |-> line[i] \ {j}]
  OBVIOUS
<1>1. n \in Nat /\ n > 0 /\ line \in [1 .. n -> Waiting] /\ DOMAIN line = 1 .. n
  BY LenProperties DEF Line
<1>2. \A i \in 1 .. n : line[i] \ {j} \in Waiting
  BY <1>1 DEF Waiting
<1>3. r \in [1 .. n -> Waiting] /\ DOMAIN r = 1 .. n /\ \A i \in 1 .. n : r[i] = line[i] \ {j}
  BY <1>0, <1>1, <1>2
<1>4. r \in Seq(Waiting) /\ Len(r) = n
  <2>1. r \in Seq(Waiting)
    BY <1>1, <1>3, SeqDef
  <2>2. DOMAIN r = 1 .. Len(r) /\ Len(r) \in Nat
    BY <2>1, LenProperties
  <2>3. Len(r) <= n /\ n <= Len(r)
    <3>1. n \in 1 .. n
      BY <1>1
    <3>2. n \in 1 .. Len(r)
      BY <3>1, <2>2, <1>3
    <3>3. Len(r) > 0
      BY <3>2, <2>2, <1>1
    <3>4. Len(r) \in 1 .. Len(r)
      BY <3>3, <2>2
    <3>5. Len(r) \in 1 .. n
      BY <3>4, <2>2, <1>3
    <3> QED BY <3>2, <3>5
  <2>4. Len(r) = n
    <3>1. \A x, y \in Nat : x <= y /\ y <= x => x = y
      OBVIOUS
    <3> QED BY <1>1, <2>2, <2>3, <3>1
  <2> QED BY <2>1, <2>4
<1>5. \A x : Waits(r, x) <=> Waits(line, x) /\ x # j
  BY <1>1, <1>3 DEF Waits
<1>6. CASE Q!Gone(j) = {}
  BY <1>0, <1>1, <1>4, <1>5, <1>6 DEF Q!Without, Line
<1>7. CASE Q!Gone(j) # {}
  <2>0. PICK k : k = CHOOSE i \in Q!Gone(j) : TRUE
    OBVIOUS
  <2>1. k \in 1 .. n - 1 /\ line[k] = {j}
    BY <1>7, <2>0 DEF Q!Gone
  <2>2. w = Q!RemoveAt(r, k)
    BY <1>0, <1>7, <2>0 DEF Q!Without
  <2>3. k \in Int /\ n \in Int /\ k < n /\ 0 < k
    BY <1>1, <2>1
  <2>4. r[k] = {}
    <3>1. k \in 1 .. n
      BY <2>3
    <3> QED BY <1>3, <2>1, <3>1
  <2>5. /\ w \in Seq(Waiting) /\ Len(w) = n - 1
        /\ \A i \in 1 .. n - 1 : w[i] = IF i < k THEN r[i] ELSE r[i + 1]
    <3>1. k \in 1 .. Len(r) - 1 /\ r \in Seq(Waiting)
      BY <1>4, <2>1
    <3>2. /\ Q!RemoveAt(r, k) \in Seq(Waiting) /\ Len(Q!RemoveAt(r, k)) = Len(r) - 1
          /\ \A i \in 1 .. Len(r) - 1 :
                Q!RemoveAt(r, k)[i] = IF i < k THEN r[i] ELSE r[i + 1]
      BY <3>1, WithoutAt
    <3> QED BY <2>2, <3>2, <1>4
  <2>6. DOMAIN w = 1 .. n - 1
    BY <2>5, LenProperties
  <2>7. Line(w)
    BY <2>3, <2>5 DEF Line
  <2>8. ASSUME NEW x, Waits(w, x)
        PROVE  Waits(r, x)
    <3> PICK i \in 1 .. n - 1 : x \in w[i]
      BY <2>6, <2>8 DEF Waits
    <3>1. i \in 1 .. n /\ i + 1 \in 1 .. n
      BY <2>3
    <3> QED BY <1>3, <2>5, <3>1 DEF Waits
  <2>9. ASSUME NEW x, Waits(r, x)
        PROVE  Waits(w, x)
    <3> PICK i \in 1 .. n : x \in r[i]
      BY <1>3, <2>9 DEF Waits
    <3>1. i # k
      BY <2>4
    <3>2. CASE i < k
      <4>1. i \in 1 .. n - 1
        BY <2>3, <3>2
      <4> QED BY <2>5, <2>6, <3>2, <4>1 DEF Waits
    <3>3. CASE ~(i < k)
      <4> PICK h : h = i - 1
        OBVIOUS
      <4>1. h \in 1 .. n - 1 /\ ~(h < k) /\ h + 1 = i
        BY <2>3, <3>1, <3>3
      <4> QED BY <2>5, <2>6, <4>1 DEF Waits
    <3> QED BY <3>2, <3>3
  <2> QED BY <1>5, <2>7, <2>8, <2>9
<1> QED BY <1>6, <1>7

LEMMA OrderStart == Q!Init => OrderTypes
<1> SUFFICES ASSUME Q!Init PROVE OrderTypes
  OBVIOUS
<1>1. line = <<{}>> /\ {} \in Waiting
  BY DEF Q!Init, Waiting
<1>2. line \in Seq(Waiting) /\ Len(line) = 1
  BY <1>1
<1>3. Line(line)
  BY <1>2 DEF Line
<1> QED BY <1>3, OrderConstants DEF OrderTypes, Q!Init

\* A row that a thread or the reaper gives back, or that is enqueued.
LEMMA MovesBack ==
    ASSUME OrderTypes, NEW j \in Jobs, NEW l, Line(l),
           \A x : Waits(l, x) => Waits(line, x), line' = Q!AtTheBack(l, j),
           hung' = hung, touched' \in 0 .. MaxTouches,
           stuck' \subseteq stuck \ {j}, holds' \in [Threads -> SUBSET Jobs],
           \A t \in Threads : holds'[t] \subseteq holds[t] \ {j}
    PROVE  OrderTypes'
<1>1. Line(line') /\ \A x : Waits(line', x) => Waits(line, x) \/ x = j
  BY BackLine
<1> QED BY <1>1 DEF OrderTypes, Line, Waits

LEMMA OrderStep == ASSUME OrderTypes, [Q!Next]_orderVars PROVE OrderTypes'
<1> USE DEF OrderTypes
<1>1. CASE UNCHANGED orderVars
  BY <1>1 DEF orderVars, Line, Waits
<1>2. CASE Q!Tick
  <2>1. line' = Append(line, {}) /\ {} \in Waiting /\ line \in Seq(Waiting) /\ Len(line) > 0
    BY <1>2 DEF Q!Tick, Waiting, Line
  <2>2. /\ line' \in Seq(Waiting) /\ Len(line') > 0
        /\ DOMAIN line' = DOMAIN line \cup {Len(line) + 1} /\ line'[Len(line) + 1] = {}
        /\ \A i \in DOMAIN line : line'[i] = line[i]
    BY <2>1
  <2>3. Line(line') /\ \A x : Waits(line', x) => Waits(line, x)
    BY <2>2 DEF Line, Waits
  <2> QED BY <1>2, <2>3 DEF Q!Tick, Line, Waits
<1>3. ASSUME NEW j \in Jobs, Q!Enqueue(j)
      PROVE  OrderTypes'
  <2>0. PICK l : l = Q!Without(j)
    OBVIOUS
  <2>1. Line(l) /\ \A x : Waits(l, x) => Waits(line, x)
    BY <2>0, WithoutLine
  <2>2. j \notin stuck /\ \A t \in Threads : j \notin holds[t]
    BY <1>3 DEF Q!Enqueue, Q!Processing
  <2>3. touched' \in 0 .. MaxTouches
    BY <1>3, OrderConstants DEF Q!Enqueue
  <2>4. line' = Q!AtTheBack(l, j) /\ UNCHANGED <<holds, hung, stuck>>
    BY <1>3, <2>0 DEF Q!Enqueue
  <2> QED BY <2>1, <2>2, <2>3, <2>4, MovesBack
<1>4. ASSUME NEW t \in Threads, NEW j \in Q!Pending, Q!Claim(t, j)
      PROVE  OrderTypes'
  <2>1. Waits(line, j)
    BY WaitsPending
  <2>2. Line(line') /\ \A x : Waits(line', x) <=> Waits(line, x) /\ x # j
    BY <1>4, WithoutLine DEF Q!Claim
  <2>3. j \in Jobs
    BY <2>1, LenProperties DEF Waits, Line, Waiting
  <2>4. /\ holds' \in [Threads -> SUBSET Jobs] /\ holds'[t] = {j}
        /\ \A u \in Threads : u # t => holds'[u] = holds[u]
        /\ UNCHANGED <<hung, stuck, touched>>
    BY <1>4, <2>3 DEF Q!Claim
  <2> QED BY <2>1, <2>2, <2>4 DEF Line, Waits
<1>5. ASSUME NEW t \in Threads, Q!Finish(t)
      PROVE  OrderTypes'
  <2>1. /\ holds' \in [Threads -> SUBSET Jobs] /\ holds'[t] = {}
        /\ \A u \in Threads : u # t => holds'[u] = holds[u]
        /\ UNCHANGED <<line, hung, stuck, touched>>
    BY <1>5 DEF Q!Finish
  <2> QED BY <2>1 DEF Line, Waits
<1>6. ASSUME NEW t \in Threads, NEW j \in Jobs, Q!Requeue(t, j)
      PROVE  OrderTypes'
  <2>1. /\ holds' \in [Threads -> SUBSET Jobs] /\ holds'[t] = {}
        /\ \A u \in Threads : u # t => holds'[u] = holds[u]
        /\ UNCHANGED <<hung, stuck, touched>> /\ line' = Q!AtTheBack(line, j) /\ j \in holds[t]
    BY <1>6 DEF Q!Requeue
  <2>2. j \notin stuck /\ \A u \in Threads : holds'[u] \subseteq holds[u] \ {j}
    BY <2>1
  <2> QED BY <2>1, <2>2, MovesBack
<1>7. ASSUME NEW t \in Threads, Q!Hang(t)
      PROVE  OrderTypes'
  <2>1. /\ holds' \in [Threads -> SUBSET Jobs] /\ holds'[t] = {}
        /\ \A u \in Threads : u # t => holds'[u] = holds[u]
        /\ UNCHANGED <<line, touched>> /\ hung' = hung \cup {t} /\ stuck' = stuck \cup holds[t]
    BY <1>7 DEF Q!Hang
  <2> QED BY <2>1 DEF Line, Waits
<1>8. ASSUME NEW j \in stuck, Q!Reap(j)
      PROVE  OrderTypes'
  <2>1. /\ UNCHANGED <<holds, hung, touched>> /\ stuck' = stuck \ {j}
        /\ line' = Q!AtTheBack(line, j) /\ j \in Jobs
    BY <1>8 DEF Q!Reap
  <2> QED BY <2>1, MovesBack
<1> QED
  BY <1>1, <1>2, <1>3, <1>4, <1>5, <1>6, <1>7, <1>8
  DEF Q!Next, Q!ReapStep, Q!ClaimStep, Q!EndStep

LEMMA OrderTyped == OrderTypes => Q!TypeOK
<1> SUFFICES ASSUME OrderTypes PROVE Q!TypeOK
  OBVIOUS
<1>1. Q!Pending \subseteq Jobs
  BY WaitsPending, LenProperties DEF OrderTypes, Waits, Line, Waiting
<1>2. Q!Pending \cap Q!Processing = {}
  BY WaitsPending DEF OrderTypes, Q!Processing
<1>3. ASSUME NEW t \in Threads
      PROVE  Q!Cardinality(holds[t]) <= 1
  <2>1. Cardinality(holds[t]) <= 1
    <3>1. CASE holds[t] = {}
      BY <3>1, FS_EmptySet
    <3>2. CASE holds[t] # {}
      <4> PICK x : x \in holds[t]
        BY <3>2
      <4>1. holds[t] = {x}
        BY DEF OrderTypes
      <4> QED BY <4>1, FS_Singleton
    <3> QED BY <3>1, <3>2
  <2>2. Q!Cardinality(holds[t]) = Cardinality(holds[t])
    BY DEF Q!Cardinality, Cardinality
  <2> QED BY <2>1, <2>2
<1> QED BY <1>1, <1>2, <1>3 DEF OrderTypes, Q!TypeOK

-----------------------------------------------------------------------------
WidgetTypes == W!TypeOK /\ poll \in [Polls -> {"none", "asked", "running", "idle"}]

LEMMA WidgetStart == W!Init => WidgetTypes
BY DEF W!Init, WidgetTypes, W!TypeOK

LEMMA WidgetStep == ASSUME WidgetTypes, [W!Next]_widgetVars PROVE WidgetTypes'
<1> USE DEF WidgetTypes, W!TypeOK
<1>1. CASE UNCHANGED widgetVars
  BY <1>1 DEF widgetVars
<1>2. CASE W!ScanToggle \/ W!HandlePost
  BY <1>2 DEF W!ScanToggle, W!HandlePost
<1>3. CASE W!PostAnswered
  BY <1>3 DEF W!PostAnswered, W!Ask
<1>4. CASE W!PostFails \/ W!CrawlStep
  BY <1>4 DEF W!PostFails, W!CrawlStep, W!BeginCrawl, W!EndCrawl, W!CallFails
<1>5. ASSUME NEW p \in Polls, W!PollStep(p) \/ W!PollFails(p)
      PROVE  WidgetTypes'
  BY <1>5 DEF W!PollStep, W!BfPoll, W!Ask, W!Status, W!PollAnswered, W!PollFails, W!CallFails
<1> QED
  BY <1>1, <1>2, <1>3, <1>4, <1>5 DEF W!Next, W!PostStep

-----------------------------------------------------------------------------
CacheBounds ==
    /\ clock \in 0 .. MaxClock /\ table \in 0 .. MaxRebuilds
    /\ toInvalidate \in 0 .. table
    /\ cacheAt \in (0 .. MaxClock) \cup {C!LongAgo}

LEMMA BoundsStart == C!Init => CacheBounds
BY CacheConstants DEF C!Init, CacheBounds

LEMMA BoundsStep == ASSUME CacheBounds, AgeInv, [C!Next]_aliasCacheVars PROVE CacheBounds'
<1> USE CacheConstants DEF CacheBounds
<1>1. CASE UNCHANGED aliasCacheVars \/ C!Tick \/ C!Rebuild \/ C!Invalidate
  BY <1>1 DEF aliasCacheVars, C!Tick, C!Rebuild, C!Invalidate
<1>2. ASSUME NEW r \in Readers, C!CheckTTL(r) \/ C!LoadAliases(r) \/ C!KeepMap(r) \/ C!ReturnMap(r)
      PROVE  CacheBounds'
  BY <1>2 DEF C!CheckTTL, C!LoadAliases, C!KeepMap, C!ReturnMap
<1>3. ASSUME NEW r \in Readers, C!Stamp(r)
      PROVE  CacheBounds'
  <2>1. reader[r].at \in Nat /\ reader[r].at <= clock
    BY <1>3, ReaderShape DEF AgeInv, CallInv, C!Stamp
  <2> QED BY <1>3, <2>1 DEF C!Stamp
<1> QED BY <1>1, <1>2, <1>3 DEF C!Next

LEMMA CacheTyped == AgeInv /\ CacheBounds => C!TypeOK
<1> SUFFICES ASSUME AgeInv, CacheBounds PROVE C!TypeOK
  OBVIOUS
<1>1. \A r \in Readers : reader[r].pc \in {"none", "load", "keep", "stamp", "return"}
  BY ReaderShape DEF AgeInv
<1> QED BY <1>1, CacheConstants DEF AgeInv, CacheShape, CacheBounds, C!TypeOK

-----------------------------------------------------------------------------
LEMMA GeoTyped == GeoInv => G!TypeOK
<1> SUFFICES ASSUME GeoInv PROVE G!TypeOK
  OBVIOUS
<1>1. \A w \in Workers : locating[w].pc \in {"idle", "read", "ask", "sleep", "request", "store"}
  BY DEF GeoInv, GeoShape, GeoCalls, Asking, G!Idle
<1> QED BY <1>1, GeoConstants DEF GeoInv, GeoShape, SpaceInv, G!TypeOK

LEMMA BackfillTyped == BackfillInv => B!TypeOK
<1> SUFFICES ASSUME BackfillInv PROVE B!TypeOK
  OBVIOUS
<1>1. ASSUME NEW c \in Crawls
      PROVE  /\ crawl[c].pc \in {"none", "task", "users", "nodes", "enqueue", "done", "close"}
             /\ c \in B!Crawling => crawl[c].got \subseteq crawl[c].who \X Photos
  <2>1. crawl[c] \in {B!NoCrawl} \cup [pc : {"task"}, who : Groups] \cup Underway
    BY DEF BackfillInv, BackfillShape
  <2>2. crawl[c].pc \in {"none", "task", "users", "nodes", "enqueue", "done", "close"}
    BY <2>1, CrawlFields DEF B!NoCrawl
  <2>3. crawl[c] \in Underway => crawl[c].got \subseteq crawl[c].who \X Photos
    BY DEF BackfillInv, CrawlInv, Ours
  <2>4. c \in B!Crawling => crawl[c] \in Underway
    BY CrawlKinds DEF B!Crawling, BackfillInv
  <2> QED BY <2>2, <2>3, <2>4
<1>2. auto # B!NoAuto => /\ auto.pc \in {"begin", "wait", "cluster", "dead"}
                         /\ auto.users \in (SUBSET Users) \ {{}}
  BY DEF BackfillInv, BackfillShape, Autoclusters, Groups
<1> QED BY <1>1, <1>2 DEF BackfillInv, BackfillShape, AllPhotos, B!TypeOK

LEMMA AliasTyped == AliasInv => A!TypeOK
BY DEF AliasInv, AliasShape, Clean, A!TypeOK, A!Range

\* The tables, flags, rows and calls of all services keep their shape.
THEOREM ServicesTypeCorrect == ServicesSpec => []ServicesTypeOK
<1> DEFINE Types == ScanInv /\ DetectionTypes /\ OrderTypes /\ WidgetTypes /\ CacheBounds /\ AgeInv
<1>1. ServicesInit => Types
  BY ScanStart, DetectionTypesStart, OrderStart, WidgetStart, BoundsStart, AgeStart
  DEF ServicesInit
<1>2. Types /\ [ServicesNext]_vars => Types'
  BY EachLane, ScanStep, DetectionTypesStep, OrderStep, WidgetStep, BoundsStep, AgeStep
<1>3. Types /\ BackfillInv /\ AliasInv /\ GeoInv => ServicesTypeOK
  BY OrderTyped, CacheTyped, GeoTyped, BackfillTyped, AliasTyped
  DEF ServicesTypeOK, DetectionTypes, WidgetTypes
<1> QED
  BY <1>1, <1>2, <1>3, BackfillInvariance, AliasInvariance, GeoInvariance, PTL DEF ServicesSpec
=============================================================================
