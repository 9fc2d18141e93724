---------------------------- MODULE AliasProofs ----------------------------
(***************************************************************************)
(* resolve_mapping, compose_aliases and apply_aliases do what they are     *)
(* for, with any names, answers and order of the loops.  Walks along a map *)
(* come first: those that end, those that run into a cycle, and what       *)
(* taking an edge away or putting one in does to them.                     *)
(***************************************************************************)
EXTENDS Services, FiniteSetTheorems, WellFoundedInduction, TLAPS

\* Each step is one of every lane, or leaves it as it is.
LEMMA EachLane ==
    ASSUME [ServicesNext]_vars
    PROVE  /\ [Next]_detectVars /\ [B!Next]_backfillVars /\ [A!Next]_aliasVars
           /\ [G!Next]_geoVars /\ [C!Next]_aliasCacheVars /\ [Q!Next]_orderVars
           /\ [W!Next]_widgetVars
BY DEF ServicesNext, vars, Detecting, Backfilling, Consolidating, Geocoding,
       ReadingAliases, Queueing, Watching

\* What stands in for induction: a set of numbers has a least one.
LEMMA Least ==
    ASSUME NEW T \in SUBSET Nat, T # {}
    PROVE  \E x \in T : \A y \in T : x <= y
<1> DEFINE R == {ss \in Nat \X Nat : ss[1] < ss[2]}
<1>1. IsWellFoundedOn(R, Nat)
  BY NatLessThanWellFounded DEF OpToRel
<1>2. PICK r : r = R
  OBVIOUS
<1>3. PICK x \in T : \A y \in T : ~(<<y, x>> \in r)
  <2> HIDE DEF R
  <2> QED BY <1>1, <1>2, WFMin
<1>4. \A y \in T : ~(y < x)
  BY <1>2, <1>3
<1> QED BY <1>4

\* A map from names to names.
Mapping(f) == f \in [DOMAIN f -> Names] /\ DOMAIN f \subseteq Names

---------------------------------------------------------------------------
(* Walks along a map.                                                      *)

LEMMA VisitedNames ==
    ASSUME NEW f, NEW n
    PROVE  A!Visited(f, n) \subseteq Names
BY DEF A!Visited

LEMMA VisitedStart ==
    ASSUME NEW f, NEW n \in Names
    PROVE  n \in A!Visited(f, n)
BY DEF A!Visited

LEMMA VisitedLeast ==
    ASSUME NEW f, NEW n, NEW S \in SUBSET Names, n \in S, A!Closed(f, S)
    PROVE  A!Visited(f, n) \subseteq S
BY DEF A!Visited

LEMMA VisitedClosed ==
    ASSUME NEW f, NEW n, Mapping(f)
    PROVE  A!Closed(f, A!Visited(f, n))
<1> SUFFICES ASSUME NEW k \in A!Visited(f, n) \cap DOMAIN f
             PROVE  f[k] \in A!Visited(f, n)
  BY DEF A!Closed
<1>1. f[k] \in Names
  BY DEF Mapping
<1>2. ASSUME NEW S \in SUBSET Names, n \in S, A!Closed(f, S)
      PROVE  f[k] \in S
  <2>1. k \in S
    BY <1>2, VisitedLeast
  <2> QED BY <2>1, <1>2 DEF A!Closed
<1> QED BY <1>1, <1>2 DEF A!Visited

LEMMA VisitedOn ==
    ASSUME NEW f, NEW n, Mapping(f), NEW k \in A!Visited(f, n), k \in DOMAIN f
    PROVE  f[k] \in A!Visited(f, n)
BY VisitedClosed DEF A!Closed

LEMMA VisitedTrans ==
    ASSUME NEW f, NEW n, Mapping(f), NEW k \in A!Visited(f, n)
    PROVE  A!Visited(f, k) \subseteq A!Visited(f, n)
BY VisitedClosed, VisitedLeast, VisitedNames

LEMMA VisitedStop ==
    ASSUME NEW f, NEW n \in Names, n \notin DOMAIN f
    PROVE  A!Visited(f, n) = {n}
<1>1. A!Closed(f, {n})
  BY DEF A!Closed
<1> QED BY <1>1, VisitedLeast, VisitedStart

LEMMA VisitedStep ==
    ASSUME NEW f, Mapping(f), NEW n \in DOMAIN f
    PROVE  /\ n \in Names /\ f[n] \in Names
           /\ A!Visited(f, n) = {n} \cup A!Visited(f, f[n])
<1>1. n \in Names /\ f[n] \in Names
  BY DEF Mapping
<1> DEFINE V == A!Visited(f, f[n])
<1>2. A!Closed(f, {n} \cup V)
  <2> SUFFICES ASSUME NEW k \in {n} \cup V, k \in DOMAIN f
               PROVE  f[k] \in V
    BY DEF A!Closed
  <2>1. CASE k = n
    BY <2>1, <1>1, VisitedStart
  <2>2. CASE k \in V
    BY <2>2, VisitedOn
  <2> QED BY <2>1, <2>2
<1>3. {n} \cup V \in SUBSET Names
  BY <1>1, VisitedNames
<1>4. A!Visited(f, n) \subseteq {n} \cup V
  <2> HIDE DEF V
  <2> QED BY <1>2, <1>3, VisitedLeast
<1>5. n \in A!Visited(f, n)
  BY <1>1, VisitedStart
<1>6. V \subseteq A!Visited(f, n)
  BY <1>5, VisitedOn, VisitedTrans
<1> QED BY <1>1, <1>4, <1>5, <1>6

\* Of two names on a walk one comes after the other.
LEMMA Linear ==
    ASSUME NEW f, Mapping(f), NEW n \in Names,
           NEW j \in A!Visited(f, n), NEW k \in A!Visited(f, n)
    PROVE  k \in A!Visited(f, j) \/ j \in A!Visited(f, k)
<1> DEFINE S == {i \in A!Visited(f, n) : i \in A!Visited(f, j) \/ j \in A!Visited(f, i)}
<1>1. n \in S
  BY VisitedStart
<1>2. ASSUME NEW i \in S, i \in DOMAIN f
      PROVE  f[i] \in S
  <2>1. f[i] \in A!Visited(f, n)
    BY <1>2, VisitedOn
  <2>2. CASE i \in A!Visited(f, j)
    BY <2>1, <2>2, <1>2, VisitedOn
  <2>3. CASE j \in A!Visited(f, i)
    <3>1. j = i \/ j \in A!Visited(f, f[i])
      BY <2>3, <1>2, VisitedStep
    <3>2. j = i => f[i] \in A!Visited(f, j)
      BY <1>2, VisitedStep, VisitedStart
    <3> QED BY <2>1, <3>1, <3>2
  <2> QED BY <1>2, <2>2, <2>3
<1>3. S \in SUBSET Names
  BY VisitedNames
<1>4. A!Visited(f, n) \subseteq S
  <2>1. A!Closed(f, S)
    BY <1>2 DEF A!Closed
  <2> HIDE DEF S
  <2> QED BY <1>1, <2>1, <1>3, VisitedLeast
<1> QED BY <1>4

LEMMA OnwardIs ==
    ASSUME NEW f, NEW n
    PROVE  A!Onward(f, n) <=> n \in DOMAIN f /\ n \in A!Visited(f, f[n])
BY DEF A!Onward, A!Reached

\* From a cycle a walk does not leave.
LEMMA CycleStays ==
    ASSUME NEW f, Mapping(f), NEW k, A!Onward(f, k), NEW j \in A!Visited(f, k)
    PROVE  k \in A!Visited(f, j) /\ A!Onward(f, j)
<1>1. k \in DOMAIN f /\ k \in Names /\ k \in A!Visited(f, f[k])
  BY OnwardIs, VisitedStep
<1> DEFINE S == {i \in A!Visited(f, k) : k \in A!Visited(f, i)}
<1>2. k \in S
  BY <1>1, VisitedStart
<1>3. ASSUME NEW i \in S, i \in DOMAIN f
      PROVE  f[i] \in S
  BY <1>1, <1>3, VisitedStep, VisitedOn
<1>4. S \in SUBSET Names
  BY VisitedNames
<1>5. k \in A!Visited(f, j)
  <2>1. A!Closed(f, S)
    BY <1>3 DEF A!Closed
  <2>2. A!Visited(f, k) \subseteq S
    <3> HIDE DEF S
    <3> QED BY <1>2, <2>1, <1>4, VisitedLeast
  <2> QED BY <2>2
<1>6. j \in Names
  BY VisitedNames
<1>7. j \in DOMAIN f
  BY <1>1, <1>5, <1>6, VisitedStop
<1>8. j \in A!Visited(f, f[j])
  <2>1. CASE j = k
    BY <2>1, <1>1
  <2>2. CASE j # k
    <3>1. k \in A!Visited(f, f[j])
      BY <2>2, <1>5, <1>7, VisitedStep
    <3> QED BY <3>1, VisitedTrans
  <2> QED BY <2>1, <2>2
<1> QED BY <1>5, <1>7, <1>8, OnwardIs

\* A walk ends, or runs into a cycle: what it still can visit gets less.
LEMMA EndExists ==
    ASSUME NEW f, Mapping(f), NEW n \in Names
    PROVE  \E k \in A!Visited(f, n) : k \notin DOMAIN f \/ A!Onward(f, k)
<1> DEFINE Size(k) == Cardinality(A!Visited(f, k))
<1>1. \A k : IsFiniteSet(A!Visited(f, k))
  BY VisitedNames, FS_Subset, AliasConstants
<1>2. \A k : Size(k) \in Nat
  BY <1>1, FS_CardinalityType
<1>3. PICK T : T = {Size(k) : k \in A!Visited(f, n)}
  OBVIOUS
<1>4. T \in SUBSET Nat /\ T # {}
  BY <1>2, <1>3, VisitedStart
<1>5. PICK x \in T : \A y \in T : x <= y
  BY <1>4, Least
<1>6. PICK k \in A!Visited(f, n) : Size(k) = x
  BY <1>3
<1>7. ASSUME k \in DOMAIN f, k \notin A!Visited(f, f[k])
      PROVE  FALSE
  <2>1. f[k] \in A!Visited(f, n)
    BY <1>7, VisitedOn
  <2>2. A!Visited(f, f[k]) \subseteq A!Visited(f, k) /\ A!Visited(f, f[k]) # A!Visited(f, k)
    BY <1>7, VisitedStep
  <2>3. Size(f[k]) < Size(k)
    <3>1. \A U, V : IsFiniteSet(V) /\ U \subseteq V /\ U # V =>
                       /\ Cardinality(U) <= Cardinality(V)
                       /\ Cardinality(U) # Cardinality(V)
      BY FS_Subset
    <3>2. Size(f[k]) <= Size(k) /\ Size(f[k]) # Size(k)
      BY <3>1, <2>2, <1>1
    <3>3. Size(f[k]) \in Nat /\ Size(k) \in Nat
      BY <1>2
    <3> HIDE DEF Size
    <3> QED BY <3>2, <3>3
  <2>4. Size(f[k]) \in T
    BY <2>1, <1>3
  <2> HIDE DEF Size
  <2> QED BY <2>3, <2>4, <1>2, <1>5, <1>6
<1> QED BY <1>7, OnwardIs

\* Not both, and it ends in one place.
LEMMA OneEnd ==
    ASSUME NEW f, Mapping(f), NEW n \in Names,
           NEW j \in A!Visited(f, n), j \notin DOMAIN f,
           NEW k \in A!Visited(f, n), k \notin DOMAIN f \/ A!Onward(f, k)
    PROVE  j = k
<1>1. j \in Names /\ k \in Names
  BY VisitedNames
<1>2. CASE k \in A!Visited(f, j)
  BY <1>1, <1>2, VisitedStop
<1>3. CASE j \in A!Visited(f, k)
  <2>1. CASE k \notin DOMAIN f
    BY <1>1, <1>3, <2>1, VisitedStop
  <2>2. CASE A!Onward(f, k)
    BY <2>2, <1>3, CycleStays, OnwardIs
  <2> QED BY <2>1, <2>2
<1> QED BY <1>2, <1>3, Linear

LEMMA ChaseEnds ==
    ASSUME NEW f, Mapping(f), NEW n \in Names
    PROVE  LET e == A!Chase(f, n) IN
           e \in A!Visited(f, n) /\ (e \notin DOMAIN f \/ A!Onward(f, e))
BY EndExists DEF A!Chase

LEMMA ChaseIs ==
    ASSUME NEW f, Mapping(f), NEW n \in Names, NEW j \in A!Visited(f, n), j \notin DOMAIN f
    PROVE  A!Chase(f, n) = j
BY ChaseEnds, OneEnd

LEMMA Agree ==
    ASSUME NEW f, NEW g, Mapping(f), Mapping(g), NEW n \in Names,
           \A k \in A!Visited(f, n) : (k \in DOMAIN f <=> k \in DOMAIN g)
                                      /\ (k \in DOMAIN f => f[k] = g[k])
    PROVE  A!Visited(f, n) = A!Visited(g, n)
<1>1. A!Closed(g, A!Visited(f, n))
  BY VisitedOn DEF A!Closed
<1>2. A!Visited(g, n) \subseteq A!Visited(f, n)
  BY <1>1, VisitedStart, VisitedNames, VisitedLeast
<1>3. A!Closed(f, A!Visited(g, n))
  BY <1>2, VisitedOn DEF A!Closed
<1> QED BY <1>2, <1>3, VisitedStart, VisitedNames, VisitedLeast

LEMMA SubWalk ==
    ASSUME NEW f, NEW g, Mapping(g), DOMAIN f \subseteq DOMAIN g,
           \A k \in DOMAIN f : f[k] = g[k], NEW n \in Names
    PROVE  A!Visited(f, n) \subseteq A!Visited(g, n)
<1>1. A!Closed(f, A!Visited(g, n))
  BY VisitedOn DEF A!Closed
<1> QED BY <1>1, VisitedStart, VisitedNames, VisitedLeast

---------------------------------------------------------------------------
(* Walks that run into a cycle, and who wins there.                        *)

Circles(f, n) == A!Cycle(f, n) # {}

LEMMA CycleNames ==
    ASSUME NEW f, NEW n
    PROVE  A!Cycle(f, n) \subseteq Names
BY VisitedNames DEF A!Cycle, A!Reached

LEMMA InCycle ==
    ASSUME NEW f, Mapping(f), NEW n \in DOMAIN f, NEW k
    PROVE  k \in A!Cycle(f, n) <=> k \in A!Visited(f, n) /\ A!Onward(f, k)
<1>1. A!Reached(f, n) = A!Visited(f, f[n])
  BY DEF A!Reached
<1>2. A!Visited(f, n) = {n} \cup A!Visited(f, f[n])
  BY VisitedStep
<1>3. A!Onward(f, n) <=> n \in A!Visited(f, f[n])
  BY OnwardIs
<1> QED BY <1>1, <1>2, <1>3 DEF A!Cycle

\* The cycle is what is visited from any of its members.
LEMMA CycleIs ==
    ASSUME NEW f, Mapping(f), NEW n, NEW k \in A!Cycle(f, n)
    PROVE  /\ n \in DOMAIN f /\ n \in Names /\ A!Onward(f, k) /\ k \in DOMAIN f
           /\ A!Cycle(f, n) = A!Visited(f, k)
           /\ A!Cycle(f, k) = A!Visited(f, k)
<1>1. n \in DOMAIN f /\ n \in Names
  BY VisitedStep DEF A!Cycle, A!Reached
<1>2. k \in A!Visited(f, n) /\ A!Onward(f, k)
  BY <1>1, InCycle
<1>3. k \in DOMAIN f
  BY <1>2, OnwardIs
<1>4. ASSUME NEW j \in A!Visited(f, k)
      PROVE  j \in A!Cycle(f, n) /\ j \in A!Cycle(f, k)
  <2>1. A!Onward(f, j)
    BY <1>2, CycleStays
  <2>2. j \in A!Visited(f, n)
    BY <1>2, VisitedTrans
  <2> QED BY <1>1, <1>3, <2>1, <2>2, InCycle
<1>5. ASSUME NEW j \in A!Cycle(f, n)
      PROVE  j \in A!Visited(f, k)
  <2>1. j \in A!Visited(f, n) /\ A!Onward(f, j)
    BY <1>1, InCycle
  <2>2. j \in A!Visited(f, k) \/ k \in A!Visited(f, j)
    BY <1>1, <1>2, <2>1, Linear
  <2> QED BY <2>1, <2>2, CycleStays
<1>6. ASSUME NEW j \in A!Cycle(f, k)
      PROVE  j \in A!Visited(f, k)
  BY <1>3, InCycle
<1> QED BY <1>1, <1>2, <1>3, <1>4, <1>5, <1>6

\* A walk that two maps agree on.
LEMMA SameWalk ==
    ASSUME NEW f, NEW g, Mapping(f), Mapping(g), NEW n \in Names,
           \A k \in A!Visited(f, n) : (k \in DOMAIN f <=> k \in DOMAIN g)
                                      /\ (k \in DOMAIN f => f[k] = g[k]),
           NEW k \in A!Visited(f, n)
    PROVE  A!Visited(f, k) = A!Visited(g, k) /\ (A!Onward(f, k) <=> A!Onward(g, k))
<1>1. ASSUME NEW j \in A!Visited(f, n)
      PROVE  A!Visited(f, j) = A!Visited(g, j)
  <2>1. j \in Names /\ A!Visited(f, j) \subseteq A!Visited(f, n)
    BY VisitedNames, VisitedTrans
  <2> QED BY <2>1, Agree
<1>2. k \in DOMAIN f => A!Visited(f, f[k]) = A!Visited(g, g[k])
  BY <1>1, VisitedOn
<1> QED BY <1>1, <1>2, OnwardIs

\* Winner and Meant, for usage counts u and answers f.
UsageOf(u, n) == IF n \in Vocabulary THEN u[n] ELSE 0
WinnerOf(u, S) ==
    CHOOSE n \in S : \A k \in S \ {n} :
        UsageOf(u, n) > UsageOf(u, k) \/ (UsageOf(u, n) = UsageOf(u, k) /\ n < k)
MeantOf(u, f, n) ==
    IF A!Cycle(f, n) = {} THEN A!Chase(f, n) ELSE WinnerOf(u, A!Cycle(f, n))

Counts == [Vocabulary -> 0..MaxUsage]

LEMMA WinnerIsIn ==
    ASSUME NEW u \in Counts, NEW S \in SUBSET Names, S # {}
    PROVE  WinnerOf(u, S) \in S
<1> DEFINE Short(n) == MaxUsage - UsageOf(u, n)
<1>1. \A n : UsageOf(u, n) \in 0..MaxUsage /\ Short(n) \in Nat
  <2>1. MaxUsage \in Nat
    BY AliasConstants
  <2>2. ASSUME NEW n
        PROVE  UsageOf(u, n) \in 0..MaxUsage
    BY <2>1 DEF Counts, UsageOf
  <2> QED BY <2>1, <2>2
<1>2. S \in SUBSET Nat
  BY AliasConstants
<1>3. PICK T : T = {Short(n) : n \in S}
  OBVIOUS
<1>4. T \in SUBSET Nat /\ T # {}
  BY <1>1, <1>3
<1>5. PICK x \in T : \A y \in T : x <= y
  BY <1>4, Least
<1>6. PICK R : R = {n \in S : Short(n) = x}
  OBVIOUS
<1>7. R \in SUBSET Nat /\ R # {}
  BY <1>2, <1>3, <1>6
<1>8. PICK w \in R : \A y \in R : w <= y
  BY <1>7, Least
<1>9. ASSUME NEW k \in S \ {w}
      PROVE  UsageOf(u, w) > UsageOf(u, k) \/ (UsageOf(u, w) = UsageOf(u, k) /\ w < k)
  <2>1. UsageOf(u, w) \in 0..MaxUsage /\ UsageOf(u, k) \in 0..MaxUsage
    BY <1>1
  <2>2. Short(w) = x /\ w \in Nat /\ k \in Nat
    BY <1>2, <1>6, <1>8
  <2>3. Short(w) <= Short(k)
    BY <1>3, <1>5, <2>2
  <2>4. Short(k) = Short(w) => w <= k
    BY <1>6, <1>8, <2>2
  <2> QED BY <2>1, <2>2, <2>3, <2>4, AliasConstants
<1>10. w \in S
  BY <1>6
<1>11. \E n \in S : \A k \in S \ {n} :
         UsageOf(u, n) > UsageOf(u, k) \/ (UsageOf(u, n) = UsageOf(u, k) /\ n < k)
  BY <1>9, <1>10
<1> QED BY <1>11 DEF WinnerOf

---------------------------------------------------------------------------
(* resolve_mapping.                                                        *)

\* f is what is left of p while the cycles are broken: the edges that are gone
\* each led from the winner of a cycle, and a source the loop is past does not
\* run into a cycle any more.
Unbroken(u, p, f, t) ==
    /\ u \in Counts /\ Mapping(p) /\ Mapping(f) /\ t \subseteq DOMAIN p
    /\ DOMAIN f \subseteq DOMAIN p /\ \A k \in DOMAIN f : f[k] = p[k]
    /\ \A s \in DOMAIN p \ DOMAIN f : A!Onward(p, s) /\ s = WinnerOf(u, A!Cycle(p, s))
    /\ \A s \in DOMAIN p \ t : Circles(p, s) => WinnerOf(u, A!Cycle(p, s)) \notin DOMAIN f

\* What the rest still has of cycles the answers have.
LEMMA CyclesAreOld ==
    ASSUME NEW u, NEW p, NEW f, NEW t, Unbroken(u, p, f, t),
           NEW n, NEW k \in A!Cycle(f, n)
    PROVE  n \in DOMAIN f /\ k \in A!Cycle(p, n) /\ A!Cycle(f, n) = A!Cycle(p, n)
<1> USE DEF Unbroken
<1>1. /\ n \in DOMAIN f /\ n \in Names /\ A!Onward(f, k) /\ k \in DOMAIN f /\ k \in Names
      /\ A!Cycle(f, n) = A!Visited(f, k)
  BY CycleIs, CycleNames
<1>2. ASSUME NEW j \in A!Visited(f, k)
      PROVE  (j \in DOMAIN f <=> j \in DOMAIN p) /\ (j \in DOMAIN f => f[j] = p[j])
  BY <1>1, <1>2, CycleStays, OnwardIs
<1>3. k \in A!Visited(f, k)
  BY <1>1, VisitedStart
<1>4. A!Visited(f, k) = A!Visited(p, k) /\ A!Onward(p, k)
  BY <1>1, <1>2, <1>3, SameWalk
<1>5. k \in A!Visited(p, n)
  <2>1. k \in A!Visited(f, n)
    BY <1>1, InCycle
  <2> QED BY <2>1, <1>1, SubWalk
<1>6. k \in A!Cycle(p, n)
  BY <1>1, <1>4, <1>5, InCycle
<1> QED BY <1>1, <1>4, <1>6, CycleIs

\* Gone from a cycle of the answers is its winner or nothing.
LEMMA GoneFrom ==
    ASSUME NEW u, NEW p, NEW f, NEW t, Unbroken(u, p, f, t),
           NEW n \in DOMAIN p, NEW j \in A!Visited(p, n), j \in DOMAIN p, j \notin DOMAIN f
    PROVE  j \in A!Cycle(p, n) /\ j = WinnerOf(u, A!Cycle(p, n))
<1> USE DEF Unbroken
<1>1. A!Onward(p, j) /\ j = WinnerOf(u, A!Cycle(p, j))
  OBVIOUS
<1>2. j \in A!Cycle(p, n)
  BY <1>1, InCycle
<1> QED BY <1>1, <1>2, CycleIs

\* Where the winner still is a source, the whole walk is still there.
LEMMA StillThere ==
    ASSUME NEW u, NEW p, NEW f, NEW t, Unbroken(u, p, f, t),
           NEW n \in DOMAIN p, Circles(p, n), WinnerOf(u, A!Cycle(p, n)) \in DOMAIN f
    PROVE  Circles(f, n)
<1> USE DEF Unbroken
<1> DEFINE w == WinnerOf(u, A!Cycle(p, n))
<1>1. n \in Names /\ n \in A!Visited(p, n)
  BY VisitedStart DEF Mapping
<1>2. ASSUME NEW j \in A!Visited(p, n)
      PROVE  (j \in DOMAIN p <=> j \in DOMAIN f) /\ (j \in DOMAIN p => p[j] = f[j])
  BY <1>2, GoneFrom
<1>3. w \in A!Cycle(p, n)
  BY CycleNames, WinnerIsIn DEF Circles
<1>4. w \in A!Visited(p, n) /\ A!Onward(p, w)
  BY <1>3, InCycle
<1>5. A!Onward(f, w)
  <2> HIDE DEF w
  <2> QED BY <1>1, <1>2, <1>4, SameWalk
<1>6. A!Visited(f, n) = A!Visited(p, n) /\ n \in DOMAIN f
  BY <1>1, <1>2, Agree
<1>7. w \in A!Cycle(f, n)
  BY <1>4, <1>5, <1>6, InCycle
<1> QED BY <1>7 DEF Circles

LEMMA BreakKeeps ==
    ASSUME NEW u, NEW p, NEW f, NEW t, Unbroken(u, p, f, t), NEW src \in t, NEW g,
           g = IF Circles(f, src) THEN A!Restrict(f, DOMAIN f \ {WinnerOf(u, A!Cycle(f, src))}) ELSE f
    PROVE  Unbroken(u, p, g, t \ {src})
<1>1. CASE Circles(f, src)
  <2> DEFINE w == WinnerOf(u, A!Cycle(f, src))
  <2>1. w \in A!Cycle(f, src)
    BY <1>1, CycleNames, WinnerIsIn DEF Circles, Unbroken
  <2>2. A!Cycle(f, src) = A!Cycle(p, src) /\ w \in A!Cycle(p, src)
    <3> HIDE DEF w
    <3> QED BY <2>1, CyclesAreOld
  <2>3. w = WinnerOf(u, A!Cycle(p, src))
    BY <2>2
  <2>4. A!Onward(p, w) /\ w \in DOMAIN p /\ A!Cycle(p, w) = A!Cycle(p, src)
    <3> HIDE DEF w
    <3> QED BY <2>2, CycleIs DEF Unbroken
  <2> HIDE DEF w
  <2>5. DOMAIN g = DOMAIN f \ {w} /\ \A k \in DOMAIN g : g[k] = f[k]
    BY <1>1 DEF A!Restrict, w
  <2>6. Mapping(g)
    <3>1. g = [k \in DOMAIN g |-> g[k]]
      BY <1>1 DEF A!Restrict
    <3> QED BY <2>5, <3>1 DEF Mapping, Unbroken
  <2>7. \A s \in DOMAIN p \ DOMAIN g : A!Onward(p, s) /\ s = WinnerOf(u, A!Cycle(p, s))
    BY <2>3, <2>4, <2>5 DEF Unbroken
  <2>8. \A s \in DOMAIN p \ (t \ {src}) :
          Circles(p, s) => WinnerOf(u, A!Cycle(p, s)) \notin DOMAIN g
    BY <2>3, <2>5 DEF Unbroken
  <2> QED BY <2>5, <2>6, <2>7, <2>8 DEF Unbroken
<1>2. CASE ~Circles(f, src)
  BY <1>2, StillThere DEF Unbroken
<1> QED BY <1>1, <1>2

\* With every source behind it the rest has no cycle, and leads where it should.
LEMMA LeadsAsMeant ==
    ASSUME NEW u, NEW p, NEW f, Unbroken(u, p, f, {}), NEW s \in DOMAIN p
    PROVE  /\ s \in DOMAIN f <=> MeantOf(u, p, s) # s
           /\ s \in DOMAIN f => A!Chase(f, s) = MeantOf(u, p, s) /\ A!Chase(f, s) \notin DOMAIN f
<1> USE DEF Unbroken
<1>1. s \in Names
  BY DEF Mapping
<1>2. ASSUME NEW k, A!Onward(f, k)
      PROVE  FALSE
  <2>1. k \in DOMAIN f /\ k \in Names
    BY <1>2, OnwardIs DEF Mapping
  <2>2. k \in A!Cycle(f, k)
    BY <1>2, <2>1, InCycle, VisitedStart
  <2>3. A!Cycle(f, k) = A!Cycle(p, k) /\ A!Cycle(f, k) = A!Visited(f, k)
    BY <2>2, CyclesAreOld, CycleIs
  <2>4. Circles(p, k) /\ k \in DOMAIN p
    BY <2>1, <2>2, <2>3 DEF Circles
  <2>5. WinnerOf(u, A!Cycle(p, k)) \in A!Cycle(f, k)
    BY <2>3, <2>4, CycleNames, WinnerIsIn DEF Circles
  <2>6. WinnerOf(u, A!Cycle(p, k)) \in DOMAIN f
    BY <2>5, CycleIs
  <2> QED BY <2>4, <2>6
<1> DEFINE e == A!Chase(f, s)
<1>3. e \in A!Visited(f, s) /\ e \notin DOMAIN f /\ e \in A!Visited(p, s) /\ e \in Names
  <2>1. e \in A!Visited(f, s) /\ e \notin DOMAIN f
    BY <1>1, <1>2, ChaseEnds
  <2>2. A!Visited(f, s) \subseteq A!Visited(p, s)
    BY <1>1, SubWalk
  <2> QED BY <2>1, <2>2, VisitedNames
<1> HIDE DEF e
<1>4. CASE A!Cycle(p, s) = {}
  <2>1. \A j \in A!Visited(p, s) : ~A!Onward(p, j)
    BY <1>4, InCycle
  <2>2. s \in A!Visited(p, s)
    BY <1>1, VisitedStart
  <2>3. s \in DOMAIN f
    BY <2>1, <2>2
  <2>4. e \notin DOMAIN p
    BY <1>3, <2>1
  <2>5. A!Chase(p, s) = e
    BY <1>1, <1>3, <2>4, ChaseIs
  <2> QED BY <1>3, <1>4, <2>3, <2>4, <2>5 DEF MeantOf, e
<1>5. CASE A!Cycle(p, s) # {}
  <2> DEFINE w == WinnerOf(u, A!Cycle(p, s))
  <2>1. w \notin DOMAIN f /\ MeantOf(u, p, s) = w
    BY <1>5 DEF Circles, MeantOf
  <2> HIDE DEF w
  <2>2. s \in A!Visited(p, s)
    BY <1>1, VisitedStart
  <2>3. s \notin DOMAIN f => s = w
    BY <2>2, GoneFrom DEF w
  <2>4. e \in DOMAIN p
    <3> PICK k \in A!Cycle(p, s) : TRUE
      BY <1>5
    <3>1. k \in A!Visited(p, s) /\ A!Onward(p, k) /\ k \in DOMAIN p
      BY InCycle, OnwardIs
    <3> QED BY <3>1, <1>1, <1>3, OneEnd
  <2>5. e = w
    BY <1>3, <2>4, GoneFrom DEF w
  <2> QED BY <1>3, <2>1, <2>3, <2>5 DEF e
<1> QED BY <1>4, <1>5

---------------------------------------------------------------------------
(* compose_aliases.                                                        *)

Leveled(f) == Mapping(f) /\ A!Flat(f)

LEMMA FlatIsAcyclic ==
    ASSUME NEW f, Leveled(f), NEW k
    PROVE  ~A!Onward(f, k)
<1> SUFFICES ASSUME A!Onward(f, k)
             PROVE  FALSE
  OBVIOUS
<1>1. k \in DOMAIN f /\ k \in A!Visited(f, f[k]) /\ f[k] \in Names
  BY OnwardIs DEF Leveled, Mapping
<1>2. f[k] \notin DOMAIN f
  BY <1>1 DEF Leveled, A!Flat, A!Range
<1>3. A!Visited(f, f[k]) = {f[k]}
  BY <1>1, <1>2, VisitedStop
<1> QED BY <1>1, <1>2, <1>3

\* g is what the established aliases o have become while the new ones f, but
\* for those in t, are folded in.
Folded(f, o, g, t) ==
    /\ Leveled(f) /\ Leveled(o) /\ Mapping(g) /\ t \subseteq DOMAIN f
    /\ \A k \in Names : ~A!Onward(g, k)
    /\ \A s \in DOMAIN g : \/ s \in DOMAIN f \ t /\ g[s] = f[s]
                           \/ s \in DOMAIN o /\ g[s] = o[s]
    /\ \A s \in DOMAIN f \ t : \/ s \in DOMAIN g /\ g[s] = f[s]
                               \/ s \in A!Visited(g, f[s])
    /\ \A s \in DOMAIN o \ DOMAIN f : s \in DOMAIN g /\ g[s] = o[s]

LEMMA FoldKeeps ==
    ASSUME NEW f, NEW o, NEW g, NEW t, Folded(f, o, g, t), NEW src \in t, NEW h,
           h = IF src \in A!Visited(g, f[src]) THEN g ELSE A!Put(g, src, f[src])
    PROVE  Folded(f, o, h, t \ {src})
<1>1. /\ src \in DOMAIN f /\ src \in Names /\ f[src] \in Names
      /\ \A s \in DOMAIN f : s \in Names /\ f[s] \in Names /\ f[s] \notin DOMAIN f
      /\ \A s \in DOMAIN o : s \in Names /\ o[s] \in Names /\ o[s] \notin DOMAIN o
  BY DEF Folded, Leveled, Mapping, A!Flat, A!Range
<1>2. CASE src \in A!Visited(g, f[src])
  <2>1. \A s \in DOMAIN f \ (t \ {src}) : s \in DOMAIN f \ t \/ s = src
    OBVIOUS
  <2> QED BY <1>2, <2>1 DEF Folded
<1>3. CASE src \notin A!Visited(g, f[src])
  <2>1. /\ DOMAIN h = DOMAIN g \cup {src} /\ h[src] = f[src]
        /\ \A s \in DOMAIN g \ {src} : h[s] = g[s]
        /\ h = [s \in DOMAIN h |-> h[s]]
    BY <1>3 DEF A!Put
  <2>2. Mapping(h)
    BY <1>1, <2>1 DEF Mapping, Folded
  <2>3. A!Visited(h, f[src]) = A!Visited(g, f[src])
    BY <1>1, <1>3, <2>1, <2>2, Agree DEF Folded
  <2>4. ~A!Onward(h, src)
    BY <1>3, <2>1, <2>3, OnwardIs
  <2>5. \A k \in Names : ~A!Onward(h, k)
    <3> SUFFICES ASSUME NEW k \in Names, A!Onward(h, k)
                 PROVE  FALSE
      OBVIOUS
    <3>1. src \notin A!Visited(h, k)
      BY <2>2, <2>4, CycleStays
    <3>2. k \in A!Visited(h, k)
      BY VisitedStart
    <3>3. A!Onward(g, k)
      BY <2>1, <2>2, <3>1, <3>2, SameWalk DEF Folded
    <3> QED BY <3>3 DEF Folded
  <2>6. \A s \in DOMAIN h : \/ s \in DOMAIN f \ (t \ {src}) /\ h[s] = f[s]
                            \/ s \in DOMAIN o /\ h[s] = o[s]
    BY <1>1, <2>1 DEF Folded
  <2>7. \A s \in DOMAIN f \ (t \ {src}) : \/ s \in DOMAIN h /\ h[s] = f[s]
                                          \/ s \in A!Visited(h, f[s])
    <3> SUFFICES ASSUME NEW s \in DOMAIN f \ t, s \in A!Visited(g, f[s])
                 PROVE  s \in A!Visited(h, f[s])
      BY <2>1 DEF Folded
    <3>1. CASE src \notin DOMAIN g
      BY <1>1, <2>1, <2>2, <3>1, SubWalk
    <3>2. CASE src \in DOMAIN g
      <4>1. src \in DOMAIN o
        BY <3>2 DEF Folded
      <4>2. A!Closed(g, Names \ {src})
        <5> SUFFICES ASSUME NEW k \in DOMAIN g
                     PROVE  g[k] \in Names \ {src}
          BY DEF A!Closed
        <5> QED BY <1>1, <4>1 DEF Folded, Mapping
      <4>3. f[s] \in Names \ {src}
        BY <1>1
      <4>4. src \notin A!Visited(g, f[s])
        BY <4>2, <4>3, VisitedLeast
      <4>5. A!Visited(h, f[s]) = A!Visited(g, f[s])
        BY <4>3, <4>4, <2>1, <2>2, Agree DEF Folded
      <4> QED BY <4>5
    <3> QED BY <3>1, <3>2
  <2>8. \A s \in DOMAIN o \ DOMAIN f : s \in DOMAIN h /\ h[s] = o[s]
    BY <2>1, <1>1 DEF Folded
  <2> QED BY <2>2, <2>5, <2>6, <2>7, <2>8 DEF Folded
<1> QED BY <1>2, <1>3

LeadsTo(g, n) == IF n \in DOMAIN g THEN g[n] ELSE n

\* Once all are folded in, the compressed map takes every name to the end of its walk.
LEMMA EndsTogether ==
    ASSUME NEW f, NEW o, NEW g, Folded(f, o, g, {}), NEW h,
           h = [s \in DOMAIN g |-> A!Chase(g, s)]
    PROVE  /\ Mapping(h) /\ A!Flat(h)
           /\ \A s \in DOMAIN f : LeadsTo(h, s) = LeadsTo(h, f[s])
           /\ \A s \in DOMAIN o \ DOMAIN f : LeadsTo(h, s) = LeadsTo(h, o[s])
<1>1. ASSUME NEW n \in Names
      PROVE  /\ LeadsTo(h, n) \in A!Visited(g, n)
             /\ LeadsTo(h, n) \notin DOMAIN g /\ LeadsTo(h, n) \in Names
  <2>1. CASE n \in DOMAIN g
    <3>1. LeadsTo(h, n) = A!Chase(g, n)
      BY <2>1 DEF LeadsTo
    <3>2. A!Chase(g, n) \in A!Visited(g, n) /\ A!Chase(g, n) \in Names
      BY ChaseEnds, VisitedNames DEF Folded
    <3>3. A!Chase(g, n) \notin DOMAIN g
      BY <3>2, ChaseEnds DEF Folded
    <3> QED BY <3>1, <3>2, <3>3
  <2>2. CASE n \notin DOMAIN g
    BY <2>2, VisitedStart DEF LeadsTo
  <2> QED BY <2>1, <2>2
<1>2. ASSUME NEW n \in Names, NEW k \in A!Visited(g, n)
      PROVE  LeadsTo(h, n) = LeadsTo(h, k)
  <2>1. k \in Names
    BY VisitedNames
  <2>2. LeadsTo(h, k) \in A!Visited(g, n)
    BY <1>1, <2>1, VisitedTrans DEF Folded
  <2> QED BY <1>1, <2>1, <2>2, OneEnd DEF Folded
<1>3. Mapping(h) /\ A!Flat(h)
  <2>1. \A s \in DOMAIN h : s \in Names /\ h[s] = LeadsTo(h, s)
    BY DEF LeadsTo, Folded, Mapping
  <2>2. DOMAIN h = DOMAIN g
    OBVIOUS
  <2> QED BY <1>1, <2>1, <2>2 DEF Mapping, A!Flat, A!Range
<1>4. ASSUME NEW s \in DOMAIN g, g[s] \in Names
      PROVE  LeadsTo(h, s) = LeadsTo(h, g[s])
  BY <1>2, <1>4, VisitedStep, VisitedStart DEF Folded
<1>5. ASSUME NEW s \in DOMAIN f
      PROVE  LeadsTo(h, s) = LeadsTo(h, f[s])
  <2>1. f[s] \in Names
    BY DEF Folded, Leveled, Mapping
  <2>2. CASE s \in DOMAIN g /\ g[s] = f[s]
    BY <2>1, <2>2, <1>4
  <2>3. CASE s \in A!Visited(g, f[s])
    BY <2>1, <2>3, <1>2
  <2> QED BY <2>2, <2>3 DEF Folded
<1>6. ASSUME NEW s \in DOMAIN o \ DOMAIN f
      PROVE  LeadsTo(h, s) = LeadsTo(h, o[s])
  <2>1. o[s] \in Names /\ s \in DOMAIN g /\ g[s] = o[s]
    BY DEF Folded, Leveled, Mapping
  <2> QED BY <2>1, <1>4
<1> QED BY <1>3, <1>5, <1>6

---------------------------------------------------------------------------
(* apply_aliases.                                                          *)

\* The loop of apply_aliases up to caption entry n.
IsLoop(out, tags, n) ==
    out = [i \in 0..n |-> IF i = 0 THEN << >> ELSE A!Expand(out[i - 1], tags[i])]

LEMMA LoopExists ==
    ASSUME NEW tags, NEW n \in Nat
    PROVE  \E out : IsLoop(out, tags, n)
<1> PICK T : T = {k \in Nat : ~\E out : IsLoop(out, tags, k)}
  OBVIOUS
<1>1. ASSUME T # {}
      PROVE  FALSE
  <2> PICK x \in T : \A y \in T : x <= y
    <3> T \in SUBSET Nat
      OBVIOUS
    <3> QED BY <1>1, Least
  <2>1. x \in Nat /\ ~\E out : IsLoop(out, tags, x)
    OBVIOUS
  <2>2. CASE x = 0
    <3> DEFINE g == [i \in 0..0 |-> << >>]
    <3>1. \A i \in 0..0 : i = 0
      OBVIOUS
    <3>2. g = [i \in 0..0 |-> IF i = 0 THEN << >> ELSE A!Expand(g[i - 1], tags[i])]
      BY <3>1, Zenon
    <3> QED BY <2>1, <2>2, <3>2 DEF IsLoop
  <2>3. CASE x # 0
    <3>1. x - 1 \in Nat /\ ~(x <= x - 1)
      BY <2>1, <2>3
    <3>2. PICK f : IsLoop(f, tags, x - 1)
      BY <3>1
    <3> DEFINE g == [i \in 0..x |-> IF i = x THEN A!Expand(f[x - 1], tags[x]) ELSE f[i]]
    <3>3. ASSUME NEW i \in 0..x
          PROVE  g[i] = IF i = 0 THEN << >> ELSE A!Expand(g[i - 1], tags[i])
      <4>1. i = x => g[i] = A!Expand(f[x - 1], tags[x]) /\ g[i - 1] = f[x - 1]
        BY <3>1, <2>3
      <4>2. ASSUME i # x
            PROVE  g[i] = f[i] /\ i \in 0..(x - 1) /\ (i # 0 => g[i - 1] = f[i - 1])
        BY <3>1, <4>2
      <4>3. i # x => g[i] = IF i = 0 THEN << >> ELSE A!Expand(f[i - 1], tags[i])
        BY <4>2, <3>2 DEF IsLoop
      <4> HIDE DEF g
      <4> QED BY <4>1, <4>2, <4>3, <2>3
    <3>4. g = [i \in 0..x |-> g[i]]
      OBVIOUS
    <3>5. IsLoop(g, tags, x)
      <4> HIDE DEF g
      <4> QED BY <3>3, <3>4 DEF IsLoop
    <3> QED BY <3>5, <2>1
  <2> QED BY <2>2, <2>3
<1> QED BY <1>1

LEMMA AddNewAdds ==
    ASSUME NEW S, NEW out \in Seq(S), NEW n \in S
    PROVE  LET new == A!AddNew(out, n) IN
           /\ new \in Seq(S) /\ A!Range(new) = A!Range(out) \cup {n}
           /\ A!IsInjective(out) => A!IsInjective(new)
<1>1. CASE n \in A!Range(out)
  BY <1>1 DEF A!AddNew
<1>2. CASE n \notin A!Range(out)
  <2> PICK new : new = Append(out, n)
    OBVIOUS
  <2>1. /\ new \in Seq(S) /\ DOMAIN new = DOMAIN out \cup {Len(out) + 1}
        /\ Len(out) + 1 \notin DOMAIN out /\ new[Len(out) + 1] = n
        /\ \A i \in DOMAIN out : new[i] = out[i]
    OBVIOUS
  <2>2. A!AddNew(out, n) = new
    BY <1>2 DEF A!AddNew
  <2>3. A!Range(new) = A!Range(out) \cup {n}
    BY <2>1 DEF A!Range
  <2>4. A!IsInjective(out) => A!IsInjective(new)
    BY <1>2, <2>1 DEF A!Range, A!IsInjective
  <2> QED BY <2>1, <2>2, <2>3, <2>4
<1> QED BY <1>1, <1>2

\* What a name adds to a caption.
Adds(n) == IF n \in Marked THEN {n} ELSE {n, A!Canonical(n)}

LEMMA ExpandAdds ==
    ASSUME NEW S, NEW out \in Seq(S), NEW n, Adds(n) \subseteq S
    PROVE  LET new == A!Expand(out, n) IN
           /\ new \in Seq(S) /\ A!Range(new) = A!Range(out) \cup Adds(n)
           /\ A!IsInjective(out) => A!IsInjective(new)
<1>1. PICK c : c = A!Canonical(n)
  OBVIOUS
<1>2. PICK one : one = A!AddNew(out, n)
  OBVIOUS
<1>3. one \in Seq(S) /\ A!Range(one) = A!Range(out) \cup {n} /\ n \in S
      /\ (A!IsInjective(out) => A!IsInjective(one))
  BY <1>2, AddNewAdds DEF Adds
<1>4. CASE n \in Marked
  BY <1>2, <1>3, <1>4 DEF A!Expand, Adds
<1>5. CASE n \notin Marked
  <2>1. c \in S
    BY <1>1, <1>5 DEF Adds
  <2>2. A!Expand(out, n) = A!AddNew(one, c)
    BY <1>1, <1>2, <1>5 DEF A!Expand
  <2>3. Adds(n) = {n, c}
    BY <1>1, <1>5 DEF Adds
  <2> PICK two : two = A!AddNew(one, c)
    OBVIOUS
  <2>4. two \in Seq(S) /\ A!Range(two) = A!Range(one) \cup {c}
        /\ (A!IsInjective(one) => A!IsInjective(two))
    <3>1. one \in Seq(S)
      BY <1>3
    <3> QED BY <3>1, <2>1, AddNewAdds
  <2> QED BY <2>2, <2>3, <2>4, <1>3
<1> QED BY <1>4, <1>5

LEMMA LoopGrows ==
    ASSUME NEW tags, NEW n \in Nat, NEW out, IsLoop(out, tags, n), NEW i \in 0..n
    PROVE  /\ \A x : x \in A!Range(out[i]) <=> \E j \in 1..i : x \in Adds(tags[j])
           /\ A!IsInjective(out[i])
<1> PICK S : \A j \in 1..n : Adds(tags[j]) \subseteq S
  <2> WITNESS UNION {Adds(tags[j]) : j \in 1..n}
  <2> QED OBVIOUS
<1> DEFINE Has(s, k) == \A x : x \in A!Range(s) <=> \E j \in 1..k : x \in Adds(tags[j])
           Good(k) == out[k] \in Seq(S) /\ A!IsInjective(out[k]) /\ Has(out[k], k)
<1>1. Good(0)
  <2>1. out[0] = << >>
    BY DEF IsLoop
  <2>2. A!Range(<< >>) = {} /\ A!IsInjective(<< >>) /\ << >> \in Seq(S)
    BY DEF A!Range, A!IsInjective
  <2> QED BY <2>1, <2>2
<1>2. ASSUME NEW k \in 1..n, Good(k - 1)
      PROVE  Good(k)
  <2> PICK before : before = out[k - 1]
    OBVIOUS
  <2> PICK new : new = A!Expand(before, tags[k])
    OBVIOUS
  <2>1. out[k] = new
    BY DEF IsLoop
  <2>2. before \in Seq(S) /\ A!IsInjective(before) /\ Has(before, k - 1)
    BY <1>2
  <2>3. Adds(tags[k]) \subseteq S
    OBVIOUS
  <2>4. new \in Seq(S) /\ A!Range(new) = A!Range(before) \cup Adds(tags[k])
        /\ (A!IsInjective(before) => A!IsInjective(new))
    <3>1. before \in Seq(S)
      BY <2>2
    <3> HIDE DEF Has
    <3> QED BY <2>3, <3>1, ExpandAdds
  <2>5. Has(new, k)
    <3>1. \A j : j \in 1..k <=> j \in 1..(k - 1) \/ j = k
      OBVIOUS
    <3> QED BY <2>2, <2>4, <3>1
  <2> HIDE DEF Has
  <2> QED BY <2>1, <2>2, <2>4, <2>5
<1> PICK T : T = {k \in 0..n : ~Good(k)}
  OBVIOUS
<1>3. ASSUME T # {}
      PROVE  FALSE
  <2> HIDE DEF Good
  <2> PICK x \in T : \A y \in T : x <= y
    <3> T \in SUBSET Nat
      OBVIOUS
    <3> QED BY <1>3, Least
  <2>1. x \in 1..n /\ x - 1 \in 0..n /\ ~(x <= x - 1)
    BY <1>1
  <2> QED BY <2>1, <1>2
<1> QED BY <1>3

LEMMA AllGrow ==
    ASSUME NEW tags, Len(tags) \in Nat, DOMAIN tags = 1..Len(tags)
    PROVE  A!Grows(tags)
<1> PICK n : n = Len(tags)
  OBVIOUS
<1>1. \E out : IsLoop(out, tags, n)
  BY LoopExists
<1>2. PICK out : IsLoop(out, tags, n) /\ A!ApplyAliases(tags) = out[n]
  BY <1>1 DEF IsLoop, A!ApplyAliases
<1>3. /\ \A x : x \in A!Range(out[n]) <=> \E j \in 1..n : x \in Adds(tags[j])
      /\ A!IsInjective(out[n])
  BY <1>2, LoopGrows
<1>4. A!Range(tags) = {tags[j] : j \in 1..n}
  BY DEF A!Range
<1> QED BY <1>2, <1>3, <1>4 DEF A!Grows, Adds

---------------------------------------------------------------------------
(* The invariant: each loop, and what it has done when it is over.         *)

\* No name that no step may touch.
Clean(f) == DOMAIN f \subseteq Names \ Marked /\ f \in [DOMAIN f -> Names \ Marked]

\* What ResolvesAsMeant and ComposeKeepsAliases say, of maps.
Resolved(u, p, f) ==
    f = [s \in {n \in DOMAIN p : MeantOf(u, p, n) # n} |-> MeantOf(u, p, s)] /\ A!Flat(f)

Together(f, o, h) ==
    /\ A!Flat(h)
    /\ \A s \in DOMAIN f : LeadsTo(h, s) = LeadsTo(h, f[s])
    /\ \A s \in DOMAIN o \ DOMAIN f : LeadsTo(h, s) = LeadsTo(h, o[s])

AliasShape ==
    /\ stage \in {"answers", "cycles", "compose", "done"} /\ usage \in Counts
    /\ Clean(pairs) /\ Clean(m) /\ Clean(old) /\ Clean(merged)
    /\ todo \subseteq DOMAIN pairs

AliasInv ==
    /\ AliasShape
    /\ stage = "cycles" => Unbroken(usage, pairs, m, todo)
    /\ stage = "compose" => Resolved(usage, pairs, m) /\ Folded(m, old, merged, todo)
    /\ stage = "done" => Together(m, old, merged)

LEMMA CleanIsMapping ==
    ASSUME NEW f, Clean(f)
    PROVE  Mapping(f)
BY DEF Clean, Mapping

LEMMA CleanPut ==
    ASSUME NEW f, Clean(f), NEW n \in Names \ Marked, NEW k \in Names \ Marked
    PROVE  Clean(A!Put(f, n, k))
BY DEF Clean, A!Put

LEMMA CleanEmpty == Clean(A!Empty)
BY DEF Clean, A!Empty

LEMMA CleanChase ==
    ASSUME NEW f, Clean(f), NEW h, h = [s \in DOMAIN f |-> A!Chase(f, s)]
    PROVE  Clean(h)
<1> SUFFICES ASSUME NEW s \in DOMAIN f
             PROVE  A!Chase(f, s) \in Names \ Marked
  BY DEF Clean
<1>1. s \in Names \ Marked
  BY DEF Clean
<1>2. A!Closed(f, Names \ Marked)
  BY DEF Clean, A!Closed
<1>3. A!Chase(f, s) \in A!Visited(f, s)
  BY <1>1, ChaseEnds, CleanIsMapping
<1>4. A!Visited(f, s) \subseteq Names \ Marked
  BY <1>1, <1>2, VisitedLeast
<1> QED BY <1>3, <1>4

LEMMA AliasStart == A!Init => AliasInv
<1> SUFFICES ASSUME A!Init PROVE AliasInv
  OBVIOUS
<1>1. usage \in Counts
  BY AliasConstants DEF A!Init, Counts
<1>2. AliasShape
  BY <1>1, CleanEmpty DEF AliasShape, A!Init
<1> QED BY <1>2 DEF AliasInv, A!Init

LEMMA AliasSteps ==
    ASSUME AliasInv, [A!Next]_aliasVars
    PROVE  AliasInv'
<1> USE DEF AliasInv
<1>1. ASSUME NEW s \in Names, NEW c \in Names, A!SanitizePair(s, c)
      PROVE  AliasInv'
  <2> USE <1>1 DEF A!SanitizePair
  <2>1. s \in Names \ Marked /\ c \in Names \ Marked
    BY DEF A!Usable
  <2>2. Clean(pairs')
    BY <2>1, CleanPut DEF AliasShape
  <2>3. DOMAIN pairs \subseteq DOMAIN pairs'
    BY DEF A!Put
  <2>4. AliasShape'
    BY <2>2, <2>3 DEF AliasShape
  <2> QED BY <2>4
<1>2. ASSUME A!StartResolve
      PROVE  AliasInv'
  <2> USE <1>2 DEF A!StartResolve
  <2>1. usage' \in Counts
    BY DEF Counts
  <2>2. AliasShape'
    BY <2>1 DEF AliasShape
  <2>3. Unbroken(usage', pairs', m', todo')
    BY <2>1, CleanIsMapping DEF Unbroken, AliasShape
  <2> QED BY <2>2, <2>3
<1>3. ASSUME NEW s \in todo, A!BreakCycle(s)
      PROVE  AliasInv'
  <2> USE <1>3 DEF A!BreakCycle
  <2>1. Unbroken(usage, pairs, m, todo)
    OBVIOUS
  <2>2. A!Winner(A!Cycle(m, s)) = WinnerOf(usage, A!Cycle(m, s))
    BY DEF A!Winner, WinnerOf, A!Usage, UsageOf
  <2>3. m' = IF Circles(m, s) THEN A!Restrict(m, DOMAIN m \ {WinnerOf(usage, A!Cycle(m, s))}) ELSE m
    BY <2>2 DEF Circles
  <2>4. Unbroken(usage, pairs, m', todo \ {s})
    BY <2>1, <2>3, BreakKeeps
  <2>5. Clean(m')
    BY <2>4 DEF Unbroken, Mapping, Clean, AliasShape
  <2>6. AliasShape'
    BY <2>5 DEF AliasShape
  <2> QED BY <2>4, <2>6
<1>4. ASSUME A!Resolve
      PROVE  AliasInv'
  <2> USE <1>4 DEF A!Resolve
  <2>1. Unbroken(usage, pairs, m, {})
    OBVIOUS
  <2>2. \A s \in DOMAIN pairs :
          /\ s \in DOMAIN m <=> MeantOf(usage, pairs, s) # s
          /\ s \in DOMAIN m => A!Chase(m, s) = MeantOf(usage, pairs, s) /\ A!Chase(m, s) \notin DOMAIN m
    BY <2>1, LeadsAsMeant
  <2>3. DOMAIN m \subseteq DOMAIN pairs
    BY <2>1 DEF Unbroken
  <2>4. m' = [s \in DOMAIN m |-> A!Chase(m, s)] /\ DOMAIN m' = DOMAIN m
        /\ \A s \in DOMAIN m : m'[s] = A!Chase(m, s)
    OBVIOUS
  <2>5. DOMAIN m = {n \in DOMAIN pairs : MeantOf(usage, pairs, n) # n}
    BY <2>2, <2>3
  <2>6. A!Flat(m')
    BY <2>2, <2>3, <2>4 DEF A!Flat, A!Range
  <2>7. Resolved(usage', pairs', m')
    BY <2>2, <2>4, <2>5, <2>6 DEF Resolved
  <2>8. Clean(m')
    BY CleanChase DEF AliasShape
  <2>9. Clean(old') /\ A!Flat(old')
    BY DEF A!FlatMaps, Clean
  <2>10. AliasShape'
    BY <2>3, <2>4, <2>8, <2>9 DEF AliasShape
  <2>11. Leveled(m') /\ Leveled(old')
    BY <2>6, <2>8, <2>9, CleanIsMapping DEF Leveled
  <2>12. \A k \in Names : ~A!Onward(old', k)
    BY <2>11, FlatIsAcyclic
  <2>13. Folded(m', old', merged', todo')
    <3>1. merged' = old' /\ todo' = DOMAIN m'
      BY <2>4
    <3> QED BY <3>1, <2>11, <2>12 DEF Folded, Leveled
  <2> QED BY <2>7, <2>10, <2>13
<1>5. ASSUME NEW s \in todo, A!FoldPair(s)
      PROVE  AliasInv'
  <2> USE <1>5 DEF A!FoldPair
  <2>1. Folded(m, old, merged, todo) /\ Resolved(usage, pairs, m)
    OBVIOUS
  <2>2. Folded(m, old, merged', todo \ {s})
    BY <2>1, FoldKeeps
  <2>3. s \in Names \ Marked /\ m[s] \in Names \ Marked
    BY <2>1 DEF Folded, AliasShape, Clean
  <2>4. Clean(merged')
    BY <2>3, CleanPut DEF AliasShape
  <2>5. AliasShape'
    BY <2>4 DEF AliasShape
  <2> QED BY <2>1, <2>2, <2>5
<1>6. ASSUME A!Compose
      PROVE  AliasInv'
  <2> USE <1>6 DEF A!Compose
  <2>1. Folded(m, old, merged, {})
    OBVIOUS
  <2>2. Together(m, old, merged')
    BY <2>1, EndsTogether DEF Together
  <2>3. Clean(merged')
    BY CleanChase DEF AliasShape
  <2>4. AliasShape'
    BY <2>3 DEF AliasShape
  <2> QED BY <2>2, <2>4
<1>7. CASE UNCHANGED aliasVars
  BY <1>7 DEF aliasVars, AliasShape
<1> QED BY <1>1, <1>2, <1>3, <1>4, <1>5, <1>6, <1>7 DEF A!Next

LEMMA AliasInvariance == ServicesSpec => []AliasInv
<1>1. ServicesInit => AliasInv
  BY AliasStart DEF ServicesInit
<1>2. AliasInv /\ [ServicesNext]_vars => AliasInv'
  BY EachLane, AliasSteps
<1> QED
  BY <1>1, <1>2, PTL DEF ServicesSpec

\* resolve_mapping: for any answers, however their chains and cycles run together
\* and in whatever order the loop takes them, each source leads to the end of its
\* chain or to the most used member of its cycle, and no canonical is a source.
THEOREM MappingsResolveAsMeant == ServicesSpec => []ResolvesAsMeant
<1>1. \A n : A!Meant(n) = MeantOf(usage, pairs, n)
  BY DEF A!Meant, MeantOf, A!Winner, WinnerOf, A!Usage, UsageOf
<1>2. AliasInv => ResolvesAsMeant
  BY <1>1 DEF AliasInv, Resolved, ResolvesAsMeant, A!ResolvesAsMeant
<1> QED
  BY <1>2, AliasInvariance, PTL

\* compose_aliases: the folded map is flat, and each new pair and each established
\* one that no new pair overrides has its two names under one canonical.
THEOREM ComposingKeepsAliases == ServicesSpec => []ComposeKeepsAliases
<1>1. \A n : A!Canonical(n) = LeadsTo(merged, n)
  BY DEF A!Canonical, LeadsTo
<1>2. AliasInv => ComposeKeepsAliases
  BY <1>1 DEF AliasInv, Together, ComposeKeepsAliases, A!ComposeKeepsAliases
<1> QED
  BY <1>2, AliasInvariance, PTL

\* apply_aliases, on captions of any length: nothing is lost, nothing is there
\* twice, and what comes are the canonicals.
THEOREM CaptionsOnlyGrow ==
    ServicesSpec => [](CaptionsGrow /\ \A tags \in Seq(Names) : A!Grows(tags))
<1>1. ASSUME NEW tags \in [1..2 -> Names]
      PROVE  A!Grows(tags)
  <2>1. DOMAIN tags = 1..2 /\ Len(tags) = 2
    OBVIOUS
  <2> QED BY <2>1, AllGrow
<1>2. CaptionsGrow
  BY <1>1 DEF CaptionsGrow, A!CaptionsGrow
<1>3. ASSUME NEW tags \in Seq(Names)
      PROVE  A!Grows(tags)
  <2>1. Len(tags) \in Nat /\ DOMAIN tags = 1..Len(tags)
    OBVIOUS
  <2> QED BY <2>1, AllGrow
<1>4. CaptionsGrow /\ \A tags \in Seq(Names) : A!Grows(tags)
  BY <1>2, <1>3
<1> QED BY <1>4, PTL
=============================================================================
