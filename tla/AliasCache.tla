----------------------------- MODULE AliasCache -----------------------------
(***************************************************************************)
(* get_alias_map of lib/tag_merge.py: every caption reads the alias map    *)
(* through a cache with a time to live that worker threads fill without a  *)
(* lock, while requests rebuild the table and invalidate the cache.  A     *)
(* version of the table is its number.                                     *)
(***************************************************************************)
EXTENDS Integers, FiniteSets

CONSTANTS
    Readers,        \* threads that caption
    TTL,            \* _ALIAS_TTL
    MaxLoad,        \* the longest a call of get_alias_map takes
    MaxClock, MaxRebuilds, MaxFailedLoads

VARIABLES
    clock,
    table,          \* version of tag_aliases
    cacheAt,        \* _alias_cache["at"]
    cacheMap,       \* _alias_cache["map"]
    reader,         \* calls of get_alias_map
    toInvalidate,   \* rebuilds that are committed and have not invalidated
    failedLoads,
    replacedAt      \* history: when each version was replaced

aliasCacheVars ==
    <<clock, table, cacheAt, cacheMap, reader, toInvalidate, failedLoads, replacedAt>>

LongAgo == -(TTL + 1)       \* 0.0 seconds since the epoch
NotReading == [pc |-> "none"]

\* The first map is the empty one; the table is empty as well.
Init ==
    /\ clock = 0 /\ table = 0 /\ replacedAt = << >>
    /\ cacheAt = LongAgo /\ cacheMap = 0
    /\ reader = [r \in Readers |-> NotReading]
    /\ toInvalidate = 0 /\ failedLoads = 0

Goes(r, call) == reader' = [reader EXCEPT ![r] = call]

Tick ==
    /\ clock < MaxClock /\ clock' = clock + 1
    /\ \A r \in Readers : reader[r] # NotReading => clock - reader[r].at < MaxLoad
    /\ UNCHANGED <<table, cacheAt, cacheMap, reader, toInvalidate, failedLoads, replacedAt>>

Rebuild ==
    /\ table < MaxRebuilds
    /\ table' = table + 1 /\ replacedAt' = [v \in 0..table |-> IF v = table THEN clock ELSE replacedAt[v]]
    /\ toInvalidate' = toInvalidate + 1
    /\ UNCHANGED <<clock, cacheAt, cacheMap, reader, failedLoads>>

Invalidate ==
    /\ toInvalidate > 0 /\ toInvalidate' = toInvalidate - 1
    /\ cacheAt' = LongAgo
    /\ UNCHANGED <<clock, table, cacheMap, reader, failedLoads, replacedAt>>

\* Mutant: every use of the cache prolongs it.
BugCheckTTL(r) ==
    /\ reader[r] = NotReading
    /\ Goes(r, [pc |-> IF clock - cacheAt > TTL THEN "load" ELSE "stamp", at |-> clock])
    /\ UNCHANGED <<clock, table, cacheAt, cacheMap, toInvalidate, failedLoads, replacedAt>>

CheckTTL(r) ==
    /\ reader[r] = NotReading
    /\ Goes(r, [pc |-> IF clock - cacheAt > TTL THEN "load" ELSE "return", at |-> clock])
    /\ UNCHANGED <<clock, table, cacheAt, cacheMap, toInvalidate, failedLoads, replacedAt>>

\* A load that fails keeps the last known map.
LoadAliases(r) ==
    /\ reader[r].pc = "load"
    /\ \/ Goes(r, [pc |-> "keep", at |-> reader[r].at, map |-> table]) /\ UNCHANGED failedLoads
       \/ /\ Goes(r, [pc |-> "stamp", at |-> reader[r].at])
          /\ failedLoads < MaxFailedLoads /\ failedLoads' = failedLoads + 1
    /\ UNCHANGED <<clock, table, cacheAt, cacheMap, toInvalidate, replacedAt>>

KeepMap(r) ==
    /\ reader[r].pc = "keep" /\ cacheMap' = reader[r].map
    /\ Goes(r, [pc |-> "stamp", at |-> reader[r].at])
    /\ UNCHANGED <<clock, table, cacheAt, toInvalidate, failedLoads, replacedAt>>

\* The stamp is the time the call began, over whatever was set meanwhile.
Stamp(r) ==
    /\ reader[r].pc = "stamp" /\ cacheAt' = reader[r].at
    /\ Goes(r, [pc |-> "return", at |-> reader[r].at])
    /\ UNCHANGED <<clock, table, cacheMap, toInvalidate, failedLoads, replacedAt>>

ReturnMap(r) ==
    /\ reader[r].pc = "return" /\ Goes(r, NotReading)
    /\ UNCHANGED <<clock, table, cacheAt, cacheMap, toInvalidate, failedLoads, replacedAt>>

Next ==
    \/ Tick \/ Rebuild \/ Invalidate
    \/ \E r \in Readers : CheckTTL(r) \/ LoadAliases(r) \/ KeepMap(r) \/ Stamp(r) \/ ReturnMap(r)

Spec == Init /\ [][Next]_aliasCacheVars

---------------------------------------------------------------------------

TypeOK ==
    /\ {table, cacheMap} \subseteq 0..MaxRebuilds /\ DOMAIN replacedAt = 0..(table - 1)
    /\ cacheAt \in (0..MaxClock) \cup {LongAgo} /\ toInvalidate \in 0..MaxRebuilds
    /\ \A r \in Readers : reader[r].pc \in {"none", "load", "keep", "stamp", "return"}

\* A caption may be given an alias map that was replaced, as a load that began
\* before an invalidation undoes it; but never one that was replaced longer ago
\* than the time to live and one load before the call began, unless loads fail.
MapsAreRecent ==
    \A r \in Readers :
        reader[r].pc = "return" /\ failedLoads = 0 /\ cacheMap < table =>
            replacedAt[cacheMap] >= reader[r].at - TTL - MaxLoad
=============================================================================
