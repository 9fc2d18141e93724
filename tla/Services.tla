------------------------------ MODULE Services ------------------------------
(***************************************************************************)
(* The services around the queue side by side: they share no state, so     *)
(* that each behaviour runs one of them, its lane, and leaves the others   *)
(* where they begin.  Detection is extended, so that its properties are    *)
(* those DetectionProofs proves; the others are instances.                 *)
(***************************************************************************)
EXTENDS Detection

CONSTANTS
    Users, Photos, Crawls, MaxStarts, MaxTroubles,
    Names, Vocabulary, Marked, Twins, MaxUsage,
    Workers, Places, Nobody, MinInterval, MaxLocates, MaxLost,
    Readers, TTL, MaxLoad, MaxClock, MaxRebuilds, MaxFailedLoads,
    Jobs, Watched, Threads, MaxTouches, MaxHung,
    Polls, MaxClicks, MaxFailedCalls

ASSUME DetectionConstants == MaxFiles \in Nat /\ MaxTime \in Nat /\ MaxCalls \in Nat
ASSUME GeoConstants == MinInterval \in Nat /\ IsFiniteSet(Workers) /\ Nobody \notin Workers
ASSUME AliasConstants ==
    /\ Names \subseteq Nat /\ IsFiniteSet(Names) /\ MaxUsage \in Nat
    /\ Vocabulary \subseteq Names
ASSUME CacheConstants ==
    TTL \in Nat /\ MaxLoad \in Nat /\ MaxClock \in Nat /\ MaxRebuilds \in Nat
ASSUME OrderConstants == MaxTouches \in Nat

VARIABLES
    lane,
    running, crawl, pending, auto, starts, troubles,
    stage, usage, pairs, m, todo, old, merged,
    known, locating, net, since, begun, lost, lookups,
    clock, table, cacheAt, cacheMap, reader, toInvalidate, failedLoads, replacedAt,
    line, holds, hung, stuck, touched,
    server, post, poll, shown, timer, clicks, failedCalls

B == INSTANCE Backfill
A == INSTANCE Aliases
G == INSTANCE GeoCache
C == INSTANCE AliasCache
Q == INSTANCE QueueOrder
W == INSTANCE ScanWidget

backfillVars == <<running, crawl, pending, auto, starts, troubles>>
aliasVars == <<stage, usage, pairs, m, todo, old, merged>>
geoVars == <<known, locating, net, since, begun, lost, lookups>>
aliasCacheVars == <<clock, table, cacheAt, cacheMap, reader, toInvalidate, failedLoads, replacedAt>>
orderVars == <<line, holds, hung, stuck, touched>>
widgetVars == <<server, post, poll, shown, timer, clicks, failedCalls>>
vars == <<lane, detectVars, backfillVars, aliasVars, geoVars, aliasCacheVars, orderVars, widgetVars>>

ServicesInit ==
    /\ lane \in {"detection", "backfill", "aliases", "geo", "alias cache", "order", "widget"}
    /\ Init /\ B!Init /\ A!Init /\ G!Init /\ C!Init /\ Q!Init /\ W!Init

Detecting ==
    /\ lane = "detection" /\ Next
    /\ UNCHANGED <<lane, backfillVars, aliasVars, geoVars, aliasCacheVars, orderVars, widgetVars>>

Backfilling ==
    /\ lane = "backfill" /\ B!Next
    /\ UNCHANGED <<lane, detectVars, aliasVars, geoVars, aliasCacheVars, orderVars, widgetVars>>

Consolidating ==
    /\ lane = "aliases" /\ A!Next
    /\ UNCHANGED <<lane, detectVars, backfillVars, geoVars, aliasCacheVars, orderVars, widgetVars>>

Geocoding ==
    /\ lane = "geo" /\ G!Next
    /\ UNCHANGED <<lane, detectVars, backfillVars, aliasVars, aliasCacheVars, orderVars, widgetVars>>

ReadingAliases ==
    /\ lane = "alias cache" /\ C!Next
    /\ UNCHANGED <<lane, detectVars, backfillVars, aliasVars, geoVars, orderVars, widgetVars>>

Queueing ==
    /\ lane = "order" /\ Q!Next
    /\ UNCHANGED <<lane, detectVars, backfillVars, aliasVars, geoVars, aliasCacheVars, widgetVars>>

Watching ==
    /\ lane = "widget" /\ W!Next
    /\ UNCHANGED <<lane, detectVars, backfillVars, aliasVars, geoVars, aliasCacheVars, orderVars>>

ServicesNext ==
    \/ Detecting \/ Backfilling \/ Consolidating \/ Geocoding
    \/ ReadingAliases \/ Queueing \/ Watching

\* The fairness of each module, in its lane.
ServicesSpec ==
    /\ ServicesInit /\ [][ServicesNext]_vars
    /\ WF_detectVars(lane = "detection" /\ LoopStep)
    /\ \A c \in Crawls : WF_backfillVars(lane = "backfill" /\ B!CrawlStep(c))
    /\ WF_backfillVars(lane = "backfill" /\ B!Work)
    /\ WF_backfillVars(lane = "backfill" /\ B!AutoStep)
    /\ \A t \in Threads : /\ WF_orderVars(lane = "order" /\ Q!ClaimStep(t))
                          /\ WF_orderVars(lane = "order" /\ Q!EndStep(t))
    /\ WF_orderVars(lane = "order" /\ Q!ReapStep) /\ WF_orderVars(lane = "order" /\ Q!Tick)
    /\ \A p \in Polls : WF_widgetVars(lane = "widget" /\ W!PollStep(p))
    /\ WF_widgetVars(lane = "widget" /\ W!PostStep) /\ WF_widgetVars(lane = "widget" /\ W!CrawlStep)

ServicesTypeOK == TypeOK /\ B!TypeOK /\ A!TypeOK /\ G!TypeOK /\ C!TypeOK /\ Q!TypeOK /\ W!TypeOK

CompleteWhenAlone == B!CompleteWhenAlone
ScansEnd == B!ScansEnd
AutoclusterEnds == B!AutoclusterEnds
ResolvesAsMeant == A!ResolvesAsMeant
ComposeKeepsAliases == A!ComposeKeepsAliases
CaptionsGrow == A!CaptionsGrow
RequestsSpaced == G!RequestsSpaced
LookedUpOnce == G!LookedUpOnce
MapsAreRecent == C!MapsAreRecent
NobodyStarves == Q!NobodyStarves
WidgetSettles == W!WidgetSettles
=============================================================================
