----------------------------- MODULE ScanWidget -----------------------------
(***************************************************************************)
(* The scan button of the dashboard page (script in lib/routes_dashboard): *)
(* a post starts or stops the backfill, polls of its status show what runs *)
(* and keep a timer going.  Answers may overtake each other and calls may  *)
(* fail; the crawl begins after the post that asked for it was answered.   *)
(* One page and one crawl; Backfill has what happens when they are more.   *)
(***************************************************************************)
EXTENDS Integers, FiniteSets

CONSTANTS
    Polls,          \* polls that may be under way at once
    MaxClicks,
    MaxFailedCalls

VARIABLES
    server,         \* the crawl: "idle", "task" (asked for), "crawl"
    post,           \* the button's call: "none" (it is enabled), "/start", "/stop", "answered"
    poll,           \* polls: "none", "asked", or the answer, "running" or "idle"
    shown,          \* the button says Stop scan
    timer,          \* _bfTimer is set
    clicks, failedCalls

widgetVars == <<server, post, poll, shown, timer, clicks, failedCalls>>

Init ==
    /\ server = "idle" /\ post = "none" /\ poll = [p \in Polls |-> "none"]
    /\ shown = FALSE /\ timer = FALSE /\ clicks = 0 /\ failedCalls = 0

CallFails == failedCalls < MaxFailedCalls /\ failedCalls' = failedCalls + 1
Ask(p) == poll[p] = "none" /\ poll' = [poll EXCEPT ![p] = "asked"]

ScanToggle ==
    /\ post = "none" /\ clicks < MaxClicks /\ clicks' = clicks + 1
    /\ post' = IF shown THEN "/stop" ELSE "/start"
    /\ UNCHANGED <<server, poll, shown, timer, failedCalls>>

\* start refuses while a crawl runs; a task that was asked for is not seen.
HandlePost ==
    /\ post \in {"/start", "/stop"} /\ post' = "answered"
    /\ server' = IF post = "/stop" THEN (IF server = "crawl" THEN "idle" ELSE server)
                 ELSE IF server = "idle" THEN "task" ELSE server
    /\ UNCHANGED <<poll, shown, timer, clicks, failedCalls>>

PostAnswered ==
    /\ post = "answered" /\ post' = "none"
    /\ \E p \in Polls : Ask(p)
    /\ UNCHANGED <<server, shown, timer, clicks, failedCalls>>

\* Before or after it was handled.
PostFails ==
    /\ post # "none" /\ post' = "none" /\ CallFails
    /\ UNCHANGED <<server, poll, shown, timer, clicks>>

BeginCrawl ==
    /\ server = "task" /\ server' = "crawl"
    /\ UNCHANGED <<post, poll, shown, timer, clicks, failedCalls>>

EndCrawl ==
    /\ server = "crawl" /\ server' = "idle"
    /\ UNCHANGED <<post, poll, shown, timer, clicks, failedCalls>>

BfPoll(p) ==
    /\ timer /\ Ask(p)
    /\ UNCHANGED <<server, post, shown, timer, clicks, failedCalls>>

Status(p) ==
    /\ poll[p] = "asked"
    /\ poll' = [poll EXCEPT ![p] = IF server = "crawl" THEN "running" ELSE "idle"]
    /\ UNCHANGED <<server, post, shown, timer, clicks, failedCalls>>

\* updateScan, and the timer is set or cleared.
PollAnswered(p) ==
    /\ poll[p] \in {"running", "idle"}
    /\ shown' = (poll[p] = "running") /\ timer' = (poll[p] = "running")
    /\ poll' = [poll EXCEPT ![p] = "none"]
    /\ UNCHANGED <<server, post, clicks, failedCalls>>

\* Mutant: a poll that fails stops the timer.
BugPollFails(p) ==
    /\ poll[p] # "none" /\ CallFails
    /\ poll' = [poll EXCEPT ![p] = "none"] /\ timer' = FALSE
    /\ UNCHANGED <<server, post, shown, clicks>>

PollFails(p) ==
    /\ poll[p] # "none" /\ CallFails
    /\ poll' = [poll EXCEPT ![p] = "none"]
    /\ UNCHANGED <<server, post, shown, timer, clicks>>

---------------------------------------------------------------------------

PollStep(p) == BfPoll(p) \/ Status(p) \/ PollAnswered(p)
PostStep == HandlePost \/ PostAnswered
CrawlStep == BeginCrawl \/ EndCrawl

Next ==
    \/ ScanToggle \/ PostStep \/ PostFails \/ CrawlStep
    \/ \E p \in Polls : PollStep(p) \/ PollFails(p)

\* Calls end, a timer ticks, a crawl comes to its end (Backfill).
Fairness == WF_widgetVars(PostStep) /\ WF_widgetVars(CrawlStep) /\ \A p \in Polls : WF_widgetVars(PollStep(p))

Spec == Init /\ [][Next]_widgetVars /\ Fairness

---------------------------------------------------------------------------

TypeOK ==
    /\ server \in {"idle", "task", "crawl"} /\ post \in {"none", "/start", "/stop", "answered"}
    /\ \A p \in Polls : poll[p] \in {"none", "asked", "running", "idle"}
    /\ shown \in BOOLEAN /\ timer \in BOOLEAN

\* Whatever answers come late or in another order and whatever calls fail, the
\* page ends up showing that nothing runs, and polls no more.
WidgetSettles == <>[](server = "idle" /\ ~shown /\ ~timer /\ post = "none")
=============================================================================
