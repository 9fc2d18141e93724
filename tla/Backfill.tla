------------------------------ MODULE Backfill ------------------------------
(***************************************************************************)
(* lib/routes_backfill.py: crawls of the users' libraries, the one flag    *)
(* that start, stop and every crawl share, and the thread that waits for   *)
(* the queue to drain and then clusters faces.  start runs on a worker     *)
(* thread of the server, the crawl as a background task after its reply,   *)
(* so another start, or a stop, may come between the two.                  *)
(***************************************************************************)
EXTENDS Integers

CONSTANTS
    Users,
    Photos,         \* photos each user has, all of allowed types and not mounted
    Crawls,         \* crawls that may be under way at once
    MaxStarts,      \* bound on requests to start
    MaxTroubles     \* bound on failed calls, stops and restarts

VARIABLES
    running,        \* _state["running"]
    crawl,          \* the background tasks
    pending,        \* jobs not done
    auto,           \* _autocluster_active and its thread
    starts, troubles

backfillVars == <<running, crawl, pending, auto, starts, troubles>>

Library(u) == {u} \X Photos
NoCrawl == [pc |-> "none"]
NoAuto == [pc |-> "none"]
Trouble == troubles < MaxTroubles /\ troubles' = troubles + 1

Init ==
    /\ running = FALSE /\ pending = {} /\ auto = NoAuto
    /\ crawl = [c \in Crawls |-> NoCrawl]
    /\ starts = 0 /\ troubles = 0

Crawling == {c \in Crawls : crawl[c].pc \notin {"none", "task"}}

\* A crawl for the users who: the users left, the one at hand, the photos of his
\* to come, the one in hand, those queued; and, history, whether nothing has
\* interfered with it since it began.
Crawl(pc, who, left, at, todo, hand, got, alone) ==
    [pc |-> pc, who |-> who, left |-> left, at |-> at, todo |-> todo, hand |-> hand,
     got |-> got, alone |-> alone]

Disturb(k) == Crawl(k.pc, k.who, k.left, k.at, k.todo, k.hand, k.got, FALSE)
Disturbed == [c \in Crawls |-> IF c \in Crawling THEN Disturb(crawl[c]) ELSE crawl[c]]

---------------------------------------------------------------------------
(* Requests.                                                               *)

Start(c, users) ==
    /\ crawl[c] = NoCrawl /\ ~running
    /\ starts < MaxStarts /\ starts' = starts + 1
    /\ crawl' = [crawl EXCEPT ![c] = [pc |-> "task", who |-> users]]
    /\ UNCHANGED <<running, pending, auto, troubles>>

Stop ==
    /\ Trouble
    /\ running' = FALSE
    /\ crawl' = Disturbed
    /\ UNCHANGED <<pending, auto, starts>>

---------------------------------------------------------------------------
(* _crawl.                                                                 *)

Goes(c, pc, left, at, todo, hand, got) ==
    crawl' = [crawl EXCEPT ![c] =
                 Crawl(pc, crawl[c].who, left, at, todo, hand, got, crawl[c].alone)]
\* The end of the walk, or of the photos of a user.
GoesOut(c, pc, left) == Goes(c, pc, left, {}, {}, {}, crawl[c].got)

Begin(c) ==
    /\ crawl[c].pc = "task"
    /\ running' = TRUE
    /\ crawl' = [Disturbed EXCEPT ![c] =
          Crawl("users", crawl[c].who, crawl[c].who, {}, {}, {}, {}, Crawling = {})]
    /\ UNCHANGED <<pending, auto, starts, troubles>>

Opens(c, u, photos) == Goes(c, "nodes", crawl[c].left, {u}, photos, {}, crawl[c].got)

\* Mutant: a library that cannot be listed counts as empty.
BugNextUser(c, u) ==
    /\ crawl[c].pc = "users" /\ running /\ u \in crawl[c].left
    /\ \/ Opens(c, u, Library(u)) /\ UNCHANGED troubles
       \/ Opens(c, u, {}) /\ Trouble
    /\ UNCHANGED <<running, pending, auto, starts>>

\* Mutant: a listing that fails ends the task at once.
BugNoFinally(c, u) ==
    /\ crawl[c].pc = "users" /\ running /\ u \in crawl[c].left
    /\ \/ Opens(c, u, Library(u)) /\ UNCHANGED troubles
       \/ crawl' = [crawl EXCEPT ![c] = NoCrawl] /\ Trouble
    /\ UNCHANGED <<running, pending, auto, starts>>

\* A listing that fails ends the crawl.
NextUser(c, u) ==
    /\ crawl[c].pc = "users" /\ running /\ u \in crawl[c].left
    /\ \/ Opens(c, u, Library(u)) /\ UNCHANGED troubles
       \/ GoesOut(c, "close", crawl[c].left) /\ Trouble
    /\ UNCHANGED <<running, pending, auto, starts>>

NextNode(c, f) ==
    LET k == crawl[c] IN
    /\ k.pc = "nodes" /\ running /\ f \in k.todo
    /\ Goes(c, "enqueue", k.left, k.at, k.todo \ {f}, {f}, k.got)
    /\ UNCHANGED <<running, pending, auto, starts, troubles>>

\* A locked database ends the crawl as well.
EnqueueNode(c) ==
    LET k == crawl[c] IN
    /\ k.pc = "enqueue"
    /\ \/ /\ pending' = pending \cup k.hand
          /\ Goes(c, "nodes", k.left, k.at, k.todo, {}, k.got \cup k.hand)
          /\ UNCHANGED troubles
       \/ GoesOut(c, "close", k.left) /\ UNCHANGED pending /\ Trouble
    /\ UNCHANGED <<running, auto, starts>>

UserDone(c) ==
    /\ crawl[c].pc = "nodes" /\ (crawl[c].todo = {} \/ ~running)
    /\ GoesOut(c, "users", crawl[c].left \ crawl[c].at)
    /\ UNCHANGED <<running, pending, auto, starts, troubles>>

CrawlDone(c) ==
    /\ crawl[c].pc = "users" /\ (crawl[c].left = {} \/ ~running)
    /\ GoesOut(c, "done", crawl[c].left)
    /\ UNCHANGED <<running, pending, auto, starts, troubles>>

Autocluster(pc, users) == [pc |-> pc, users |-> users]

\* _autocluster_when_idle: one at a time, a request that meets another is
\* dropped, and so are its users unless the other one waits for them, too.  The
\* flag is up before the thread is started, which may fail.
AutoclusterWhenIdle(c) ==
    /\ crawl[c].pc = "done"
    /\ \/ auto' = (IF auto = NoAuto THEN Autocluster("begin", crawl[c].who) ELSE auto)
          /\ UNCHANGED troubles
       \/ auto = NoAuto /\ auto' = Autocluster("dead", crawl[c].who) /\ Trouble
    /\ GoesOut(c, "close", crawl[c].left)
    /\ UNCHANGED <<running, pending, starts>>

\* finally: the flag goes down under every other crawl.
Close(c) ==
    /\ crawl[c].pc = "close"
    /\ running' = FALSE
    /\ crawl' = [Disturbed EXCEPT ![c] = NoCrawl]
    /\ UNCHANGED <<pending, auto, starts, troubles>>

---------------------------------------------------------------------------
(* The auto-cluster thread, the workers and restarts.                      *)

JobDone(f) ==
    /\ f \in pending /\ pending' = pending \ {f}
    /\ UNCHANGED <<running, crawl, auto, starts, troubles>>

\* The thread opens its connection outside the try: if that fails, it ends and
\* the flag stays up.
AutoBegins ==
    /\ auto.pc = "begin"
    /\ \/ auto' = Autocluster("wait", auto.users) /\ UNCHANGED troubles
       \/ auto' = Autocluster("dead", auto.users) /\ Trouble
    /\ UNCHANGED <<running, crawl, pending, starts>>

\* The queue is empty, twelve hours have passed, or its status cannot be read:
\* then clustering is left out, as when it raises.
StartClustering ==
    /\ auto.pc = "wait"
    /\ IF pending = {} THEN UNCHANGED troubles ELSE Trouble
    /\ auto' = Autocluster("cluster", auto.users)
    /\ UNCHANGED <<running, crawl, pending, starts>>

\* Mutant: the flag is reset only when clustering succeeds.
BugClustered ==
    /\ auto.pc = "cluster"
    /\ \/ auto' = NoAuto /\ UNCHANGED troubles
       \/ auto' = Autocluster("dead", auto.users) /\ Trouble
    /\ UNCHANGED <<running, crawl, pending, starts>>

\* cluster_and_tag returns or raises.
Clustered ==
    /\ auto.pc = "cluster"
    /\ auto' = NoAuto
    /\ UNCHANGED <<running, crawl, pending, starts, troubles>>

Restart ==
    /\ Trouble
    /\ running' = FALSE /\ crawl' = [c \in Crawls |-> NoCrawl] /\ auto' = NoAuto
    /\ UNCHANGED <<pending, starts>>
---------------------------------------------------------------------------

CrawlStep(c) ==
    \/ Begin(c) \/ (\E u \in Users : NextUser(c, u))
    \/ (\E f \in Users \X Photos : NextNode(c, f))
    \/ EnqueueNode(c) \/ UserDone(c) \/ CrawlDone(c) \/ AutoclusterWhenIdle(c) \/ Close(c)

AutoStep == AutoBegins \/ StartClustering \/ Clustered

Work == \E f \in pending : JobDone(f)

Next ==
    \/ \E c \in Crawls, users \in (SUBSET Users) \ {{}} : Start(c, users)
    \/ Stop \/ Restart \/ Work \/ AutoStep
    \/ \E c \in Crawls : CrawlStep(c)

Fairness ==
    /\ \A c \in Crawls : WF_backfillVars(CrawlStep(c))
    /\ WF_backfillVars(Work) /\ WF_backfillVars(AutoStep)

Spec == Init /\ [][Next]_backfillVars /\ Fairness

---------------------------------------------------------------------------

TypeOK ==
    /\ running \in BOOLEAN /\ pending \subseteq Users \X Photos
    /\ \A c \in Crawls : /\ crawl[c].pc \in {"none", "task", "users", "nodes", "enqueue", "done", "close"}
                         /\ c \in Crawling => crawl[c].got \subseteq crawl[c].who \X Photos
    /\ auto # NoAuto => /\ auto.pc \in {"begin", "wait", "cluster", "dead"}
                         /\ auto.users \in (SUBSET Users) \ {{}}

\* A crawl that no stop and no other crawl interfered with has queued every
\* photo of every user when it says it is done: no error is passed over. (One
\* that overlaps another is cut short without a word when that one ends.)
CompleteWhenAlone ==
    \A c \in Crawls :
        crawl[c].pc = "done" /\ crawl[c].alone => crawl[c].got = crawl[c].who \X Photos

\* The flag that makes start refuse never stays up for good, whatever fails.
ScansEnd == running ~> ~running

\* Once its thread is at work, the flag that drops every further request to
\* cluster comes down: the queue drains, or twelve hours pass, and clustering
\* ends in either way.  (A thread that dies before leaves it up: the process
\* clusters no more on its own.)
AutoclusterEnds == auto.pc \in {"wait", "cluster"} ~> auto = NoAuto
=============================================================================
