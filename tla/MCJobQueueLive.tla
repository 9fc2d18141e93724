--------------------------- MODULE MCJobQueueLive ---------------------------
(***************************************************************************)
(* JobQueue with finitely many disturbances: producers, outages, write     *)
(* errors and restarts together happen at most Budget times, after which   *)
(* the queue is left to its workers and its supervisor.                    *)
(***************************************************************************)
EXTENDS JobQueue

CONSTANT Budget

VARIABLE budget

liveVars == <<vars, budget>>

Disturbance == Producer \/ Restart \/ \E w \in Workers : Outage(w)

\* The clock runs while a claim is open and the reaper is never a full tick
\* late, so that MaxTime is not reached and bounds nothing.
UsefulTick ==
    /\ Processing # {}
    /\ Stuck = {}
    /\ Tick

OwnStep(w) == Claim(w) \/ Attempt(w) \/ Resume(w) \/ Spawn(w)

LiveInit == Init /\ budget = Budget

LiveNext ==
    \/ budget > 0 /\ Disturbance /\ budget' = budget - 1
    \/ /\ (\E w \in Workers : OwnStep(w)) \/ Reap \/ UsefulTick
       /\ UNCHANGED budget

\* The supervisor and the clock are fair, the workers need not be.
LiveSpec ==
    /\ LiveInit /\ [][LiveNext]_liveVars
    /\ WF_vars(UsefulTick) /\ ReaperFairness

\* "lets a stalled job self-heal without a container restart" (reap_stuck_jobs):
\* whatever the workers do (hang, die, lose their write), no claim stays in
\* processing for ever.
NoClaimLastsForever ==
    \A j \in Jobs : db[j].status = "processing" ~> db[j].status # "processing"

\* Once the disturbances end, and if the workers do not hang, every job known to
\* the queue ends up done or failed: none is lost in processing, none retried
\* for ever.
AllJobsSettle ==
    WorkerFairness => <>[](\A j \in Jobs : db[j].status \in {"absent", "done", "failed"})
=============================================================================
