--------------------------- MODULE MCPipelineLive ---------------------------
(***************************************************************************)
(* Pipeline with finitely many disturbances, for liveness: attempts that   *)
(* fail, restarts, and leases taken from workers that are still at work.   *)
(***************************************************************************)
EXTENDS Pipeline

CONSTANT MaxDisturbances

VARIABLE disturbances

Disturb(A) ==
    /\ disturbances < MaxDisturbances
    /\ A
    /\ disturbances' = disturbances + 1

Free(A) == A /\ UNCHANGED disturbances

\* The reaper finds a job nobody holds; this alone is guaranteed to happen.
ReapAbandoned(f) == holders[f] = {} /\ Reap(f)

LiveInit == Init /\ disturbances = 0

LiveNext ==
    \/ \E f \in Files :
          \/ Free(Upload(f) \/ OpenShare(f) \/ Notify(f) \/ Overlook(f))
          \/ Free(Backfill(f) \/ RetryFailed(f) \/ ReapAbandoned(f))
          \/ Disturb(Reap(f))
    \/ \E w \in Workers : Free(Claim(w) \/ Process(w)) \/ Disturb(Fail(w))
    \/ Disturb(Restart)

liveVars == <<vars, disturbances>>

Fairness ==
    /\ \A f \in Files : WF_liveVars(Free(Notify(f))) /\ WF_liveVars(Free(ReapAbandoned(f)))
    /\ WF_liveVars(Free(\E w \in Workers : Claim(w)))
    /\ \A w \in Workers : WF_liveVars(Free(Process(w)))

LiveSpec == LiveInit /\ [][LiveNext]_liveVars /\ Fairness

\* An upload that is announced ends with a job that is done or failed for good,
\* whatever leases were lost on the way: the loop of process_file, _finish and
\* the reaper leaves no job and no worker behind.
UploadsSettle ==
    \A f \in Files :
        notice[f] /\ access[f] = "owned" ~> [](job[f].status \in {"done", "failed"})
=============================================================================
