------------------------------ MODULE JobLease ------------------------------
(***************************************************************************)
(* What the job queue promises, without clocks, stamps or thread stages: a *)
(* job being processed is leased to at most one worker, and only the       *)
(* leaseholder, a reaper or a restart ends the attempt.  This is the       *)
(* intent stated by the docstrings of _claim, _requeue and _finish in      *)
(* lib/job_queue.py; JobQueue is shown to implement it for every job that  *)
(* is never force-enqueued.                                                *)
(***************************************************************************)
EXTENDS Naturals

CONSTANTS Jobs, Workers, MaxAttempts

VARIABLES
    job,     \* status and attempts burnt, per job
    holders  \* the workers that hold a lease on it

leaseVars == <<job, holders>>

Init ==
    /\ job = [j \in Jobs |-> [status |-> "absent", attempts |-> 0]]
    /\ holders = [j \in Jobs |-> {}]

To(j, status, attempts) ==
    job' = [job EXCEPT ![j] = [status |-> status, attempts |-> attempts]]

End(j) == holders' = [holders EXCEPT ![j] = {}]

\* A producer asks for the job: it starts over unless it is done or leased.
Submit(j) ==
    /\ job[j].status \notin {"done", "processing"}
    /\ To(j, "pending", 0)
    /\ UNCHANGED holders

\* The user retries failed jobs.
Reopen(S) ==
    /\ \A j \in S : job[j].status = "failed"
    /\ job' = [j \in Jobs |-> IF j \in S THEN [status |-> "pending", attempts |-> 0]
                                         ELSE job[j]]
    /\ UNCHANGED holders

\* A pending job is leased to a worker that has no other lease.
Grant(j, w) ==
    /\ job[j].status = "pending"
    /\ holders[j] = {}
    /\ \A k \in Jobs : w \notin holders[k]
    /\ To(j, "processing", job[j].attempts)
    /\ holders' = [holders EXCEPT ![j] = {w}]

\* The leaseholder ends the attempt, which is burnt; only a job with
\* attempts left is tried again.
Settle(j, w) ==
    /\ holders[j] = {w}
    /\ \/ To(j, "done", job[j].attempts + 1)
       \/ To(j, "failed", job[j].attempts + 1)
       \/ /\ job[j].attempts + 1 < MaxAttempts
          /\ To(j, "pending", job[j].attempts + 1)
    /\ End(j)

\* The leaseholder gives the job back: the attempt does not count.
GiveBack(j, w) ==
    /\ holders[j] = {w}
    /\ To(j, "pending", job[j].attempts)
    /\ End(j)

\* The leaseholder is lost; the job stays in processing until it is revoked.
Abandon(j, w) ==
    /\ holders[j] = {w}
    /\ End(j)
    /\ UNCHANGED job

Fate(attempts) == IF attempts + 1 < MaxAttempts THEN "pending" ELSE "failed"

\* A reaper or a restart takes jobs back: the attempt is burnt.
Revoke(S) ==
    /\ \A j \in S : job[j].status = "processing"
    /\ job' = [j \in Jobs |->
                 IF j \in S
                 THEN [status |-> Fate(job[j].attempts), attempts |-> job[j].attempts + 1]
                 ELSE job[j]]
    /\ holders' = [j \in Jobs |-> IF j \in S THEN {} ELSE holders[j]]

Next ==
    \/ \E j \in Jobs : Submit(j)
    \/ \E j \in Jobs, w \in Workers :
          Grant(j, w) \/ Settle(j, w) \/ GiveBack(j, w) \/ Abandon(j, w)
    \/ \E S \in SUBSET Jobs : Reopen(S) \/ Revoke(S)

Spec == Init /\ [][Next]_leaseVars

=============================================================================
