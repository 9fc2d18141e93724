------------------------------ MODULE JobQueue ------------------------------
(***************************************************************************)
(* The persistent job queue of lib/job_queue.py: one SQLite row per        *)
(* (user, file), drained by a pool of worker threads and watched by a      *)
(* supervisor that reaps jobs stuck in 'processing'.                       *)
(*                                                                         *)
(* A row is claimed with a stamp, the whole second of the claim, and every *)
(* later write of the claiming worker is a compare-and-set on              *)
(* status = 'processing' and updated_at = stamp.  Each SQL transaction is  *)
(* one action; what a worker remembers between two transactions is its     *)
(* local row.  Data abstracted away: user and file ids (a job is an        *)
(* element of Jobs), the source label and the error text.                  *)
(*                                                                         *)
(* A definition named Bug... is a wrong version of the one that follows    *)
(* it, the way a careless change would write it: some property must notice.*)
(***************************************************************************)
EXTENDS Integers

CONSTANTS
    Jobs,         \* the (user_id, file_id) keys
    Images,       \* the jobs "Describe with AI" can be used on (mime image/...)
    NoJob,        \* what a worker without a row has in hand
    Workers,      \* the threads of the pool
    MaxAttempts,  \* MAX_ATTEMPTS
    StuckTimeout, \* STUCK_JOB_TIMEOUT, in ticks of the clock
    MaxTime       \* bound on the clock, for TLC only

ASSUME ImagesAssumption == Images \subseteq Jobs
ASSUME NoJobAssumption == NoJob \notin Jobs
ASSUME MaxAttemptsAssumption == MaxAttempts \in Nat \ {0}
ASSUME StuckTimeoutAssumption == StuckTimeout \in Nat
ASSUME MaxTimeAssumption == MaxTime \in Nat

VARIABLES
    db,   \* the jobs table
    now,  \* int(time.time()); claims within one tick carry the same stamp
    pc,   \* where each worker thread is in _loop
    row   \* the row a worker has in hand, as it was when _claim read it

vars == <<db, now, pc, row>>

Status == {"absent", "pending", "processing", "done", "failed"}

\* "off": no live thread; "claiming": between the SELECT and the UPDATE of
\* _claim; "running": in process_file; "recording": in record_recent, after
\* the job was marked done; "waiting": in _wait_for_vision; "backoff": in
\* the pause that follows a transient failure.
Busy == {"running", "recording"}
Stage == {"off", "idle", "claiming", "waiting", "backoff"} \cup Busy

JobRow == [status: Status, force: BOOLEAN, attempts: Nat, updated: Nat]
ClaimedRow == [job: Jobs \cup {NoJob}, force: BOOLEAN, attempts: Nat, ts: Nat]

NoRow == [job |-> NoJob, force |-> FALSE, attempts |-> 0, ts |-> 0]

Pending == {j \in Jobs : db[j].status = "pending"}
Processing == {j \in Jobs : db[j].status = "processing"}
Failed == {j \in Jobs : db[j].status = "failed"}

Fresh(force) ==
    [status |-> "pending", force |-> force, attempts |-> 0, updated |-> now]

Init ==
    /\ db = [j \in Jobs |->
                [status |-> "absent", force |-> FALSE, attempts |-> 0, updated |-> 0]]
    /\ now = 0
    /\ pc = [w \in Workers |-> "off"]
    /\ row = [w \in Workers |-> NoRow]

-----------------------------------------------------------------------------
(* Producers: webhook, poll scan, backfill, the file action, the dashboard. *)

\* Enqueue without its exception for in-flight jobs.
BugEnqueueInFlight(j) ==
    /\ db[j].status # "done"
    /\ db' = [db EXCEPT ![j] = Fresh(FALSE)]
    /\ UNCHANGED <<now, pc, row>>

\* enqueue(force=False): done and in-flight jobs are left alone.
Enqueue(j) ==
    /\ db[j].status \notin {"done", "processing"}
    /\ db' = [db EXCEPT ![j] = Fresh(FALSE)]
    /\ UNCHANGED <<now, pc, row>>

\* describe_now: enqueue(force=True) resets the row whatever its status.
DescribeNow(j) ==
    /\ j \in Images
    /\ db' = [db EXCEPT ![j] = Fresh(TRUE)]
    /\ UNCHANGED <<now, pc, row>>

\* retry_failed, for the failed jobs S of one user or of all of them.
RetryFailed(S) ==
    /\ S # {}
    /\ db' = [j \in Jobs |-> IF j \in S THEN Fresh(db[j].force) ELSE db[j]]
    /\ UNCHANGED <<now, pc, row>>

-----------------------------------------------------------------------------
(* The worker thread.                                                       *)

\* The SELECT of _claim without _claim_lock.
BugUnlockedSelect(w) ==
    /\ pc[w] = "idle"
    /\ \E j \in Pending :
          /\ \A k \in Pending : db[j].updated <= db[k].updated
          /\ row' = [row EXCEPT ![w] = [job |-> j, force |-> db[j].force,
                                        attempts |-> db[j].attempts, ts |-> 0]]
    /\ pc' = [pc EXCEPT ![w] = "claiming"]
    /\ UNCHANGED <<db, now>>

\* The SELECT of _claim, under _claim_lock: a least recently updated pending
\* row, ties in any order.
SelectPending(w) ==
    /\ pc[w] = "idle"
    /\ \A v \in Workers : pc[v] # "claiming"
    /\ \E j \in Pending :
          /\ \A k \in Pending : db[j].updated <= db[k].updated
          /\ row' = [row EXCEPT ![w] = [job |-> j, force |-> db[j].force,
                                        attempts |-> db[j].attempts, ts |-> 0]]
    /\ pc' = [pc EXCEPT ![w] = "claiming"]
    /\ UNCHANGED <<db, now>>

\* The UPDATE of _claim: it does not look at the status again.
MarkProcessing(w) ==
    /\ pc[w] = "claiming"
    /\ db' = [db EXCEPT ![row[w].job].status = "processing",
                        ![row[w].job].updated = now]
    /\ row' = [row EXCEPT ![w].ts = now]
    /\ pc' = [pc EXCEPT ![w] = "running"]
    /\ UNCHANGED now

\* The row is still this worker's claim.
Holds(w, j) ==
    /\ pc[w] \in Busy
    /\ row[w].job = j
    /\ db[j].status = "processing"
    /\ db[j].updated = row[w].ts

\* _finish as it would be with WHERE user_id = ? AND file_id = ? alone.
BugFinishAnyway(w, status) ==
    db' = [db EXCEPT ![row[w].job].status = status,
                     ![row[w].job].attempts = @ + 1,
                     ![row[w].job].updated = now]

\* _finish and _requeue: compare-and-set on the claim, a no-op when it is lost.
Finish(w, status) ==
    db' = IF Holds(w, row[w].job)
          THEN [db EXCEPT ![row[w].job].status = status,
                          ![row[w].job].attempts = @ + 1,
                          ![row[w].job].updated = now]
          ELSE db

Requeue(w) ==
    db' = IF Holds(w, row[w].job)
          THEN [db EXCEPT ![row[w].job].status = "pending",
                          ![row[w].job].updated = now]
          ELSE db

\* One attempt too many; a status no query knows.
BugFateOffByOne(attempts) == IF attempts < MaxAttempts THEN "pending" ELSE "failed"
BugFateStatus(attempts) == IF attempts + 1 < MaxAttempts THEN "pending" ELSE "error"

\* What becomes of a job of which one more attempt is burnt.
Fate(attempts) == IF attempts + 1 < MaxAttempts THEN "pending" ELSE "failed"

\* A worker decides by the attempts it read at the claim.
AfterError(w) == Fate(row[w].attempts)

Leave(w, stage) ==
    /\ pc' = [pc EXCEPT ![w] = stage]
    /\ row' = [row EXCEPT ![w] = NoRow]

\* process_file returned: a skipped file has nothing to record.
FinishDone(w) ==
    /\ pc[w] = "running"
    /\ Finish(w, "done")
    /\ \/ Leave(w, "idle")
       \/ /\ pc' = [pc EXCEPT ![w] = "recording"]
          /\ UNCHANGED row
    /\ UNCHANGED now

RecordRecent(w) ==
    /\ pc[w] = "recording"
    /\ Leave(w, "idle")
    /\ UNCHANGED <<db, now>>

\* process_file, _finish or record_recent raised an error that is neither an
\* outage nor transient: the job is finished (once more, in the last case).
JobError(w) ==
    /\ pc[w] \in Busy
    /\ Finish(w, AfterError(w))
    /\ Leave(w, "idle")
    /\ UNCHANGED now

\* VisionUnavailable: requeue un-burned, hold the worker in _wait_for_vision.
VisionDown(w) ==
    /\ pc[w] = "running"
    /\ Requeue(w)
    /\ Leave(w, "waiting")
    /\ UNCHANGED now

\* A transient infrastructure error: requeue un-burned, then back off.
Transient(w) ==
    /\ pc[w] = "running"
    /\ Requeue(w)
    /\ Leave(w, "backoff")
    /\ UNCHANGED now

\* The vision endpoint answers again, or the pause is over.
Resume(w) ==
    /\ pc[w] \in {"waiting", "backoff"}
    /\ Leave(w, "idle")
    /\ UNCHANGED <<db, now>>

\* The outer guard of _loop: the UPDATE of _claim, _finish or _requeue raised,
\* the worker goes on and the row keeps the state it had.
WriteError(w) ==
    /\ pc[w] \in Busy \cup {"claiming"}
    /\ Leave(w, "idle")
    /\ UNCHANGED <<db, now>>

-----------------------------------------------------------------------------
(* The supervisor, the container and the clock.                            *)

\* _ensure_workers; a thread whose NextcloudApp() raises stays off.
Spawn(w) ==
    /\ pc[w] = "off"
    /\ Leave(w, "idle")
    /\ UNCHANGED <<db, now>>

\* The UPDATE shared by the reaper and the startup reset: an attempt is burnt.
Burnt(r) ==
    [status |-> Fate(r.attempts),
     force |-> r.force, attempts |-> r.attempts + 1, updated |-> now]

Burn(S) == db' = [j \in Jobs |-> IF j \in S THEN Burnt(db[j]) ELSE db[j]]

\* The cutoff compared the wrong way round.
BugStuckInverted == {j \in Processing : db[j].updated + StuckTimeout > now}

Stuck == {j \in Processing : db[j].updated + StuckTimeout < now}

Reap ==
    /\ Stuck # {}
    /\ Burn(Stuck)
    /\ UNCHANGED <<now, pc, row>>

\* The container dies and starts again: threads are lost, init_db burns an
\* attempt of every row left in 'processing'.
Restart ==
    /\ Burn(Processing)
    /\ pc' = [w \in Workers |-> "off"]
    /\ row' = [w \in Workers |-> NoRow]
    /\ UNCHANGED now

Tick ==
    /\ now < MaxTime
    /\ now' = now + 1
    /\ UNCHANGED <<db, pc, row>>

-----------------------------------------------------------------------------
Producer ==
    \/ \E j \in Jobs : Enqueue(j) \/ DescribeNow(j)
    \/ \E S \in SUBSET Failed : RetryFailed(S)

Claim(w) == SelectPending(w) \/ MarkProcessing(w)
Attempt(w) == FinishDone(w) \/ RecordRecent(w) \/ JobError(w)
Outage(w) == VisionDown(w) \/ Transient(w) \/ WriteError(w)
Worker(w) == Claim(w) \/ Attempt(w) \/ Outage(w) \/ Resume(w) \/ Spawn(w)

Next == Producer \/ (\E w \in Workers : Worker(w)) \/ Reap \/ Restart \/ Tick

Spec == Init /\ [][Next]_vars

-----------------------------------------------------------------------------
(* Invariants.  A job that is never force-enqueued (a video, since the file *)
(* action is offered for images only) is called plain.                      *)

Plain == Jobs \ Images

\* The tables and the threads' local state have the shape the code gives them.
TypeOK ==
    /\ db \in [Jobs -> JobRow]
    /\ now \in Nat
    /\ pc \in [Workers -> Stage]
    /\ row \in [Workers -> ClaimedRow]
    /\ \A w \in Workers : pc[w] \in Busy \cup {"claiming"} => row[w].job \in Jobs

\* Two workers never both hold a valid claim on the same job of J: at most
\* one of them can write a result (the compare-and-set of _finish, _requeue).
OneHolder(J) ==
    \A j \in J : \A v, w \in Workers : (Holds(v, j) /\ Holds(w, j)) => (v = w)

\* No plain job is ever in the hands of two workers that could both settle
\* it, though stamps are whole seconds and workers outlive the reaper (_claim).
PlainClaimExclusive == OneHolder(Plain)

\* The row read by the SELECT of _claim is still pending when the UPDATE,
\* which does not check, makes it processing: producers may write in between.
ClaimedRowStillPending ==
    \A w \in Workers : pc[w] = "claiming" => (db[row[w].job].status = "pending")

\* _claim is serialised by _claim_lock.
OneClaimer ==
    \A v, w \in Workers : (pc[v] = "claiming" /\ pc[w] = "claiming") => (v = w)

\* A plain job never exceeds MAX_ATTEMPTS and one that may still run has an
\* attempt left, although workers decide with the attempts read at the claim.
AttemptsBounded ==
    \A j \in Plain :
        /\ db[j].attempts <= MaxAttempts
        /\ db[j].status \in {"pending", "processing"} => db[j].attempts < MaxAttempts

\* What makes a stale worker harmless: its stamp is older than any state a
\* plain row got since, and strictly older once the row left processing.
StaleStampsAreOld ==
    \A w \in Workers : (pc[w] \in Busy /\ row[w].job \in Plain) =>
        LET r == db[row[w].job] IN
        /\ row[w].ts <= r.updated
        /\ r.status # "absent"
        /\ r.status \in {"pending", "failed"} => row[w].ts < r.updated

\* A row is never stamped in the future.
StampsInThePast == \A j \in Jobs : db[j].updated <= now

\* The attempts a claimant remembers are never fewer than the row's.
RememberedAttempts ==
    \A w \in Workers :
        /\ row[w].job \in Plain
        /\ pc[w] = "claiming" \/ Holds(w, row[w].job)
        => db[row[w].job].attempts <= row[w].attempts

\* The inductive invariant behind the theorems of JobQueueProofs.
IndInv ==
    /\ TypeOK
    /\ OneClaimer
    /\ ClaimedRowStillPending
    /\ StampsInThePast
    /\ StaleStampsAreOld
    /\ PlainClaimExclusive
    /\ RememberedAttempts
    /\ AttemptsBounded

\* The queue hands out leases: restricted to the plain jobs it behaves as
\* JobLease, where only the one leaseholder, a reaper or a restart settles.
Lease == INSTANCE JobLease WITH
    Jobs <- Plain,
    job <- [j \in Plain |-> [status |-> db[j].status, attempts |-> db[j].attempts]],
    holders <- [j \in Plain |-> {w \in Workers : Holds(w, j)}]
ImplementsLease == Lease!Spec

-----------------------------------------------------------------------------
(* Liveness.  The supervisor runs every minute and time passes; a thread of *)
(* the pool that can take a step of its own does, its calls have timeouts.  *)

ReaperFairness == WF_vars(Reap)

WorkerFairness ==
    \A w \in Workers : /\ WF_vars(Spawn(w))
                       /\ WF_vars(Claim(w))
                       /\ WF_vars(Attempt(w))
                       /\ WF_vars(Resume(w))

-----------------------------------------------------------------------------
(* What comments of the repository say and the code does not keep.          *)

\* "the stale worker's write must become a no-op instead of clobbering the
\* fresh claim" (_claim), read for every job, images included.
ClaimExclusive == OneHolder(Jobs)

\* "With force (manual re-describe), always reset so the file is reprocessed"
\* (enqueue): a pending forced job stays so until a worker has it, forced.
ForcedRequestKept ==
    [][\A j \in Jobs : db[j].status = "pending" /\ db[j].force =>
          \/ db'[j].status = "pending" /\ db'[j].force
          \/ \E w \in Workers : pc'[w] = "running" /\ row'[w].job = j /\ row'[w].force]_vars
=============================================================================
