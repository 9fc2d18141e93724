--------------------------- MODULE JobQueueProofs ---------------------------
(***************************************************************************)
(* Proofs about JobQueue, for every set of jobs and workers and every      *)
(* value of MAX_ATTEMPTS and STUCK_JOB_TIMEOUT.                            *)
(***************************************************************************)
EXTENDS JobQueue, TLAPS

USE NoJobAssumption, ImagesAssumption, MaxAttemptsAssumption,
    StuckTimeoutAssumption, MaxTimeAssumption

(***************************************************************************)
(* The tables and the threads' local state keep the shape the code gives   *)
(* them: every action of JobQueue preserves TypeOK.                        *)
(***************************************************************************)
LEMMA TypeProducer == TypeOK /\ Producer => TypeOK'
<1> SUFFICES ASSUME TypeOK, Producer PROVE TypeOK'
  OBVIOUS
<1> USE DEF TypeOK, JobRow, Status, Fresh
<1>1. CASE \E j \in Jobs : Enqueue(j)
  BY <1>1 DEF Enqueue
<1>2. CASE \E j \in Jobs : DescribeNow(j)
  BY <1>2 DEF DescribeNow
<1>3. CASE \E S \in SUBSET Failed : RetryFailed(S)
  BY <1>3 DEF RetryFailed
<1> QED
  BY <1>1, <1>2, <1>3 DEF Producer

LEMMA TypeFinish ==
  ASSUME TypeOK, NEW w \in Workers, pc[w] \in Busy,
         NEW s \in Status, Finish(w, s)
  PROVE  db' \in [Jobs -> JobRow]
<1>1. row[w].job \in Jobs
  BY DEF TypeOK
<1> QED
  BY <1>1 DEF TypeOK, Finish, JobRow

LEMMA TypeRequeue ==
  ASSUME TypeOK, NEW w \in Workers, pc[w] \in Busy, Requeue(w)
  PROVE  db' \in [Jobs -> JobRow]
<1>1. row[w].job \in Jobs
  BY DEF TypeOK
<1> QED
  BY <1>1 DEF TypeOK, Requeue, JobRow, Status

LEMMA TypeLeave ==
  ASSUME TypeOK, NEW w \in Workers, NEW stage \in {"off", "idle", "waiting", "backoff"},
         Leave(w, stage)
  PROVE  /\ pc' \in [Workers -> Stage]
         /\ row' \in [Workers -> ClaimedRow]
         /\ \A v \in Workers : pc'[v] \in Busy \cup {"claiming"} => row'[v].job \in Jobs
BY DEF TypeOK, Leave, NoRow, ClaimedRow, Stage, Busy

LEMMA TypeWorker ==
  ASSUME TypeOK, NEW w \in Workers, Worker(w)
  PROVE  TypeOK'
<1>1. CASE SelectPending(w)
  <2>1. PICK j \in Pending :
           row' = [row EXCEPT ![w] = [job |-> j, force |-> db[j].force,
                                      attempts |-> db[j].attempts, ts |-> 0]]
    BY <1>1 DEF SelectPending
  <2> QED
    BY <1>1, <2>1 DEF SelectPending, Pending, TypeOK, JobRow, ClaimedRow, Stage, Busy
<1>2. CASE MarkProcessing(w)
  <2>1. row[w].job \in Jobs
    BY <1>2 DEF MarkProcessing, TypeOK
  <2>2. db' \in [Jobs -> JobRow]
    BY <1>2, <2>1 DEF MarkProcessing, TypeOK, JobRow, Status
  <2> QED
    BY <1>2, <2>1, <2>2 DEF MarkProcessing, TypeOK, ClaimedRow, Stage, Busy
<1>3. CASE FinishDone(w)
  <2>1. db' \in [Jobs -> JobRow]
    BY <1>3, TypeFinish DEF FinishDone, Busy, Status
  <2>2. CASE Leave(w, "idle")
    BY <1>3, <2>1, <2>2, TypeLeave DEF FinishDone, TypeOK
  <2>3. CASE pc' = [pc EXCEPT ![w] = "recording"] /\ UNCHANGED row
    BY <1>3, <2>1, <2>3 DEF FinishDone, TypeOK, Stage, Busy
  <2> QED
    BY <1>3, <2>2, <2>3 DEF FinishDone
<1>4. CASE RecordRecent(w)
  BY <1>4, TypeLeave DEF RecordRecent, TypeOK
<1>5. CASE JobError(w)
  <2>1. AfterError(w) \in Status
    BY DEF AfterError, Fate, Status
  <2> QED
    BY <1>5, <2>1, TypeFinish, TypeLeave DEF JobError, TypeOK
<1>6. CASE VisionDown(w)
  BY <1>6, TypeRequeue, TypeLeave DEF VisionDown, TypeOK, Busy
<1>7. CASE Transient(w)
  BY <1>7, TypeRequeue, TypeLeave DEF Transient, TypeOK, Busy
<1>8. CASE Resume(w)
  BY <1>8, TypeLeave DEF Resume, TypeOK
<1>9. CASE WriteError(w)
  BY <1>9, TypeLeave DEF WriteError, TypeOK
<1>10. CASE Spawn(w)
  BY <1>10, TypeLeave DEF Spawn, TypeOK
<1> QED
  BY <1>1, <1>2, <1>3, <1>4, <1>5, <1>6, <1>7, <1>8, <1>9, <1>10
  DEF Worker, Claim, Attempt, Outage

LEMMA TypeBurn ==
  ASSUME TypeOK, NEW S \in SUBSET Jobs, Burn(S)
  PROVE  db' \in [Jobs -> JobRow]
<1>1. ASSUME NEW j \in S PROVE db'[j] \in JobRow
  <2>1. db[j] \in JobRow /\ now \in Nat
    BY DEF TypeOK
  <2> QED
    BY <2>1 DEF Burn, Burnt, Fate, JobRow, Status
<1>2. ASSUME NEW j \in Jobs \ S PROVE db'[j] \in JobRow
  BY DEF TypeOK, Burn
<1>3. db' = [j \in Jobs |-> db'[j]]
  BY DEF Burn
<1> QED
  BY <1>1, <1>2, <1>3

LEMMA TypeStep == TypeOK /\ [Next]_vars => TypeOK'
<1> SUFFICES ASSUME TypeOK, [Next]_vars PROVE TypeOK'
  OBVIOUS
<1>1. CASE Producer
  BY <1>1, TypeProducer
<1>2. CASE \E w \in Workers : Worker(w)
  BY <1>2, TypeWorker
<1>3. CASE Reap
  BY <1>3, TypeBurn DEF Reap, Stuck, Processing, TypeOK
<1>4. CASE Restart
  BY <1>4, TypeBurn DEF Restart, Processing, TypeOK, NoRow, ClaimedRow, Stage, Busy
<1>5. CASE Tick
  BY <1>5 DEF Tick, TypeOK
<1>6. CASE UNCHANGED vars
  BY <1>6 DEF vars, TypeOK
<1> QED
  BY <1>1, <1>2, <1>3, <1>4, <1>5, <1>6 DEF Next

LEMMA TypeInit == Init => TypeOK
BY DEF Init, TypeOK, JobRow, ClaimedRow, NoRow, Status, Stage, Busy

\* The jobs table and what the worker threads keep of it always have the shape
\* that enqueue, _claim, _finish, _requeue and the reaper give them.
THEOREM TypeCorrect == Spec => []TypeOK
<1> QED
  BY TypeInit, TypeStep, PTL DEF Spec

-----------------------------------------------------------------------------
(***************************************************************************)
(* The inductive invariant.  A worker that lost its claim to the reaper is *)
(* harmless because its stamp is strictly older than the row's updated_at  *)
(* as soon as the row has left processing, so that no later claim can      *)
(* carry the same stamp; a plain row leaves processing only that way.      *)
(***************************************************************************)
Rest ==
    /\ OneClaimer
    /\ ClaimedRowStillPending
    /\ StampsInThePast
    /\ StaleStampsAreOld
    /\ PlainClaimExclusive
    /\ RememberedAttempts
    /\ AttemptsBounded

LEMMA InvProducer ==
  ASSUME IndInv, TypeOK', Producer
  PROVE  Rest'
<1> USE DEF IndInv, Rest, TypeOK, JobRow, ClaimedRow, Plain, Busy
<1> DEFINE Reset(j) == db'[j].status = "pending" /\ db'[j].attempts = 0 /\ db'[j].updated = now
           Resettable(j) == j \in Images \/ db[j].status \in {"absent", "pending", "failed"}
<1>1. /\ pc' = pc /\ row' = row /\ now' = now
      /\ \A j \in Jobs : db'[j] = db[j] \/ (Reset(j) /\ Resettable(j))
  <2>1. ASSUME NEW k \in Jobs, Enqueue(k)
        PROVE  \A j \in Jobs : db'[j] = db[j] \/ (Reset(j) /\ Resettable(j))
    <3>1. db[k].status \in Status \ {"done", "processing"}
      BY <2>1 DEF Enqueue
    <3> QED
      BY <2>1, <3>1 DEF Enqueue, Fresh, Status
  <2>2. ASSUME NEW k \in Jobs, DescribeNow(k)
        PROVE  \A j \in Jobs : db'[j] = db[j] \/ (Reset(j) /\ Resettable(j))
    BY <2>2 DEF DescribeNow, Fresh
  <2>3. ASSUME NEW S \in SUBSET Failed, RetryFailed(S)
        PROVE  \A j \in Jobs : db'[j] = db[j] \/ (Reset(j) /\ Resettable(j))
    <3>1. \A j \in Jobs : db'[j] = IF j \in S THEN Fresh(db[j].force) ELSE db[j]
      BY <2>3 DEF RetryFailed
    <3> QED
      BY <3>1 DEF Failed, Fresh
  <2> QED
    BY <2>1, <2>2, <2>3 DEF Producer, Enqueue, DescribeNow, RetryFailed
<1>2. OneClaimer'
  BY <1>1 DEF OneClaimer
<1>3. ClaimedRowStillPending'
  BY <1>1 DEF ClaimedRowStillPending
<1>4. StampsInThePast'
  BY <1>1 DEF StampsInThePast
<1>5. StaleStampsAreOld'
  BY <1>1 DEF StaleStampsAreOld, StampsInThePast
<1>6. \A w \in Workers, j \in Jobs : Holds(w, j)' => Holds(w, j) /\ db'[j] = db[j]
  BY <1>1 DEF Holds
<1>7. PlainClaimExclusive'
  BY <1>6 DEF PlainClaimExclusive, OneHolder
<1>8. RememberedAttempts'
  BY <1>1, <1>6 DEF RememberedAttempts
<1>9. AttemptsBounded'
  BY <1>1 DEF AttemptsBounded
<1> QED
  BY <1>2, <1>3, <1>4, <1>5, <1>7, <1>8, <1>9

LEMMA InvSelect ==
  ASSUME IndInv, TypeOK', NEW w \in Workers, SelectPending(w)
  PROVE  Rest'
<1> USE DEF IndInv, Rest, TypeOK, JobRow, ClaimedRow, Plain, Busy
<1>1. PICK j \in Pending :
         row' = [row EXCEPT ![w] = [job |-> j, force |-> db[j].force,
                                    attempts |-> db[j].attempts, ts |-> 0]]
  BY DEF SelectPending
<1>2. /\ pc' = [pc EXCEPT ![w] = "claiming"] /\ db' = db /\ now' = now
      /\ \A v \in Workers : pc[v] # "claiming"
  BY DEF SelectPending
<1>3. OneClaimer'
  BY <1>2 DEF OneClaimer
<1>4. ClaimedRowStillPending'
  BY <1>1, <1>2 DEF ClaimedRowStillPending, Pending
<1>5. StampsInThePast'
  BY <1>2 DEF StampsInThePast
<1>6. StaleStampsAreOld'
  BY <1>1, <1>2 DEF StaleStampsAreOld
<1>7. \A v \in Workers, k \in Jobs : Holds(v, k)' => Holds(v, k) /\ v # w
  BY <1>1, <1>2 DEF Holds
<1>8. PlainClaimExclusive'
  BY <1>7 DEF PlainClaimExclusive, OneHolder
<1>9. RememberedAttempts'
  BY <1>1, <1>2, <1>7 DEF RememberedAttempts, Pending
<1>10. AttemptsBounded'
  BY <1>2 DEF AttemptsBounded
<1> QED
  BY <1>3, <1>4, <1>5, <1>6, <1>8, <1>9, <1>10

LEMMA InvMark ==
  ASSUME IndInv, TypeOK', NEW w \in Workers, MarkProcessing(w)
  PROVE  Rest'
<1> USE DEF IndInv, Rest, TypeOK, JobRow, ClaimedRow, Plain, Busy
<1> DEFINE j == row[w].job
<1>1. j \in Jobs /\ pc[w] = "claiming" /\ db[j].status = "pending"
  BY DEF MarkProcessing, ClaimedRowStillPending
<1>2. /\ now' = now
      /\ pc' = [pc EXCEPT ![w] = "running"]
      /\ row' = [row EXCEPT ![w].ts = now]
      /\ \A k \in Jobs \ {j} : db'[k] = db[k]
      /\ db'[j].status = "processing" /\ db'[j].updated = now
      /\ db'[j].attempts = db[j].attempts
  BY <1>1 DEF MarkProcessing
<1>3. OneClaimer'
  BY <1>2 DEF OneClaimer
<1>4. ClaimedRowStillPending'
  BY <1>1, <1>2 DEF ClaimedRowStillPending, OneClaimer
<1>5. StampsInThePast'
  BY <1>1, <1>2 DEF StampsInThePast
<1>6. StaleStampsAreOld'
  BY <1>1, <1>2 DEF StaleStampsAreOld, StampsInThePast
<1>7. ASSUME NEW v \in Workers, NEW k \in Plain, Holds(v, k)'
      PROVE  (v = w /\ k = j) \/ (v # w /\ k # j /\ Holds(v, k))
  BY <1>1, <1>2, <1>7 DEF Holds, StaleStampsAreOld, StampsInThePast
<1>8. PlainClaimExclusive'
  BY <1>7 DEF PlainClaimExclusive, OneHolder
<1>9. RememberedAttempts'
  BY <1>1, <1>2, <1>7 DEF RememberedAttempts
<1>10. AttemptsBounded'
  BY <1>1, <1>2 DEF AttemptsBounded
<1> QED
  BY <1>3, <1>4, <1>5, <1>6, <1>8, <1>9, <1>10

LEMMA Below == \A a, b \in Nat : (a <= b /\ a # b) => a < b
OBVIOUS

(***************************************************************************)
(* Every other step of a worker leaves db alone or, by Finish or Requeue,  *)
(* rewrites the one row it validly holds; it leaves its claim, or keeps it *)
(* while recording a job it has marked done.                               *)
(***************************************************************************)
Settled(w, status, attempts) ==
    /\ Holds(w, row[w].job)
    /\ db'[row[w].job].status = status
    /\ db'[row[w].job].attempts = attempts
    /\ db'[row[w].job].updated = now
    /\ \A k \in Jobs \ {row[w].job} : db'[k] = db[k]

LEMMA InvSettle ==
  ASSUME IndInv, TypeOK', NEW w \in Workers, now' = now,
         \/ db' = db
         \/ Settled(w, "done", db[row[w].job].attempts + 1)
         \/ Settled(w, "pending", db[row[w].job].attempts)
         \/ Settled(w, AfterError(w), db[row[w].job].attempts + 1),
         \/ Leave(w, "idle") \/ Leave(w, "waiting") \/ Leave(w, "backoff")
         \/ /\ pc' = [pc EXCEPT ![w] = "recording"]
            /\ pc[w] = "running"
            /\ UNCHANGED row
            /\ db' = db \/ Settled(w, "done", db[row[w].job].attempts + 1)
  PROVE  Rest'
<1> USE DEF IndInv, Rest, TypeOK, JobRow, ClaimedRow, Plain, Busy
<1> DEFINE j == row[w].job
<1>1. /\ \A v \in Workers \ {w} : pc'[v] = pc[v] /\ row'[v] = row[v]
      /\ pc'[w] # "claiming"
      /\ pc'[w] \in Busy => pc[w] \in Busy /\ row'[w] = row[w]
  BY DEF Leave
<1>2. db' = db \/ (Holds(w, j) /\ j \in Jobs)
  BY DEF Settled, Holds
<1>3. db' = db \/ \A k \in Jobs : k # j => db'[k] = db[k]
  BY DEF Settled
<1>4. \A v \in Workers, k \in Plain : (v # w /\ Holds(v, k)) => (k # j \/ db' = db)
  BY <1>2 DEF PlainClaimExclusive, OneHolder
<1>5. OneClaimer'
  BY <1>1 DEF OneClaimer
<1>6. ClaimedRowStillPending'
  <2> SUFFICES ASSUME NEW v \in Workers, pc'[v] = "claiming"
               PROVE  db'[row'[v].job].status = "pending"
    BY DEF ClaimedRowStillPending
  <2>1. v # w /\ pc[v] = "claiming" /\ row'[v] = row[v]
    BY <1>1
  <2>2. row[v].job \in Jobs /\ db[row[v].job].status = "pending"
    BY <2>1 DEF ClaimedRowStillPending
  <2>3. db' = db \/ row[v].job # j
    BY <1>2, <2>2 DEF Holds
  <2> QED
    BY <1>3, <2>1, <2>2, <2>3
<1>7. StampsInThePast'
  BY DEF StampsInThePast, Settled
<1>8. StaleStampsAreOld'
  <2> SUFFICES ASSUME NEW v \in Workers, pc'[v] \in Busy, row'[v].job \in Plain
               PROVE  LET r == db'[row'[v].job] IN
                      /\ row'[v].ts <= r.updated
                      /\ r.status # "absent"
                      /\ r.status \in {"pending", "failed"} => row'[v].ts < r.updated
    BY DEF StaleStampsAreOld
  <2>1. row'[v] = row[v] /\ pc[v] \in Busy
    BY <1>1
  <2>2. CASE db'[row[v].job] = db[row[v].job]
    BY <2>1, <2>2 DEF StaleStampsAreOld
  <2>3. CASE db'[row[v].job] # db[row[v].job] /\ v # w
    <3>1. row[v].job = j /\ ~ Holds(v, j) /\ Holds(w, j)
      BY <1>2, <1>3, <1>4, <2>1, <2>3
    <3>2. row[v].ts < db[j].updated
      <4>1. row[v].job = j /\ j \in Plain /\ pc[v] \in Busy
        BY <2>1, <3>1
      <4>2. row[v].ts <= db[j].updated
        BY <4>1 DEF StaleStampsAreOld
      <4>3. row[v].ts # db[j].updated
        BY <3>1, <4>1 DEF Holds
      <4>4. row[v].ts \in Nat /\ db[j].updated \in Nat
        BY <4>1
      <4> QED
        BY <4>2, <4>3, <4>4, Below
    <3> QED
      BY <2>1, <2>3, <3>1, <3>2 DEF Settled, StampsInThePast, AfterError, Fate
  <2>4. CASE db'[row[v].job] # db[row[v].job] /\ v = w
    BY <2>1, <2>4 DEF Settled, Leave, StaleStampsAreOld, StampsInThePast
  <2> QED
    BY <2>2, <2>3, <2>4
<1>9. ASSUME NEW v \in Workers, NEW k \in Plain, Holds(v, k)'
      PROVE  Holds(v, k) /\ db'[k] = db[k]
  BY <1>1, <1>3, <1>9 DEF Holds, Settled, AfterError, Fate
<1>10. PlainClaimExclusive'
  BY <1>9 DEF PlainClaimExclusive, OneHolder
<1>11. RememberedAttempts'
  BY <1>1, <1>2, <1>3, <1>9 DEF RememberedAttempts, Holds, ClaimedRowStillPending
<1>12. AttemptsBounded'
  BY DEF AttemptsBounded, RememberedAttempts, Settled, AfterError, Fate, Holds
<1> QED
  BY <1>5, <1>6, <1>7, <1>8, <1>10, <1>11, <1>12

LEMMA FinishEffect ==
  ASSUME IndInv, NEW w \in Workers, pc[w] \in Busy, NEW s, Finish(w, s)
  PROVE  \/ Holds(w, row[w].job) /\ Settled(w, s, db[row[w].job].attempts + 1)
         \/ ~ Holds(w, row[w].job) /\ db' = db
<1> DEFINE j == row[w].job
<1>1. CASE Holds(w, j)
  <2>1. j \in Jobs /\ db \in [Jobs -> JobRow]
    BY DEF IndInv, TypeOK
  <2>2. db' = [db EXCEPT ![j].status = s, ![j].attempts = @ + 1, ![j].updated = now]
    BY <1>1 DEF Finish
  <2> QED
    BY <1>1, <2>1, <2>2 DEF Settled, JobRow
<1>2. CASE ~ Holds(w, j)
  BY <1>2 DEF Finish
<1> QED
  BY <1>1, <1>2

LEMMA RequeueEffect ==
  ASSUME IndInv, NEW w \in Workers, pc[w] \in Busy, Requeue(w)
  PROVE  \/ Holds(w, row[w].job) /\ Settled(w, "pending", db[row[w].job].attempts)
         \/ ~ Holds(w, row[w].job) /\ db' = db
<1> DEFINE j == row[w].job
<1>1. CASE Holds(w, j)
  <2>1. j \in Jobs /\ db \in [Jobs -> JobRow]
    BY DEF IndInv, TypeOK
  <2>2. db' = [db EXCEPT ![j].status = "pending", ![j].updated = now]
    BY <1>1 DEF Requeue
  <2> QED
    BY <1>1, <2>1, <2>2 DEF Settled, JobRow
<1>2. CASE ~ Holds(w, j)
  BY <1>2 DEF Requeue
<1> QED
  BY <1>1, <1>2

LEMMA InvWorker ==
  ASSUME IndInv, TypeOK', NEW w \in Workers, Worker(w)
  PROVE  Rest'
<1> DEFINE j == row[w].job
<1>1. CASE Claim(w)
  BY <1>1, InvSelect, InvMark DEF Claim
<1>2. CASE FinishDone(w)
  <2>1. db' = db \/ Settled(w, "done", db[j].attempts + 1)
    BY <1>2, FinishEffect DEF FinishDone, Busy
  <2> QED
    BY <1>2, <2>1, InvSettle DEF FinishDone
<1>3. CASE JobError(w)
  BY <1>3, FinishEffect, InvSettle DEF JobError
<1>4. CASE VisionDown(w)
  BY <1>4, RequeueEffect, InvSettle DEF VisionDown, Busy
<1>5. CASE Transient(w)
  BY <1>5, RequeueEffect, InvSettle DEF Transient, Busy
<1>6. CASE RecordRecent(w) \/ Resume(w) \/ WriteError(w) \/ Spawn(w)
  BY <1>6, InvSettle DEF RecordRecent, Resume, WriteError, Spawn
<1> QED
  BY <1>1, <1>2, <1>3, <1>4, <1>5, <1>6 DEF Worker, Attempt, Outage

(***************************************************************************)
(* The reaper stamps a row with a time later than every claim on it; a     *)
(* restart leaves no worker with a row in hand.                            *)
(***************************************************************************)
LEMMA InvBurn ==
  ASSUME IndInv, TypeOK', Reap \/ Restart
  PROVE  Rest'
<1> USE DEF IndInv, Rest, TypeOK, JobRow, ClaimedRow, Plain, Busy
<1>1. ASSUME NEW S \in SUBSET Processing, Burn(S)
      PROVE  /\ \A j \in S : /\ db'[j].status = IF db[j].attempts + 1 < MaxAttempts
                                                THEN "pending" ELSE "failed"
                            /\ db'[j].attempts = db[j].attempts + 1
                            /\ db'[j].updated = now
             /\ \A j \in Jobs \ S : db'[j] = db[j]
  BY <1>1 DEF Burn, Burnt, Fate, Processing
<1>2. CASE Restart
  <2>1. /\ now' = now
        /\ \A v \in Workers : pc'[v] = "off" /\ row'[v].job = NoJob
    BY <1>2 DEF Restart, NoRow
  <2>2. OneClaimer' /\ ClaimedRowStillPending' /\ StaleStampsAreOld' /\ PlainClaimExclusive'
    BY <2>1 DEF OneClaimer, ClaimedRowStillPending, StaleStampsAreOld, PlainClaimExclusive,
                OneHolder, Holds
  <2>3. RememberedAttempts'
    BY <2>1 DEF RememberedAttempts
  <2>4. StampsInThePast'
    BY <1>1, <1>2, <2>1 DEF StampsInThePast, Restart, Processing
  <2>5. AttemptsBounded'
    BY <1>1, <1>2 DEF AttemptsBounded, Restart, Processing
  <2> QED
    BY <2>2, <2>3, <2>4, <2>5
<1>3. CASE Reap
  <2>1. pc' = pc /\ row' = row /\ now' = now /\ Burn(Stuck)
    BY <1>3 DEF Reap
  <2>2. /\ \A j \in Stuck : /\ db'[j].status = IF db[j].attempts + 1 < MaxAttempts
                                             THEN "pending" ELSE "failed"
                         /\ db'[j].attempts = db[j].attempts + 1
                         /\ db'[j].updated = now
        /\ \A j \in Jobs \ Stuck : db'[j] = db[j]
    BY <1>1, <2>1 DEF Stuck
  <2>3. OneClaimer'
    BY <2>1 DEF OneClaimer
  <2>4. \A v \in Workers, j \in Jobs : Holds(v, j)' => Holds(v, j) /\ db'[j] = db[j]
    BY <2>1, <2>2 DEF Holds
  <2>5. PlainClaimExclusive'
    BY <2>4 DEF PlainClaimExclusive, OneHolder
  <2>6. ClaimedRowStillPending'
    BY <2>1, <2>2 DEF ClaimedRowStillPending, Stuck, Processing
  <2>7. StampsInThePast'
    BY <2>1, <2>2 DEF StampsInThePast
  <2>8. StaleStampsAreOld'
    BY <2>1, <2>2 DEF StaleStampsAreOld, Stuck, Processing
  <2>9. RememberedAttempts'
    BY <2>1, <2>2, <2>4 DEF RememberedAttempts, Stuck, Processing, ClaimedRowStillPending
  <2>10. AttemptsBounded'
    BY <2>1, <2>2 DEF AttemptsBounded, Stuck, Processing
  <2> QED
    BY <2>3, <2>5, <2>6, <2>7, <2>8, <2>9, <2>10
<1> QED
  BY <1>2, <1>3

LEMMA InvInit == Init => IndInv
<1> SUFFICES ASSUME Init PROVE IndInv
  OBVIOUS
<1>1. TypeOK
  BY TypeInit
<1>2. Rest
  BY DEF Init, Rest, NoRow, OneClaimer, ClaimedRowStillPending, StampsInThePast,
         StaleStampsAreOld, PlainClaimExclusive, OneHolder, Holds, Busy,
         RememberedAttempts, AttemptsBounded, Plain
<1> QED
  BY <1>1, <1>2 DEF IndInv, Rest

LEMMA InvStep == IndInv /\ [Next]_vars => IndInv'
<1> SUFFICES ASSUME IndInv, [Next]_vars PROVE IndInv'
  OBVIOUS
<1>1. TypeOK'
  BY TypeStep DEF IndInv
<1>2. Rest'
  <2>1. CASE Producer
    BY <1>1, <2>1, InvProducer
  <2>2. CASE \E w \in Workers : Worker(w)
    BY <1>1, <2>2, InvWorker
  <2>3. CASE Reap \/ Restart
    BY <1>1, <2>3, InvBurn
  <2>4. CASE Tick
    BY <2>4 DEF Tick, IndInv, Rest, OneClaimer, ClaimedRowStillPending, StampsInThePast,
         StaleStampsAreOld, PlainClaimExclusive, OneHolder, Holds, RememberedAttempts,
         AttemptsBounded, TypeOK, JobRow, Plain
  <2>5. CASE UNCHANGED vars
    BY <2>5 DEF vars, IndInv, Rest, OneClaimer, ClaimedRowStillPending, StampsInThePast,
         StaleStampsAreOld, PlainClaimExclusive, OneHolder, Holds, RememberedAttempts,
         AttemptsBounded
  <2> QED
    BY <2>1, <2>2, <2>3, <2>4, <2>5 DEF Next
<1> QED
  BY <1>1, <1>2 DEF IndInv, Rest

\* The inductive invariant holds in every reachable state.
THEOREM Invariance == Spec => []IndInv
<1> QED
  BY InvInit, InvStep, PTL DEF Spec

\* For every pool size and timeout, a plain job is never validly held by two
\* workers, so a worker that outlived its claim cannot write the result of
\* another one (the compare-and-set of _finish and _requeue is sufficient).
THEOREM PlainClaimsAreExclusive == Spec => []PlainClaimExclusive
<1>1. IndInv => PlainClaimExclusive
  BY DEF IndInv
<1> QED
  BY <1>1, Invariance, PTL

\* A plain job is attempted at most MAX_ATTEMPTS times between two resets.
THEOREM PlainAttemptsAreBounded == Spec => []AttemptsBounded
<1>1. IndInv => AttemptsBounded
  BY DEF IndInv
<1> QED
  BY <1>1, Invariance, PTL

\* The UPDATE of _claim need not test the status it read: it is still pending.
THEOREM ClaimIsAtomicEnough == Spec => []ClaimedRowStillPending
<1>1. IndInv => ClaimedRowStillPending
  BY DEF IndInv
<1> QED
  BY <1>1, Invariance, PTL


-----------------------------------------------------------------------------
(***************************************************************************)
(* JobQueue implements JobLease: every step of the queue grants, settles,  *)
(* gives back, abandons, revokes, submits or reopens the lease of a plain  *)
(* job, or leaves the leases as they are.                                  *)
(***************************************************************************)
USE MaxAttemptsAssumption

LeaseOf(j) == [status |-> db[j].status, attempts |-> db[j].attempts]
HoldersOf(j) == {w \in Workers : Holds(w, j)}
LeaseJobs == [j \in Plain |-> LeaseOf(j)]
LeaseHolders == [j \in Plain |-> HoldersOf(j)]

(***************************************************************************)
(* When no plain job changes lease or status, the abstract state stutters.  *)
(***************************************************************************)
LEMMA Stutter ==
  ASSUME \A j \in Plain : LeaseOf(j)' = LeaseOf(j) /\ HoldersOf(j)' = HoldersOf(j)
  PROVE  UNCHANGED Lease!leaseVars
<1>1. LeaseJobs' = LeaseJobs /\ LeaseHolders' = LeaseHolders
  BY DEF LeaseJobs, LeaseHolders
<1> QED
  BY <1>1 DEF Lease!leaseVars, LeaseJobs, LeaseHolders, LeaseOf, HoldersOf

LEMMA WorkerLeaseStep ==
  ASSUME NEW j \in Plain, NEW w \in Workers,
         Lease!Grant(j, w) \/ Lease!Settle(j, w) \/ Lease!GiveBack(j, w) \/ Lease!Abandon(j, w)
  PROVE  Lease!Next
BY DEF Lease!Next

\* What the invariant says of the worker that leaves and of its row.
LEMMA RowFacts ==
  ASSUME IndInv, NEW w \in Workers
  PROVE  /\ pc \in [Workers -> Stage] /\ row \in [Workers -> ClaimedRow]
         /\ db \in [Jobs -> JobRow]
         /\ pc[w] \in Busy => row[w].job \in Jobs
BY DEF IndInv, TypeOK

LEMMA LeaseProducer ==
  ASSUME IndInv, Producer
  PROVE  Lease!Next \/ UNCHANGED Lease!leaseVars
<1> USE DEF IndInv, TypeOK, JobRow, Plain
<1>1. ASSUME NEW k \in Jobs, Enqueue(k)
      PROVE  Lease!Next \/ UNCHANGED Lease!leaseVars
  <2>1. /\ \A j \in Jobs \ {k} : db'[j] = db[j]
        /\ db'[k].status = "pending" /\ db'[k].attempts = 0
        /\ db[k].status \notin {"done", "processing"}
        /\ pc' = pc /\ row' = row
    BY <1>1 DEF Enqueue, Fresh
  <2>2. \A j \in Plain : HoldersOf(j)' = HoldersOf(j)
    BY <2>1 DEF HoldersOf, Holds
  <2>3. CASE k \in Plain
    <3>1. /\ LeaseJobs' = [LeaseJobs EXCEPT ![k] = [status |-> "pending", attempts |-> 0]]
          /\ LeaseHolders' = LeaseHolders
      BY <2>1, <2>2, <2>3 DEF LeaseJobs, LeaseHolders, LeaseOf
    <3>2. Lease!Submit(k)
      BY <2>1, <2>3, <3>1 DEF Lease!Submit, Lease!To, LeaseJobs, LeaseHolders, LeaseOf, HoldersOf
    <3> QED
      BY <2>3, <3>2 DEF Lease!Next
  <2>4. CASE k \notin Plain
    <3>1. \A j \in Plain : LeaseOf(j)' = LeaseOf(j)
      BY <2>1, <2>4 DEF LeaseOf
    <3> QED
      BY <2>2, <3>1, Stutter
  <2> QED
    BY <2>3, <2>4
<1>2. ASSUME NEW k \in Jobs, DescribeNow(k)
      PROVE  UNCHANGED Lease!leaseVars
  <2>1. /\ \A j \in Jobs \ {k} : db'[j] = db[j]
        /\ k \in Images
        /\ pc' = pc /\ row' = row
    BY <1>2 DEF DescribeNow
  <2>2. \A j \in Plain : LeaseOf(j)' = LeaseOf(j) /\ HoldersOf(j)' = HoldersOf(j)
    BY <2>1 DEF LeaseOf, HoldersOf, Holds
  <2> QED
    BY <2>2, Stutter
<1>3. ASSUME NEW S \in SUBSET Failed, RetryFailed(S)
      PROVE  Lease!Next
  <2>1. /\ \A j \in S : /\ db[j].status = "failed"
                      /\ db'[j].status = "pending" /\ db'[j].attempts = 0
        /\ \A j \in Jobs \ S : db'[j] = db[j]
        /\ pc' = pc /\ row' = row
    BY <1>3 DEF RetryFailed, Failed, Fresh
  <2>2. \A j \in Plain : HoldersOf(j)' = HoldersOf(j)
    BY <2>1 DEF HoldersOf, Holds
  <2>3. Lease!Reopen(S \cap Plain)
    BY <2>1, <2>2 DEF Lease!Reopen, HoldersOf
  <2> QED
    BY <2>3 DEF Lease!Next
<1> QED
  BY <1>1, <1>2, <1>3 DEF Producer

LEMMA LeaseClaim ==
  ASSUME IndInv, NEW w \in Workers, Claim(w)
  PROVE  Lease!Next \/ UNCHANGED Lease!leaseVars
<1> USE DEF IndInv, TypeOK, JobRow, ClaimedRow, Plain, Busy
<1>1. CASE SelectPending(w)
  <2>1. /\ db' = db /\ pc[w] = "idle" /\ pc'[w] = "claiming"
        /\ \A v \in Workers \ {w} : pc'[v] = pc[v] /\ row'[v] = row[v]
    BY <1>1 DEF SelectPending
  <2>2. \A j \in Plain : LeaseOf(j)' = LeaseOf(j) /\ HoldersOf(j)' = HoldersOf(j)
    BY <2>1 DEF LeaseOf, HoldersOf, Holds
  <2> QED
    BY <2>2, Stutter
<1>2. CASE MarkProcessing(w)
  <2>0. PICK j \in Jobs : j = row[w].job
    BY <1>2 DEF MarkProcessing
  <2>1. pc[w] = "claiming" /\ db[j].status = "pending"
    BY <1>2, <2>0 DEF MarkProcessing, ClaimedRowStillPending
  <2>2. /\ now' = now
        /\ pc' = [pc EXCEPT ![w] = "running"]
        /\ row' = [row EXCEPT ![w].ts = now]
        /\ \A k \in Jobs \ {j} : db'[k] = db[k]
        /\ db'[j].status = "processing" /\ db'[j].updated = now
        /\ db'[j].attempts = db[j].attempts
    BY <1>2, <2>0, <2>1 DEF MarkProcessing
  <2>3. \A k \in Plain : w \notin HoldersOf(k)
    BY <2>1 DEF HoldersOf, Holds
  <2>4. \A k \in Plain \ {j} : LeaseOf(k)' = LeaseOf(k) /\ HoldersOf(k)' = HoldersOf(k)
    BY <2>0, <2>1, <2>2 DEF LeaseOf, HoldersOf, Holds
  <2>5. CASE j \in Plain
    <3>1. HoldersOf(j) = {}
      BY <2>1 DEF HoldersOf, Holds
    <3>2. HoldersOf(j)' = {w}
      <4>1. Holds(w, j)'
        BY <2>0, <2>1, <2>2 DEF Holds
      <4>2. ASSUME NEW v \in Workers, v # w, Holds(v, j)'
            PROVE  FALSE
        <5>1. pc[v] \in Busy /\ row[v].job = j /\ row[v].ts = now
          BY <2>0, <2>1, <2>2, <4>2 DEF Holds
        <5>2. row[v].ts < db[j].updated /\ db[j].updated <= now
          BY <2>1, <2>5, <5>1 DEF StaleStampsAreOld, StampsInThePast
        <5> QED
          BY <2>1, <5>1, <5>2
      <4> QED
        BY <4>1, <4>2 DEF HoldersOf
    <3>3. /\ LeaseJobs' = [LeaseJobs EXCEPT ![j] = [status |-> "processing",
                                                   attempts |-> db[j].attempts]]
          /\ LeaseHolders' = [LeaseHolders EXCEPT ![j] = {w}]
      BY <2>2, <2>4, <2>5, <3>2 DEF LeaseJobs, LeaseHolders, LeaseOf
    <3>4. Lease!Grant(j, w)
      BY <2>1, <2>3, <2>5, <3>1, <3>3
      DEF Lease!Grant, Lease!To, LeaseJobs, LeaseHolders, LeaseOf, HoldersOf
    <3> QED
      BY <2>5, <3>4, WorkerLeaseStep
  <2>6. CASE j \notin Plain
    BY <2>4, <2>6, Stutter
  <2> QED
    BY <2>5, <2>6
<1> QED
  BY <1>1, <1>2 DEF Claim

(***************************************************************************)
(* A worker that leaves its claim: it settles it or gives it back when it  *)
(* holds it, abandons it when the write failed, and does nothing when the  *)
(* claim was lost.                                                         *)
(***************************************************************************)
LEMMA LeaseLeave ==
  ASSUME IndInv, NEW w \in Workers, NEW j, j = row[w].job,
         \A v \in Workers \ {w} : pc'[v] = pc[v] /\ row'[v] = row[v],
         \A k \in Plain : ~ Holds(w, k)',
         \/ db' = db
         \/ Settled(w, "done", db[j].attempts + 1)
         \/ Settled(w, AfterError(w), db[j].attempts + 1)
         \/ Settled(w, "pending", db[j].attempts)
  PROVE  Lease!Next \/ UNCHANGED Lease!leaseVars
<1>1. \A k \in Plain \ {j} : LeaseOf(k)' = LeaseOf(k) /\ HoldersOf(k)' = HoldersOf(k)
  <2>1. ASSUME NEW k \in Plain, k # j
        PROVE  db'[k] = db[k] /\ ~ Holds(w, k)
    BY <2>1 DEF Settled, Holds, Plain
  <2>2. ASSUME NEW k \in Plain, k # j, NEW v \in Workers
        PROVE  Holds(v, k)' <=> Holds(v, k)
    BY <2>1, <2>2 DEF Holds
  <2> QED
    BY <2>1, <2>2 DEF LeaseOf, HoldersOf
<1>2. CASE j \notin Plain
  <2>1. \A k \in Plain : k # j
    BY <1>2
  <2> QED
    BY <1>1, <2>1, Stutter
<1>3. CASE j \in Plain /\ ~ Holds(w, j)
  <2>1. db' = db
    BY <1>3 DEF Settled
  <2>2. \A v \in Workers : Holds(v, j)' <=> Holds(v, j)
    BY <1>3, <2>1 DEF Holds
  <2>3. HoldersOf(j)' = HoldersOf(j) /\ LeaseOf(j)' = LeaseOf(j)
    BY <2>1, <2>2 DEF HoldersOf, LeaseOf
  <2> QED
    BY <1>1, <2>3, Stutter
<1>4. CASE j \in Plain /\ Holds(w, j)
  <2>1. HoldersOf(j) = {w}
    BY <1>4 DEF HoldersOf, IndInv, PlainClaimExclusive, OneHolder
  <2>2. HoldersOf(j)' = {}
    <3>1. CASE db' = db
      BY <1>4, <2>1, <3>1 DEF HoldersOf, Holds
    <3>2. CASE db'[j].status # "processing"
      BY <3>2 DEF HoldersOf, Holds
    <3> QED
      BY <3>1, <3>2 DEF Settled, AfterError, Fate
  <2>3. LeaseHolders' = [LeaseHolders EXCEPT ![j] = {}]
    BY <1>1, <1>4, <2>2 DEF LeaseHolders
  <2>4. \A s, a : LeaseOf(j)' = [status |-> s, attempts |-> a]
            => LeaseJobs' = [LeaseJobs EXCEPT ![j] = [status |-> s, attempts |-> a]]
    BY <1>1, <1>4 DEF LeaseJobs
  <2>5. CASE db' = db
    <3>1. Lease!Abandon(j, w)
      BY <1>4, <2>1, <2>3, <2>5
      DEF Lease!Abandon, Lease!End, LeaseHolders, HoldersOf, Holds
    <3> QED
      BY <1>4, <3>1, WorkerLeaseStep
  <2>6. CASE \/ Settled(w, "done", db[j].attempts + 1)
             \/ Settled(w, AfterError(w), db[j].attempts + 1)
    <3>1. PICK s \in {"done", AfterError(w)} : Settled(w, s, db[j].attempts + 1)
      BY <2>6
    <3>2. LeaseJobs' = [LeaseJobs EXCEPT ![j] = [status |-> s, attempts |-> db[j].attempts + 1]]
      BY <2>4, <3>1 DEF Settled, LeaseOf
    <3>3. s = "pending" => db[j].attempts + 1 < MaxAttempts
      <4>1. db[j].attempts <= row[w].attempts
        BY <1>4 DEF IndInv, RememberedAttempts
      <4>2. db[j].attempts \in Nat /\ row[w].attempts \in Nat
        BY <1>4, RowFacts DEF Plain, JobRow, ClaimedRow
      <4>3. s = "pending" => row[w].attempts + 1 < MaxAttempts
        BY <3>1 DEF AfterError, Fate
      <4> QED
        BY <4>1, <4>2, <4>3
    <3>4. s \in {"done", "failed", "pending"}
      BY <3>1 DEF AfterError, Fate
    <3>5. Lease!Settle(j, w)
      BY <1>4, <2>1, <2>3, <3>2, <3>3, <3>4
      DEF Lease!Settle, Lease!To, Lease!End, LeaseJobs, LeaseHolders, LeaseOf, HoldersOf
    <3> QED
      BY <1>4, <3>5, WorkerLeaseStep
  <2>7. CASE Settled(w, "pending", db[j].attempts)
    <3>1. LeaseJobs' = [LeaseJobs EXCEPT ![j] = [status |-> "pending", attempts |-> db[j].attempts]]
      <4>1. LeaseOf(j)' = [status |-> "pending", attempts |-> db[j].attempts]
        BY <2>7 DEF Settled, LeaseOf
      <4> QED
        BY <2>4, <4>1
    <3>2. Lease!GiveBack(j, w)
      BY <1>4, <2>1, <2>3, <3>1
      DEF Lease!GiveBack, Lease!To, Lease!End, LeaseJobs, LeaseHolders, LeaseOf, HoldersOf
    <3> QED
      BY <1>4, <3>2, WorkerLeaseStep
  <2> QED
    BY <2>5, <2>6, <2>7
<1> QED
  BY <1>2, <1>3, <1>4

LEMMA LeaseWorker ==
  ASSUME IndInv, NEW w \in Workers, Worker(w)
  PROVE  Lease!Next \/ UNCHANGED Lease!leaseVars
<1>j. PICK j : j = row[w].job
  OBVIOUS
<1>0. /\ pc \in [Workers -> Stage] /\ row \in [Workers -> ClaimedRow]
      /\ db \in [Jobs -> JobRow]
      /\ pc[w] \in Busy => j \in Jobs
  BY <1>j, RowFacts
<1>a. ASSUME NEW stage \in {"idle", "waiting", "backoff"}, Leave(w, stage)
      PROVE  /\ \A v \in Workers \ {w} : pc'[v] = pc[v] /\ row'[v] = row[v]
             /\ \A k \in Plain : ~ Holds(w, k)'
  BY <1>0, <1>a DEF Leave, Holds, Busy
<1>1. CASE Claim(w)
  BY <1>1, LeaseClaim
<1>2. CASE FinishDone(w)
  <2>1. pc[w] \in Busy /\ Finish(w, "done")
    BY <1>2 DEF FinishDone, Busy
  <2>2. (Holds(w, j) /\ Settled(w, "done", db[j].attempts + 1)) \/ (~ Holds(w, j) /\ db' = db)
    BY <1>j, <2>1, FinishEffect
  <2>3. CASE Leave(w, "idle")
    BY <1>a, <2>2, <2>3, <1>j, LeaseLeave
  <2>4. CASE pc' = [pc EXCEPT ![w] = "recording"] /\ UNCHANGED row
    <3>1. \A k \in Plain : ~ Holds(w, k)'
      BY <1>j, <2>1, <2>2, <2>4 DEF Holds, Settled
    <3>2. \A v \in Workers \ {w} : pc'[v] = pc[v] /\ row'[v] = row[v]
      BY <1>0, <2>4
    <3> QED
      BY <2>2, <3>1, <3>2, <1>j, LeaseLeave
  <2> QED
    BY <1>2, <2>3, <2>4 DEF FinishDone
<1>3. CASE JobError(w)
  <2>1. pc[w] \in Busy /\ Finish(w, AfterError(w)) /\ Leave(w, "idle")
    BY <1>3 DEF JobError
  <2>2. Settled(w, AfterError(w), db[j].attempts + 1) \/ db' = db
    BY <1>j, <2>1, FinishEffect
  <2> QED
    BY <1>a, <2>1, <2>2, <1>j, LeaseLeave
<1>4. CASE VisionDown(w) \/ Transient(w)
  <2>1. pc[w] \in Busy /\ Requeue(w) /\ (Leave(w, "waiting") \/ Leave(w, "backoff"))
    BY <1>4 DEF VisionDown, Transient, Busy
  <2>2. Settled(w, "pending", db[j].attempts) \/ db' = db
    BY <1>j, <2>1, RequeueEffect
  <2> QED
    BY <1>a, <2>1, <2>2, <1>j, LeaseLeave
<1>5. CASE RecordRecent(w) \/ Resume(w) \/ WriteError(w) \/ Spawn(w)
  BY <1>5, <1>a, <1>j, LeaseLeave DEF RecordRecent, Resume, WriteError, Spawn
<1> QED
  BY <1>1, <1>2, <1>3, <1>4, <1>5 DEF Worker, Attempt, Outage

LEMMA LeaseBurn ==
  ASSUME IndInv, Reap \/ Restart
  PROVE  Lease!Next
<1>1. ASSUME NEW S, S \subseteq Processing, Burn(S),
             \A j \in Plain \ S : HoldersOf(j)' = HoldersOf(j)
      PROVE  Lease!Next
  <2>1. \A j \in S : j \in Jobs /\ db[j].status = "processing" /\ db'[j] = Burnt(db[j])
    BY <1>1 DEF Burn, Processing
  <2>2. \A j \in Jobs \ S : db'[j] = db[j]
    BY <1>1 DEF Burn
  <2>3. ASSUME NEW j \in S
        PROVE  LeaseOf(j)' = [status |-> Fate(db[j].attempts),
                              attempts |-> db[j].attempts + 1]
    <3>1. db'[j] = Burnt(db[j])
      BY <2>1
    <3>2. db'[j].status = Fate(db[j].attempts) /\ db'[j].attempts = db[j].attempts + 1
      BY <3>1 DEF Burnt
    <3> QED
      BY <3>2 DEF LeaseOf
  <2>4. ASSUME NEW j \in S
        PROVE  HoldersOf(j)' = {}
    <3>1. db'[j] = Burnt(db[j])
      BY <2>1
    <3>2. db'[j].status \in {"pending", "failed"}
      BY <3>1 DEF Burnt, Fate
    <3> QED
      BY <3>2 DEF HoldersOf, Holds
  <2>5. LeaseJobs' = [j \in Plain |->
                        IF j \in S \cap Plain
                        THEN [status |-> Lease!Fate(LeaseJobs[j].attempts),
                              attempts |-> LeaseJobs[j].attempts + 1]
                        ELSE LeaseJobs[j]]
    <3>1. \A j \in Plain : LeaseJobs[j].attempts = db[j].attempts
      BY DEF LeaseJobs, LeaseOf
    <3>2. \A j \in Plain \ S : LeaseOf(j)' = LeaseJobs[j]
      BY <2>2 DEF LeaseJobs, LeaseOf, Plain
    <3>3. \A a : Lease!Fate(a) = Fate(a)
      BY DEF Lease!Fate, Fate
    <3> QED
      BY <2>3, <3>1, <3>2, <3>3 DEF LeaseJobs
  <2>6. LeaseHolders' = [j \in Plain |-> IF j \in S \cap Plain THEN {} ELSE LeaseHolders[j]]
    BY <1>1, <2>4 DEF LeaseHolders
  <2>7. Lease!Revoke(S \cap Plain)
    BY <2>1, <2>5, <2>6 DEF Lease!Revoke, LeaseJobs, LeaseHolders, LeaseOf, HoldersOf
  <2> QED
    BY <2>7 DEF Lease!Next
<1>2. CASE Reap
  <2> PICK S : S = Stuck
    OBVIOUS
  <2>1. /\ S \subseteq Processing /\ Burn(S) /\ pc' = pc /\ row' = row
        /\ \A j \in Jobs \ S : db'[j] = db[j]
    BY <1>2 DEF Reap, Stuck, Burn, Processing
  <2>2. \A j \in Plain \ S : HoldersOf(j)' = HoldersOf(j)
    BY <2>1 DEF HoldersOf, Holds, Plain
  <2> QED
    BY <1>1, <2>1, <2>2
<1>3. CASE Restart
  <2> PICK S : S = Processing
    OBVIOUS
  <2>1. /\ S \subseteq Processing /\ Burn(S) /\ \A v \in Workers : pc'[v] \notin Busy
        /\ \A j \in Jobs \ S : db'[j] = db[j] /\ db[j].status # "processing"
    BY <1>3 DEF Restart, Busy, Burn, Processing
  <2>2. \A j \in Plain \ S : HoldersOf(j)' = HoldersOf(j)
    BY <2>1 DEF HoldersOf, Holds, Plain
  <2> QED
    BY <1>1, <2>1, <2>2
<1> QED
  BY <1>2, <1>3

LEMMA LeaseStep == IndInv /\ [Next]_vars => [Lease!Next]_(Lease!leaseVars)
<1> SUFFICES ASSUME IndInv, [Next]_vars PROVE Lease!Next \/ UNCHANGED Lease!leaseVars
  OBVIOUS
<1>1. CASE Producer
  BY <1>1, LeaseProducer
<1>2. CASE \E w \in Workers : Worker(w)
  BY <1>2, LeaseWorker
<1>3. CASE Reap \/ Restart
  BY <1>3, LeaseBurn
<1>4. CASE Tick \/ UNCHANGED vars
  <2>1. db' = db /\ pc' = pc /\ row' = row
    BY <1>4 DEF Tick, vars
  <2>2. \A j \in Plain : LeaseOf(j)' = LeaseOf(j) /\ HoldersOf(j)' = HoldersOf(j)
    BY <2>1 DEF LeaseOf, HoldersOf, Holds
  <2> QED
    BY <2>2, Stutter
<1> QED
  BY <1>1, <1>2, <1>3, <1>4 DEF Next

LEMMA LeaseInit == Init => Lease!Init
BY DEF Init, Lease!Init, Plain, Holds, Busy

\* The compare-and-set queue implements exclusive leases: whatever the number
\* of workers, the timeout and the interleaving, a plain job is settled only
\* by the one worker that holds it, the reaper or a restart.
THEOREM QueueImplementsLease == Spec => ImplementsLease
<1> QED
  BY LeaseInit, LeaseStep, Invariance, PTL DEF Spec, ImplementsLease, Lease!Spec

=============================================================================
