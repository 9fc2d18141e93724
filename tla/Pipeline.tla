------------------------------ MODULE Pipeline ------------------------------
(***************************************************************************)
(* What happens to a file: from the upload notice through the queue and    *)
(* process_file of lib/processor.py to the tags and the marker on the file.*)
(* The queue is the one JobQueue implements, JobLease: a worker that lost  *)
(* its lease goes on in process_file, since nothing fences its calls to    *)
(* Nextcloud, but its result no longer settles the job.                    *)
(*                                                                         *)
(* A content of a file is its version number, which stands for the etag    *)
(* too.  Each call to Nextcloud is a step.  Whether a file is there, of a  *)
(* type that is captioned and small enough is what Nextcloud says at the   *)
(* lookup, which may be otherwise the next time.  Left out: the caption's  *)
(* text, the note and the comment, which are best effort, and forced jobs, *)
(* which JobLease leaves out.  A definition named Bug... is a wrong        *)
(* version of the one that follows it.                                     *)
(***************************************************************************)
EXTENDS Naturals

CONSTANTS Files, Workers, MaxAttempts,
          NoFile,       \* what an idle worker has in hand
          MaxVersion    \* bound on the versions of a file

ASSUME NoFileAssumption == NoFile \notin Files
ASSUME BoundsAssumption == MaxAttempts \in Nat \ {0} /\ MaxVersion \in Nat

VARIABLES
    job, holders,  \* the queue: see JobLease
    version,       \* the content of each file in Nextcloud, 0 before its upload
    access,        \* how the job's user may use the file
    notice,        \* an upload notice (webhook or scan) is still to come
    tagged,        \* the versions whose captions were written as tags
    marker,        \* the processed-etag property on the file, 0 if none
    scanned,       \* the versions handed to extract_faces
    reason,        \* the reason of process_file kept with a job that is done
    work,          \* per worker: where it is in process_file, and its locals
    since          \* history: the version each file had at its job's last claim

cloud == <<version, access, tagged, marker, scanned>>
rows == <<reason, since>>
vars == <<job, holders, cloud, notice, rows, work>>

Queue == INSTANCE JobLease WITH Jobs <- Files

\* A file is writable from the start ("owned"), or it is a received share that
\* is read-only until its owner opens it, and may be crawled again after that.
Access == {"owned", "readonly", "opened", "crawled"}
Stage == {"idle", "lookup", "check", "download", "write", "mark", "faces", "finish"}

\* Why process_file skipped the file: no reason when it captioned it; a file
\* that is gone, a directory, of another type or too large is "refused".
Reason == {"none", "unchanged", "read-only", "refused"}
Refusals == {"read-only", "refused"}

Hand(stage, f) == [at |-> stage, file |-> f, etag |-> 0, bytes |-> 0, reason |-> "none"]
Idle == Hand("idle", NoFile)

Init ==
    /\ Queue!Init
    /\ version = [f \in Files |-> 0]
    /\ access \in [Files -> {"owned", "readonly"}]
    /\ notice = [f \in Files |-> FALSE]
    /\ tagged = [f \in Files |-> {}]
    /\ marker = [f \in Files |-> 0]
    /\ scanned = [f \in Files |-> {}]
    /\ reason = [f \in Files |-> "none"]
    /\ work = [w \in Workers |-> Idle]
    /\ since = [f \in Files |-> 0]

-----------------------------------------------------------------------------
(* Users and Nextcloud.                                                     *)

Upload(f) ==
    /\ version[f] < MaxVersion
    /\ version' = [version EXCEPT ![f] = @ + 1]
    /\ notice' = [notice EXCEPT ![f] = TRUE]
    /\ UNCHANGED <<job, holders, access, tagged, marker, scanned, rows, work>>

OpenShare(f) ==
    /\ access[f] = "readonly"
    /\ access' = [access EXCEPT ![f] = "opened"]
    /\ UNCHANGED <<job, holders, version, notice, tagged, marker, scanned, rows, work>>

-----------------------------------------------------------------------------
(* Producers.                                                               *)

\* enqueue without force leaves done and in-flight rows alone.
Enqueue(f) ==
    \/ Queue!Submit(f)
    \/ job[f].status \in {"done", "processing"} /\ UNCHANGED <<job, holders>>

\* A webhook or the backstop scan; both may report the same version.
Notify(f) ==
    /\ notice[f]
    /\ Enqueue(f)
    /\ \E more \in BOOLEAN : notice' = [notice EXCEPT ![f] = more]
    /\ UNCHANGED <<cloud, rows, work>>

\* The scan passes over what its user cannot write.
Overlook(f) ==
    /\ notice[f] /\ access[f] = "readonly"
    /\ notice' = [notice EXCEPT ![f] = FALSE]
    /\ UNCHANGED <<job, holders, cloud, rows, work>>

\* The crawl of a backfill enqueues whatever it finds.
Backfill(f) ==
    /\ version[f] > 0
    /\ Enqueue(f)
    /\ access' = [access EXCEPT ![f] = IF @ = "opened" THEN "crawled" ELSE @]
    /\ UNCHANGED <<version, tagged, marker, scanned, notice, rows, work>>

RetryFailed(f) ==
    /\ Queue!Reopen({f})
    /\ UNCHANGED <<cloud, notice, rows, work>>

-----------------------------------------------------------------------------
(* A worker in process_file.                                                *)

At(w, stage) == work[w].at = stage
File(w) == work[w].file
Go(w, stage) == work' = [work EXCEPT ![w].at = stage]
Leave(w) == work' = [work EXCEPT ![w] = Idle]

Claim(w) ==
    /\ At(w, "idle")
    /\ \E f \in Files :
          /\ Queue!Grant(f, w)
          /\ work' = [work EXCEPT ![w] = Hand("lookup", f)]
          /\ since' = [since EXCEPT ![f] = version[f]]
    /\ UNCHANGED <<cloud, notice, reason>>

\* process_file returns at the node, which carries the etag of this moment: it
\* captions nothing.
Skip(w, why) ==
    work' = [work EXCEPT ![w].etag = version[File(w)], ![w].at = "finish", ![w].reason = why]

\* by_id and what the node says: no file, a type or a size that is not
\* captioned, a share that cannot be written, or a file to go on with.
Lookup(w) ==
    /\ At(w, "lookup")
    /\ \/ Skip(w, "refused")
       \/ access[File(w)] = "readonly" /\ Skip(w, "read-only")
       \/ /\ access[File(w)] # "readonly"
          /\ work' = [work EXCEPT ![w].etag = version[File(w)], ![w].at = "check"]
    /\ UNCHANGED <<job, holders, cloud, notice, rows>>

\* Any marker counts as processed.
BugCheckMarker(w) ==
    /\ At(w, "check")
    /\ \/ /\ marker[File(w)] > 0
          /\ work' = [work EXCEPT ![w].at = "finish", ![w].reason = "unchanged"]
       \/ marker[File(w)] = 0 /\ Go(w, "download")
    /\ UNCHANGED <<job, holders, cloud, notice, rows>>

\* The marker equals the node's etag: skipped as already processed.
CheckMarker(w) ==
    /\ At(w, "check")
    /\ \/ /\ marker[File(w)] = work[w].etag
          /\ work' = [work EXCEPT ![w].at = "finish", ![w].reason = "unchanged"]
       \/ marker[File(w)] # work[w].etag /\ Go(w, "download")
    /\ UNCHANGED <<job, holders, cloud, notice, rows>>

\* The download has the content of its own moment.  Captioning follows.
Download(w) ==
    /\ At(w, "download")
    /\ work' = [work EXCEPT ![w].bytes = version[File(w)], ![w].at = "write"]
    /\ UNCHANGED <<job, holders, cloud, notice, rows>>

\* The marker is set before the tags are written.
BugMarkFirst(w) ==
    /\ At(w, "write")
    /\ marker' = [marker EXCEPT ![File(w)] = work[w].etag]
    /\ Go(w, "mark")
    /\ UNCHANGED <<job, holders, version, access, notice, tagged, scanned, rows>>

\* write_results.
WriteResults(w) ==
    /\ At(w, "write")
    /\ tagged' = [tagged EXCEPT ![File(w)] = @ \cup {work[w].bytes}]
    /\ Go(w, "mark")
    /\ UNCHANGED <<job, holders, version, access, notice, marker, scanned, rows>>

\* The marker stored is the wrong property of the node.
BugMarkSize(w) ==
    /\ At(w, "mark")
    /\ marker' = [marker EXCEPT ![File(w)] = MaxVersion + 1]
    /\ Go(w, "faces")
    /\ UNCHANGED <<job, holders, version, access, notice, tagged, scanned, rows>>

\* set_marker stores the etag the node had at the lookup.
SetMarker(w) ==
    /\ At(w, "mark")
    /\ marker' = [marker EXCEPT ![File(w)] = work[w].etag]
    /\ Go(w, "faces")
    /\ UNCHANGED <<job, holders, version, access, notice, tagged, scanned, rows>>

\* extract_faces, which never raises.
ExtractFaces(w) ==
    /\ At(w, "faces")
    /\ scanned' = [scanned EXCEPT ![File(w)] = @ \cup {work[w].bytes}]
    /\ Go(w, "finish")
    /\ UNCHANGED <<job, holders, version, access, notice, tagged, marker, rows>>

HasLease(w) == holders[File(w)] = {w}

\* The write is tried until the worker has the lease again.
BugFinishInsists(w) ==
    /\ At(w, "finish")
    /\ HasLease(w) /\ Queue!Settle(File(w), w)
    /\ job'[File(w)].status = "done"
    /\ reason' = [reason EXCEPT ![File(w)] = work[w].reason]
    /\ Leave(w)
    /\ UNCHANGED <<cloud, notice, since>>

\* _finish: nothing is written without the lease.
Finish(w) ==
    /\ At(w, "finish")
    /\ \/ /\ HasLease(w) /\ Queue!Settle(File(w), w)
          /\ job'[File(w)].status = "done"
          /\ reason' = [reason EXCEPT ![File(w)] = work[w].reason]
       \/ ~ HasLease(w) /\ UNCHANGED <<job, holders, reason>>
    /\ Leave(w)
    /\ UNCHANGED <<cloud, notice, since>>

\* A call or a log raised: the attempt is burnt, or (an outage) given back, or
\* the write itself failed and the job stays in processing.
Fail(w) ==
    /\ ~ At(w, "idle")
    /\ \/ /\ HasLease(w) /\ Queue!Settle(File(w), w)
          /\ job'[File(w)].status # "done"
       \/ HasLease(w) /\ Queue!GiveBack(File(w), w)
       \/ HasLease(w) /\ Queue!Abandon(File(w), w)
       \/ ~ HasLease(w) /\ UNCHANGED <<job, holders>>
    /\ Leave(w)
    /\ UNCHANGED <<cloud, notice, rows>>

-----------------------------------------------------------------------------
\* reap_stuck_jobs: the worker that holds the job, if any, goes on.
Reap(f) ==
    /\ Queue!Revoke({f})
    /\ UNCHANGED <<cloud, notice, rows, work>>

\* The container dies and starts again.
Restart ==
    /\ Queue!Revoke({f \in Files : job[f].status = "processing"})
    /\ work' = [w \in Workers |-> Idle]
    /\ UNCHANGED <<cloud, notice, rows>>

Process(w) ==
    \/ Lookup(w) \/ CheckMarker(w) \/ Download(w) \/ WriteResults(w)
    \/ SetMarker(w) \/ ExtractFaces(w) \/ Finish(w)

Next ==
    \/ \E f \in Files : \/ Upload(f) \/ OpenShare(f)
                        \/ Notify(f) \/ Overlook(f) \/ Backfill(f) \/ RetryFailed(f) \/ Reap(f)
    \/ \E w \in Workers : Claim(w) \/ Process(w) \/ Fail(w)
    \/ Restart

Spec == Init /\ [][Next]_vars

-----------------------------------------------------------------------------
\* The queue, the files and the workers' locals have the shape the code gives.
TypeOK ==
    /\ job \in [Files -> [status : {"absent", "pending", "processing", "done", "failed"},
                          attempts : 0 .. MaxAttempts]]
    /\ holders \in [Files -> SUBSET Workers]
    /\ version \in [Files -> 0 .. MaxVersion]
    /\ access \in [Files -> Access]
    /\ notice \in [Files -> BOOLEAN]
    /\ tagged \in [Files -> SUBSET (1 .. MaxVersion)]
    /\ marker \in [Files -> 0 .. MaxVersion]
    /\ scanned \in [Files -> SUBSET (1 .. MaxVersion)]
    /\ reason \in [Files -> Reason]
    /\ work \in [Workers -> [at : Stage, file : Files \cup {NoFile}, etag : 0 .. MaxVersion,
                             bytes : 0 .. MaxVersion, reason : Reason]]
    /\ since \in [Files -> 0 .. MaxVersion]

AtLeast(n, S) == \E v \in S : v >= n

\* The marker never claims more than was written: whatever crashes, retries
\* and workers without a lease do, a version the marker names, or a later one,
\* has its tags (the order of write_results and set_marker in process_file).
MarkerImpliesTags == \A f \in Files : marker[f] > 0 => AtLeast(marker[f], tagged[f])

\* A done job whose row gives no refusal as its reason has been captioned, in
\* the version the file had when the job was last claimed or a later one,
\* possibly by an attempt that did not come to its _finish: what the row says
\* is true of the file whatever workers without a lease, crashes and replaced
\* files did in between.
DoneMeansCaptioned ==
    \A f \in Files :
        job[f].status = "done" /\ reason[f] \notin Refusals => AtLeast(since[f], tagged[f])

\* The strengthening that makes these inductive.

AttemptsLeft ==
    \A f \in Files : job[f].status \in {"pending", "processing"} => job[f].attempts < MaxAttempts

OneHolder ==
    \A f \in Files : \A v, w \in holders[f] : v = w /\ job[f].status = "processing"

\* Nothing is announced, queued or in hand before its upload.
OnlyUploaded ==
    /\ \A f \in Files : notice[f] \/ job[f].status # "absent" => version[f] > 0
    /\ \A w \in Workers : ~ At(w, "idle") => File(w) \in Files /\ version[File(w)] > 0

\* What a worker carries from its lookup and download is never newer than the
\* file, nor older than the file was when it was claimed, and the content it
\* captions is never older than the etag it will mark.
Carried(w) ==
    /\ At(w, "check") \/ At(w, "download") =>
          0 < work[w].etag /\ work[w].etag <= version[File(w)]
    /\ At(w, "write") \/ At(w, "mark") \/ At(w, "faces") =>
          0 < work[w].etag /\ work[w].etag <= work[w].bytes
    /\ At(w, "mark") \/ At(w, "faces") => work[w].bytes \in tagged[File(w)]
    /\ At(w, "finish") /\ work[w].reason \notin Refusals =>
          AtLeast(work[w].etag, tagged[File(w)])
    /\ ~ At(w, "idle") /\ ~ At(w, "lookup") /\ w \in holders[File(w)] =>
          since[File(w)] <= work[w].etag

\* A worker with a lease is in process_file with that file.
LeaseIsWorkedOn ==
    \A f \in Files, w \in Workers :
        w \in holders[f] => File(w) = f /\ ~ At(w, "idle")

\* No job was claimed at a version still to come.
SinceIsPast == \A f \in Files : since[f] <= version[f]

\* The inductive invariant.
IndInv ==
    /\ TypeOK /\ AttemptsLeft /\ OneHolder /\ OnlyUploaded /\ SinceIsPast
    /\ \A w \in Workers : Carried(w)
    /\ MarkerImpliesTags /\ DoneMeansCaptioned /\ LeaseIsWorkedOn

-----------------------------------------------------------------------------
(* What a document says and the code does not keep.                         *)

Settled(f) ==
    /\ job[f].status = "done" /\ ~ notice[f]
    /\ \A w \in Workers : File(w) # f

\* "after making such a share writable, run a backfill to pick its files up"
\* (OPERATIONS.md): once its work is done, a file crawled after it was opened
\* is up to date, unless it is not one that is captioned.
BackfillPicksUp ==
    \A f \in Files :
        Settled(f) /\ access[f] = "crawled" /\ reason[f] # "refused"
            => marker[f] = version[f]
=============================================================================
