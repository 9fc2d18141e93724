--------------------------- MODULE PipelineProofs ---------------------------
(***************************************************************************)
(* Proofs about Pipeline, for every set of files and workers, every number *)
(* of attempts and every number of versions.                               *)
(***************************************************************************)
EXTENDS Pipeline, TLAPS

LeaseTypes ==
    /\ job \in [Files -> [status : {"absent", "pending", "processing", "done", "failed"},
                          attempts : 0 .. MaxAttempts]]
    /\ holders \in [Files -> SUBSET Workers]

LeaseInv == LeaseTypes /\ AttemptsLeft /\ OneHolder

CloudTypes ==
    /\ version \in [Files -> 0 .. MaxVersion]
    /\ access \in [Files -> Access]
    /\ notice \in [Files -> BOOLEAN]
    /\ tagged \in [Files -> SUBSET (1 .. MaxVersion)]
    /\ marker \in [Files -> 0 .. MaxVersion]
    /\ scanned \in [Files -> SUBSET (1 .. MaxVersion)]
    /\ reason \in [Files -> Reason]
    /\ work \in [Workers -> [at : Stage, file : Files \cup {NoFile}, etag : 0 .. MaxVersion,
                             bytes : 0 .. MaxVersion, reason : Reason]]
    /\ since \in [Files -> 0 .. MaxVersion]

\* What the actions on files and workers have to preserve, the queue apart.
FileInv ==
    /\ CloudTypes /\ OnlyUploaded /\ SinceIsPast
    /\ \A w \in Workers : Carried(w)
    /\ MarkerImpliesTags /\ DoneMeansCaptioned /\ LeaseIsWorkedOn

LEMMA Parts == IndInv <=> LeaseInv /\ FileInv
BY Zenon DEF IndInv, LeaseInv, FileInv, TypeOK, LeaseTypes, CloudTypes

-----------------------------------------------------------------------------
(* The queue is used only by its own operations.                            *)

LEMMA UsesQueue == FileInv /\ [Next]_vars => [Queue!Next]_(Queue!leaseVars)
<1> SUFFICES ASSUME FileInv, [Next]_vars PROVE [Queue!Next]_(Queue!leaseVars)
  OBVIOUS
<1> USE DEF Queue!Next, Queue!leaseVars
<1>1. ASSUME NEW f \in Files, Enqueue(f) PROVE [Queue!Next]_(Queue!leaseVars)
  BY <1>1 DEF Enqueue
<1>2. ASSUME NEW f \in Files,
             Upload(f) \/ OpenShare(f) \/ Notify(f) \/ Overlook(f) \/ Backfill(f)
      PROVE  [Queue!Next]_(Queue!leaseVars)
  BY <1>1, <1>2 DEF Upload, OpenShare, Notify, Overlook, Backfill
<1>3. ASSUME NEW f \in Files, RetryFailed(f) \/ Reap(f)
      PROVE  [Queue!Next]_(Queue!leaseVars)
  <2>1. {f} \in SUBSET Files
    OBVIOUS
  <2> QED
    BY <1>3, <2>1 DEF RetryFailed, Reap
<1>4. ASSUME NEW w \in Workers, Claim(w) PROVE [Queue!Next]_(Queue!leaseVars)
  BY <1>4 DEF Claim
<1>5. ASSUME NEW w \in Workers,
             Lookup(w) \/ CheckMarker(w) \/ Download(w) \/ WriteResults(w)
             \/ SetMarker(w) \/ ExtractFaces(w)
      PROVE  [Queue!Next]_(Queue!leaseVars)
  BY <1>5 DEF Lookup, CheckMarker, Download, WriteResults, SetMarker, ExtractFaces
<1>6. ASSUME NEW w \in Workers, Finish(w) \/ Fail(w)
      PROVE  [Queue!Next]_(Queue!leaseVars)
  <2>1. ~ At(w, "idle")
    BY <1>6 DEF Finish, Fail, At
  <2>2. File(w) \in Files
    BY <2>1 DEF FileInv, OnlyUploaded
  <2> QED
    BY <1>6, <2>2 DEF Finish, Fail
<1>7. CASE Restart
  <2>1. {f \in Files : job[f].status = "processing"} \in SUBSET Files
    OBVIOUS
  <2> QED
    BY <1>7, <2>1 DEF Restart
<1>8. CASE UNCHANGED vars
  BY <1>8 DEF vars
<1> QED
  BY <1>2, <1>3, <1>4, <1>5, <1>6, <1>7, <1>8 DEF Next, Process

\* The queue's operations keep its own part of the invariant.
LEMMA LeaseStep == LeaseInv /\ [Queue!Next]_(Queue!leaseVars) => LeaseInv'
<1> SUFFICES ASSUME LeaseInv, [Queue!Next]_(Queue!leaseVars) PROVE LeaseInv'
  OBVIOUS
<1> USE BoundsAssumption DEF LeaseInv, LeaseTypes, AttemptsLeft, OneHolder
<1>1. ASSUME NEW f \in Files, Queue!Submit(f) PROVE LeaseInv'
  BY <1>1 DEF Queue!Submit, Queue!To
<1>2. ASSUME NEW f \in Files, NEW w \in Workers, Queue!Grant(f, w) PROVE LeaseInv'
  BY <1>2 DEF Queue!Grant, Queue!To
<1>3. ASSUME NEW f \in Files, NEW w \in Workers, Queue!Settle(f, w) PROVE LeaseInv'
  <2>1. job[f].status = "processing"
    BY <1>3 DEF Queue!Settle
  <2> QED
    BY <1>3, <2>1 DEF Queue!Settle, Queue!To, Queue!End
<1>4. ASSUME NEW f \in Files, NEW w \in Workers, Queue!GiveBack(f, w) PROVE LeaseInv'
  <2>1. job[f].status = "processing"
    BY <1>4 DEF Queue!GiveBack
  <2> QED
    BY <1>4, <2>1 DEF Queue!GiveBack, Queue!To, Queue!End
<1>5. ASSUME NEW f \in Files, NEW w \in Workers, Queue!Abandon(f, w) PROVE LeaseInv'
  BY <1>5 DEF Queue!Abandon, Queue!End
<1>6. ASSUME NEW S \in SUBSET Files, Queue!Reopen(S) PROVE LeaseInv'
  BY <1>6 DEF Queue!Reopen
<1>7. ASSUME NEW S \in SUBSET Files, Queue!Revoke(S) PROVE LeaseInv'
  BY <1>7 DEF Queue!Revoke, Queue!Fate
<1>8. CASE UNCHANGED Queue!leaseVars
  BY <1>8 DEF Queue!leaseVars
<1> QED
  BY <1>1, <1>2, <1>3, <1>4, <1>5, <1>6, <1>7, <1>8 DEF Queue!Next

-----------------------------------------------------------------------------
(* The files and the workers.                                               *)

\* What DoneMeansCaptioned, OnlyUploaded and LeaseIsWorkedOn ask of the queue.
LEMMA SubmitKeeps ==
  ASSUME LeaseInv, NEW f \in Files, Enqueue(f)
  PROVE  /\ \A g \in Files : job'[g].status = "done" => job[g].status = "done"
         /\ \A g \in Files : g # f => job'[g] = job[g]
         /\ holders' = holders
BY DEF Enqueue, Queue!Submit, Queue!To, LeaseInv, LeaseTypes

LEMMA UsersKeep ==
  ASSUME LeaseInv, FileInv, NEW f \in Files,
         Upload(f) \/ OpenShare(f) \/ Overlook(f)
  PROVE  FileInv'
<1> USE BoundsAssumption
<1> USE DEF FileInv, CloudTypes, OnlyUploaded, Carried, MarkerImpliesTags, AtLeast,
        DoneMeansCaptioned, LeaseIsWorkedOn, SinceIsPast, At, File, Access
<1>1. CASE Upload(f)
  BY <1>1 DEF Upload, rows
<1>2. CASE OpenShare(f)
  BY <1>2 DEF OpenShare, rows
<1>3. CASE Overlook(f)
  BY <1>3 DEF Overlook, cloud, rows
<1> QED
  BY <1>1, <1>2, <1>3

LEMMA ProducersKeep ==
  ASSUME LeaseInv, FileInv, NEW f \in Files, Notify(f) \/ Backfill(f)
  PROVE  FileInv'
<1> USE BoundsAssumption
<1> USE DEF FileInv, CloudTypes, OnlyUploaded, Carried, MarkerImpliesTags, AtLeast,
        DoneMeansCaptioned, LeaseIsWorkedOn, SinceIsPast, At, File, Access
<1>1. CASE Notify(f)
  BY <1>1, SubmitKeeps DEF Notify, cloud, rows
<1>2. CASE Backfill(f)
  BY <1>2, SubmitKeeps DEF Backfill, rows
<1> QED
  BY <1>1, <1>2

\* The queue's operations on a whole set of jobs.
LEMMA TakingBackKeeps ==
  ASSUME LeaseInv, FileInv,
         Restart \/ \E f \in Files : RetryFailed(f) \/ Reap(f)
  PROVE  FileInv'
<1> USE BoundsAssumption
<1> USE DEF FileInv, CloudTypes, OnlyUploaded, Carried, MarkerImpliesTags, AtLeast,
        DoneMeansCaptioned, LeaseIsWorkedOn, SinceIsPast, At, File, Access
<1>1. ASSUME NEW f \in Files, RetryFailed(f) PROVE FileInv'
  BY <1>1 DEF RetryFailed, Queue!Reopen, cloud, rows, LeaseInv, LeaseTypes
<1>2. ASSUME NEW f \in Files, Reap(f) PROVE FileInv'
  BY <1>2 DEF Reap, Queue!Revoke, Queue!Fate, cloud, rows, LeaseInv, LeaseTypes
<1>3. CASE Restart
  <2>1. /\ \A f \in Files : holders'[f] = {}
        /\ \A f \in Files : job'[f].status = "done" => job[f].status = "done"
        /\ \A f \in Files : job'[f].status # "absent" => job[f].status # "absent"
    BY <1>3 DEF Restart, Queue!Revoke, Queue!Fate, LeaseInv, LeaseTypes, OneHolder
  <2> QED
    BY <1>3, <2>1 DEF Restart, cloud, rows, Idle, Hand, Stage, Reason
<1> QED
  BY <1>1, <1>2, <1>3

LEMMA ClaimKeeps ==
  ASSUME LeaseInv, FileInv, NEW w \in Workers, Claim(w)
  PROVE  FileInv'
<1>1. PICK f \in Files :
         /\ Queue!Grant(f, w)
         /\ work' = [work EXCEPT ![w] = [at |-> "lookup", file |-> f,
                                         etag |-> 0, bytes |-> 0, reason |-> "none"]]
         /\ since' = [since EXCEPT ![f] = version[f]]
  BY DEF Claim, Hand
<1>2. DOMAIN work = Workers
  BY DEF FileInv, CloudTypes
<1>3. /\ work'[w].at = "lookup" /\ work'[w].file = f
      /\ work'[w].etag = 0 /\ work'[w].bytes = 0
  BY <1>1, <1>2
<1>4. /\ version[f] > 0
      /\ \A g \in Files : job'[g].status = "done" => job[g].status = "done"
      /\ \A g \in Files : job'[g].status # "absent" => job[g].status # "absent"
      /\ \A g \in Files, v \in Workers : v \in holders'[g] =>
            (v = w /\ g = f) \/ (v # w /\ g # f /\ v \in holders[g])
  BY <1>1 DEF Queue!Grant, Queue!To, LeaseInv, LeaseTypes, FileInv, CloudTypes, OnlyUploaded
<1>5. \A v \in Workers : v # w => work'[v] = work[v]
  BY <1>1, <1>2
<1>6. UNCHANGED <<cloud, notice, reason>>
  BY DEF Claim
<1>7. version' = version /\ access' = access /\ notice' = notice
      /\ tagged' = tagged /\ marker' = marker /\ scanned' = scanned /\ reason' = reason
  BY <1>6 DEF cloud
<1>14. /\ \A g \in Files : g # f => since'[g] = since[g]
       /\ since' \in [Files -> 0 .. MaxVersion] /\ since'[f] = version[f]
       /\ job'[f].status # "done"
  BY <1>1 DEF FileInv, CloudTypes, Queue!Grant, Queue!To, LeaseInv, LeaseTypes
<1> USE BoundsAssumption
<1> USE DEF FileInv, CloudTypes, OnlyUploaded, Carried, MarkerImpliesTags, AtLeast,
        DoneMeansCaptioned, LeaseIsWorkedOn, SinceIsPast, At, File, Access
<1>8. CloudTypes'
  <2>1. [at |-> "lookup", file |-> f, etag |-> 0, bytes |-> 0, reason |-> "none"]
           \in [at : Stage, file : Files \cup {NoFile}, etag : 0 .. MaxVersion,
               bytes : 0 .. MaxVersion, reason : Reason]
    BY DEF Stage, Reason
  <2>2. work' \in [Workers -> [at : Stage, file : Files \cup {NoFile}, etag : 0 .. MaxVersion,
                              bytes : 0 .. MaxVersion, reason : Reason]]
    BY <1>1, <2>1
  <2> QED
    BY <1>7, <1>14, <2>2
<1>9. OnlyUploaded'
  BY <1>1, <1>3, <1>4, <1>5, <1>7
<1>10. \A v \in Workers : Carried(v)'
  <2>1. Carried(w)'
    BY <1>3, <1>7
  <2>2. ASSUME NEW v \in Workers, v # w, ~ At(v, "idle") PROVE Carried(v)'
    <3>1. /\ work'[v] = work[v] /\ File(v) \in Files
          /\ v \in holders'[File(v)] => v \in holders[File(v)] /\ File(v) # f
      BY <1>4, <1>5, <2>2
    <3> QED
      BY <1>7, <1>14, <3>1
  <2>3. ASSUME NEW v \in Workers, v # w, At(v, "idle") PROVE Carried(v)'
    BY <1>5, <2>3
  <2> QED
    BY <2>1, <2>2, <2>3
<1>11. MarkerImpliesTags'
  BY <1>7
<1>12. DoneMeansCaptioned'
  BY <1>1, <1>3, <1>4, <1>5, <1>7, <1>14
<1>13. LeaseIsWorkedOn'
  BY <1>1, <1>3, <1>4, <1>5
<1>15. SinceIsPast'
  BY <1>7, <1>14
<1> QED
  BY <1>8, <1>9, <1>10, <1>11, <1>12, <1>13, <1>15

LEMMA ProcessKeeps ==
  ASSUME LeaseInv, FileInv, NEW w \in Workers,
         Lookup(w) \/ CheckMarker(w) \/ Download(w) \/ WriteResults(w)
         \/ SetMarker(w) \/ ExtractFaces(w)
  PROVE  FileInv'
<1> USE BoundsAssumption
<1> USE DEF FileInv, CloudTypes, OnlyUploaded, Carried, MarkerImpliesTags, AtLeast,
        DoneMeansCaptioned, LeaseIsWorkedOn, SinceIsPast, At, File, Access, Go, Stage,
        Reason, Refusals
<1>1. ~ At(w, "idle")
  BY DEF Lookup, CheckMarker, Download, WriteResults, SetMarker, ExtractFaces
<1>2. File(w) \in Files /\ version[File(w)] > 0
  BY <1>1
<1>3. CASE Lookup(w)
  <2>1. /\ At(w, "lookup")
        /\ UNCHANGED <<job, holders, version, access, notice, tagged, marker, scanned,
                       reason, since>>
    BY <1>3 DEF Lookup, cloud, rows
  <2>2. PICK at \in {"check", "finish"}, why \in Reason :
          /\ work' = [work EXCEPT ![w] = [work[w] EXCEPT !.etag = version[File(w)], !.at = at,
                                                       !.reason = why]]
          /\ at = "finish" => why \in Refusals
          /\ at = "check" => why = work[w].reason /\ access[File(w)] # "readonly"
    BY <1>3 DEF Lookup, Skip
  <2>3. /\ \A v \in Workers : work'[v].file = work[v].file
        /\ \A v \in Workers : v # w => work'[v] = work[v]
        /\ work'[w].at = at /\ work'[w].reason = why
        /\ work'[w].etag = version[File(w)] /\ work'[w].bytes = work[w].bytes
    BY <2>2
  <2>4. work' \in [Workers -> [at : Stage, file : Files \cup {NoFile}, etag : 0 .. MaxVersion,
                              bytes : 0 .. MaxVersion, reason : Reason]]
    <3>1. work[w] \in [at : Stage, file : Files \cup {NoFile}, etag : 0 .. MaxVersion,
                       bytes : 0 .. MaxVersion, reason : Reason]
      OBVIOUS
    <3>2. at \in Stage /\ version[File(w)] \in 0 .. MaxVersion
      BY <1>2
    <3> HIDE DEF Stage, Reason
    <3>3. [work[w] EXCEPT !.etag = version[File(w)], !.at = at, !.reason = why]
            \in [at : Stage, file : Files \cup {NoFile}, etag : 0 .. MaxVersion,
                bytes : 0 .. MaxVersion, reason : Reason]
      BY <3>1, <3>2
    <3> QED
      BY <2>2, <3>3
  <2>5. CloudTypes' /\ SinceIsPast'
    BY <2>1, <2>4
  <2>6. OnlyUploaded'
    BY <2>1, <2>3
  <2>7. LeaseIsWorkedOn'
    BY <2>1, <2>3
  <2>8. \A v \in Workers : Carried(v)'
    <3>1. \A v \in Workers : v # w => Carried(v)'
      BY <2>1, <2>3
    <3>2. Carried(w)'
      BY <1>2, <2>1, <2>2, <2>3
    <3> QED
      BY <3>1, <3>2
  <2>9. MarkerImpliesTags' /\ DoneMeansCaptioned'
    BY <2>1
  <2> QED
    BY <2>5, <2>6, <2>7, <2>8, <2>9
<1>4. CASE CheckMarker(w)
  <2>1. /\ At(w, "check")
        /\ UNCHANGED <<job, holders, version, access, notice, tagged, marker, scanned,
                       reason, since>>
    BY <1>4 DEF CheckMarker, cloud, rows
  <2>2. \/ work' = [work EXCEPT ![w].at = "download"]
        \/ /\ AtLeast(work[w].etag, tagged[File(w)])
           /\ work' = [work EXCEPT ![w].at = "finish", ![w].reason = "unchanged"]
    BY <1>2, <1>4 DEF CheckMarker
  <2>6. /\ \A v \in Workers : work'[v].file = work[v].file
        /\ \A v \in Workers : v # w => work'[v] = work[v]
        /\ work'[w].at \in {"download", "finish"}
    BY <2>2
  <2>7. work' \in [Workers -> [at : Stage, file : Files \cup {NoFile}, etag : 0 .. MaxVersion,
                              bytes : 0 .. MaxVersion, reason : Reason]]
    <3>1. CASE work' = [work EXCEPT ![w].at = "download"]
      BY <3>1
    <3>2. CASE work' = [work EXCEPT ![w].at = "finish", ![w].reason = "unchanged"]
      <4>1. work' = [work EXCEPT ![w] = [work[w] EXCEPT !.at = "finish", !.reason = "unchanged"]]
        BY <3>2
      <4>2. [work[w] EXCEPT !.at = "finish", !.reason = "unchanged"]
               \in [at : Stage, file : Files \cup {NoFile}, etag : 0 .. MaxVersion,
                   bytes : 0 .. MaxVersion, reason : Reason]
        <5>1. work[w] \in [at : Stage, file : Files \cup {NoFile}, etag : 0 .. MaxVersion,
                           bytes : 0 .. MaxVersion, reason : Reason]
          OBVIOUS
        <5>2. "finish" \in Stage /\ "unchanged" \in Reason
          OBVIOUS
        <5> HIDE DEF Stage, Reason
        <5> QED
          BY <5>1, <5>2
      <4> QED
        BY <4>1, <4>2
    <3> QED
      BY <2>2, <3>1, <3>2
  <2>3. CloudTypes' /\ OnlyUploaded' /\ SinceIsPast' /\ LeaseIsWorkedOn'
    <3>1. CloudTypes' /\ SinceIsPast'
      BY <2>1, <2>7
    <3>2. OnlyUploaded'
      BY <2>1, <2>6
    <3>3. LeaseIsWorkedOn'
      BY <2>1, <2>6
    <3> QED
      BY <3>1, <3>2, <3>3
  <2>4. \A v \in Workers : Carried(v)'
    <3>1. CASE work' = [work EXCEPT ![w].at = "download"]
      BY <1>2, <2>1, <3>1
    <3>2. CASE /\ AtLeast(work[w].etag, tagged[File(w)])
               /\ work' = [work EXCEPT ![w].at = "finish", ![w].reason = "unchanged"]
      <4>1. \A v \in Workers : v # w => work'[v] = work[v]
        BY <3>2
      <4>2. /\ work'[w].at = "finish" /\ work'[w].file = work[w].file
            /\ work'[w].etag = work[w].etag
        BY <3>2
      <4>3. \A v \in Workers : v # w => Carried(v)'
        BY <2>1, <4>1
      <4>4. Carried(w)'
        BY <1>2, <2>1, <3>2, <4>2
      <4> QED
        BY <4>3, <4>4
    <3> QED
      BY <2>2, <3>1, <3>2
  <2>5. MarkerImpliesTags' /\ DoneMeansCaptioned'
    BY <2>1
  <2> QED
    BY <2>3, <2>4, <2>5
<1>5. CASE Download(w)
  <2>1. /\ At(w, "download")
        /\ work' = [work EXCEPT ![w].bytes = version[File(w)], ![w].at = "write"]
        /\ UNCHANGED <<job, holders, version, access, notice, tagged, marker, scanned,
                       reason, since>>
    BY <1>5 DEF Download, cloud, rows
  <2>2. CloudTypes' /\ SinceIsPast'
    BY <1>2, <2>1
  <2>3. OnlyUploaded' /\ LeaseIsWorkedOn'
    BY <2>1
  <2>4. \A v \in Workers : Carried(v)'
    BY <1>2, <2>1
  <2>5. MarkerImpliesTags' /\ DoneMeansCaptioned'
    BY <2>1
  <2> QED
    BY <2>2, <2>3, <2>4, <2>5
<1>6. CASE WriteResults(w)
  <2>1. /\ At(w, "write")
        /\ tagged' = [tagged EXCEPT ![File(w)] = @ \cup {work[w].bytes}]
        /\ work' = [work EXCEPT ![w].at = "mark"]
        /\ UNCHANGED <<job, holders, version, access, notice, marker, scanned, reason, since>>
    BY <1>6 DEF WriteResults, rows
  <2>6. work[w].bytes \in 1 .. MaxVersion
    BY <1>2, <2>1
  <2>7. tagged' \in [Files -> SUBSET (1 .. MaxVersion)]
    BY <1>2, <2>1, <2>6
  <2>8. work' \in [Workers -> [at : Stage, file : Files \cup {NoFile}, etag : 0 .. MaxVersion,
                              bytes : 0 .. MaxVersion, reason : Reason]]
    <3>1. "mark" \in Stage
      OBVIOUS
    <3> HIDE DEF Stage, Reason
    <3>2. [work[w] EXCEPT !.at = "mark"] \in
            [at : Stage, file : Files \cup {NoFile}, etag : 0 .. MaxVersion,
             bytes : 0 .. MaxVersion, reason : Reason]
      BY <3>1
    <3> QED
      BY <2>1, <3>2
  <2>2. CloudTypes' /\ SinceIsPast'
    BY <2>1, <2>7, <2>8
  <2>3. OnlyUploaded' /\ LeaseIsWorkedOn'
    BY <1>2, <2>1
  <2>4. \A v \in Workers : Carried(v)'
    BY <1>2, <2>1
  <2>5. MarkerImpliesTags' /\ DoneMeansCaptioned'
    BY <1>2, <2>1
  <2> QED
    BY <2>2, <2>3, <2>4, <2>5
<1>7. CASE SetMarker(w)
  <2>1. /\ AtLeast(work[w].etag, tagged[File(w)]) /\ At(w, "mark")
        /\ marker' = [marker EXCEPT ![File(w)] = work[w].etag]
        /\ work' = [work EXCEPT ![w].at = "faces"]
        /\ UNCHANGED <<job, holders, version, access, notice, tagged, scanned, reason, since>>
    BY <1>2, <1>7 DEF SetMarker, rows
  <2>2. CloudTypes' /\ OnlyUploaded' /\ SinceIsPast' /\ LeaseIsWorkedOn'
    BY <1>2, <2>1
  <2>3. \A v \in Workers : Carried(v)'
    BY <1>2, <2>1
  <2>4. MarkerImpliesTags'
    BY <1>2, <2>1
  <2>5. DoneMeansCaptioned'
    BY <2>1
  <2> QED
    BY <2>2, <2>3, <2>4, <2>5
<1>8. CASE ExtractFaces(w)
  BY <1>2, <1>8 DEF ExtractFaces, rows
<1> QED
  BY <1>3, <1>4, <1>5, <1>6, <1>7, <1>8

LEMMA EndKeeps ==
  ASSUME LeaseInv, FileInv, NEW w \in Workers, Finish(w) \/ Fail(w)
  PROVE  FileInv'
<1> USE BoundsAssumption
<1> USE DEF FileInv, CloudTypes, OnlyUploaded, Carried, MarkerImpliesTags, AtLeast,
        DoneMeansCaptioned, LeaseIsWorkedOn, SinceIsPast, At, File, Access
<1>1. PICK f \in Files : f = File(w) /\ version[f] > 0
  BY DEF Finish, Fail
<1>2. work' = [work EXCEPT ![w] = [at |-> "idle", file |-> NoFile, etag |-> 0,
                                     bytes |-> 0, reason |-> "none"]]
  BY DEF Finish, Fail, Leave, Idle, Hand
<1>4. /\ \A g \in Files : g # f => job'[g] = job[g] /\ holders'[g] = holders[g]
      /\ w \notin holders'[f]
      /\ holders'[f] \subseteq holders[f]
  <2>1. CASE Queue!Settle(f, w)
    BY <2>1 DEF Queue!Settle, Queue!To, Queue!End, LeaseInv, LeaseTypes
  <2>2. CASE Queue!GiveBack(f, w) \/ Queue!Abandon(f, w)
    BY <2>2 DEF Queue!GiveBack, Queue!Abandon, Queue!To, Queue!End, LeaseInv, LeaseTypes
  <2>3. CASE ~ HasLease(w) /\ UNCHANGED <<job, holders>>
    BY <1>1, <2>3 DEF HasLease, LeaseInv, LeaseTypes, OneHolder
  <2> QED
    BY <1>1, <2>1, <2>2, <2>3 DEF Finish, Fail
<1>5. job'[f].status = "done" => At(w, "finish") \/ job[f].status = "done"
  BY <1>1 DEF Finish, Fail, Queue!GiveBack, Queue!Abandon, Queue!To, LeaseInv, LeaseTypes
<1>3. /\ \A g \in Files : g # f => reason'[g] = reason[g]
      /\ reason' \in [Files -> Reason]
      /\ \/ job'[f].status # "done"
         \/ job[f].status = "done" /\ UNCHANGED reason
         \/ At(w, "finish") /\ w \in holders[f] /\ reason'[f] = work[w].reason
  <2>3. reason \in [Files -> Reason] /\ work[w].reason \in Reason
    OBVIOUS
  <2>1. CASE Finish(w)
    <3>1. CASE UNCHANGED <<job, holders, reason>>
      BY <2>3, <3>1
    <3>2. CASE HasLease(w) /\ reason' = [reason EXCEPT ![File(w)] = work[w].reason]
      BY <1>1, <2>1, <2>3, <3>2 DEF Finish, HasLease
    <3> QED
      BY <2>1, <3>1, <3>2 DEF Finish
  <2>2. CASE Fail(w)
    BY <1>1, <2>2 DEF Fail, rows, Queue!GiveBack, Queue!Abandon, Queue!To, LeaseInv, LeaseTypes
  <2> QED
    BY <2>1, <2>2
<1>6. UNCHANGED <<cloud, notice, since>>
  BY DEF Finish, Fail, rows
<1>7. version' = version /\ access' = access /\ notice' = notice
      /\ tagged' = tagged /\ marker' = marker /\ scanned' = scanned /\ since' = since
  BY <1>6 DEF cloud
<1>8. CloudTypes'
  BY <1>1, <1>2, <1>3, <1>4, <1>5, <1>7 DEF Stage, Reason
<1>9. OnlyUploaded'
  BY <1>1, <1>2, <1>4, <1>5, <1>7
<1>10. \A v \in Workers : Carried(v)'
  BY <1>1, <1>2, <1>4, <1>5, <1>7
<1>11. MarkerImpliesTags'
  BY <1>7
<1>12. DoneMeansCaptioned'
  <2>1. ASSUME NEW g \in Files, g # f, job'[g].status = "done", reason'[g] \notin Refusals
        PROVE  AtLeast(since[g], tagged[g])
    BY <1>3, <1>4, <2>1
  <2>2. ASSUME job'[f].status = "done", reason'[f] \notin Refusals
        PROVE  AtLeast(since[f], tagged[f])
    <3>1. CASE job[f].status = "done" /\ UNCHANGED reason
      BY <1>1, <2>2, <3>1
    <3>2. CASE At(w, "finish") /\ w \in holders[f] /\ reason'[f] = work[w].reason
      <4>1. /\ AtLeast(work[w].etag, tagged[f])
            /\ since[f] <= work[w].etag
        BY <1>1, <2>2, <3>2
      <4> QED
        BY <1>1, <4>1
    <3> QED
      BY <1>3, <2>2, <3>1, <3>2
  <2> QED
    BY <1>7, <2>1, <2>2
<1>13. LeaseIsWorkedOn'
  BY <1>1, <1>2, <1>4, <1>5
<1>14. SinceIsPast'
  BY <1>7
<1> QED
  BY <1>8, <1>9, <1>10, <1>11, <1>12, <1>13, <1>14

LEMMA Step == IndInv /\ [Next]_vars => IndInv'
<1> SUFFICES ASSUME IndInv, [Next]_vars PROVE IndInv'
  OBVIOUS
<1>1. LeaseInv /\ FileInv
  BY Parts
<1>2. LeaseInv'
  BY <1>1, UsesQueue, LeaseStep
<1>3. FileInv'
  <2>1. CASE UNCHANGED vars
    BY <1>1, <2>1
    DEF vars, cloud, rows, FileInv, CloudTypes, OnlyUploaded, Carried, MarkerImpliesTags, AtLeast,
        DoneMeansCaptioned, LeaseIsWorkedOn, SinceIsPast, At, File
  <2> QED
    BY <1>1, <2>1, UsersKeep, ProducersKeep, TakingBackKeeps, ClaimKeeps, ProcessKeeps,
       EndKeeps
    DEF Next, Process
<1>4. IndInv' <=> LeaseInv' /\ FileInv'
  BY Parts, PTL
<1> QED
  BY <1>2, <1>3, <1>4

LEMMA Start == Init => IndInv
BY NoFileAssumption, BoundsAssumption
DEF Init, Queue!Init, IndInv, TypeOK, AttemptsLeft, OneHolder, OnlyUploaded, Carried,
    MarkerImpliesTags, DoneMeansCaptioned, LeaseIsWorkedOn, SinceIsPast, At, File, Idle,
    Hand, Stage, Access, Reason

-----------------------------------------------------------------------------
\* Whatever crashes, retries, concurrent uploads and workers that lost their
\* lease do, what IndInv says of the files, the queue and the workers in
\* process_file holds.
THEOREM Invariance == Spec => []IndInv
<1> QED
  BY Start, Step, PTL DEF Spec

\* Etags, rows and the locals of process_file keep their shape.
THEOREM TypeCorrect == Spec => []TypeOK
<1>1. IndInv => TypeOK
  BY DEF IndInv
<1> QED
  BY <1>1, Invariance, PTL

\* The marker never claims more than was written: a version that set_marker
\* names has its tags from write_results, or a later version does.
THEOREM MarkersAreHonest == Spec => []MarkerImpliesTags
<1>1. IndInv => MarkerImpliesTags
  BY DEF IndInv
<1> QED
  BY <1>1, Invariance, PTL

\* A done job whose row gives no refusal (no file, type, size, read-only share)
\* as its reason has been captioned, in the version it had at its last claim or
\* a later one.
THEOREM DoneIsCaptioned == Spec => []DoneMeansCaptioned
<1>1. IndInv => DoneMeansCaptioned
  BY DEF IndInv
<1> QED
  BY <1>1, Invariance, PTL

\* The composition uses the queue by its own operations only: producers,
\* process_file, reaper and restarts behave as JobLease allows.
THEOREM PipelineKeepsLease == Spec => Queue!Spec
<1>1. Init => Queue!Init
  BY DEF Init
<1>2. IndInv /\ [Next]_vars => [Queue!Next]_(Queue!leaseVars)
  BY Parts, UsesQueue
<1> QED
  BY <1>1, <1>2, Invariance, PTL DEF Spec, Queue!Spec
=============================================================================
