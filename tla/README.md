# Verification of recognize_llm

`recognize_llm` is a Nextcloud external app. It captions images and videos with a
local vision model and writes tags, a note and a marker back to Nextcloud, groups
faces into persons, and condenses its own tag vocabulary. This directory holds TLA+
models of its concurrent core, the configurations TLC checks, and proofs checked by
TLAPS. Every definition is translated from `src/lib/*.py`; `PROJECT.json` maps it to
the lines it stands for.

## 1. Inventory

| Component (source) | State | Operations | Talks to |
|---|---|---|---|
| Job queue (`job_queue.py`) | SQLite table `jobs` (status, force, attempts, updated_at), `recent_results`, the row each worker claimed | `enqueue`, `retry_failed`, `_claim`, `_finish`, `_requeue`, `reap_stuck_jobs`, startup reset in `init_db` | everyone: producers write rows, workers drain them |
| Worker pool (`job_queue.Workers`) | `_threads`, `_concurrency`, `_supervisor`, per-thread session, streak and backoff | `start`, `_ensure_workers`, `_supervise`, `_loop`, `_process_one`, `_wait_for_vision`, `stop` | queue, processor, vision client |
| Processor and markers (`processor.py`, `storage.py`, `dav.py`) | in Nextcloud: tags, note, `processed-etag` marker; locally: faces | `process_file`: node, checks, download, caption, write results, set marker, faces | Nextcloud, vision client, alias map, faces |
| New-file detection (`file_events.py`, `routes_events.py`) | `scan_state` watermark per user, webhook secret, registered webhooks | `_scan_user`, `enqueue_from_webhook`, `register_webhooks` | queue |
| Backfill (`routes_backfill.py`) | `_state` flags, `_autocluster_active` | `start`, `stop`, `_crawl`, `_autocluster_when_idle` | queue, faces |
| Tag merge (`tag_merge.py`, `routes_tag_merge.py`) | runs (phase), pairs (status), `tag_aliases`, alias cache, `_state` with generation token | `_analyze`, review, `approve_run`, `discard_run`, `_apply`, `request_stop`, `_rebuild_aliases` | vision client, Nextcloud tags, processor |
| Consolidation algorithms (`tag_consolidation.py`) | none | `sanitize_pairs`, `resolve_mapping`, `compose_aliases`, `apply_aliases`, chunking | tag merge, processor |
| Face persons (`face_pipeline.py`, `routes_people.py`) | `face_embeddings`, `face_persons`, `face_thumbs`, person tags in Nextcloud | `extract_faces`, `cluster_and_tag`, rename, merge, split, ignore | processor, backfill, people UI |
| Task provider (`task_provider.py`) | its thread | `_loop`, `_handle_task` | Nextcloud, vision client |
| Geocoding (`geo.py`) | `geo_cache`, time of the last request | `_lookup`, `_throttled` | Nominatim, Overpass |
| Lifecycle (`main.py`) | the singletons | `lifespan`, `enabled_handler`, `describe_now` | all |
| Vision client, video frames, settings, transport, dashboard pages, app_api patches | none of their own | requests, queries, registration | — |

What is hard here, and what would make each component correct:

* **Queue.** A row is shared by producers (HTTP handlers, poll thread, backfill task),
  worker threads, a supervisor and the next incarnation of the container. Claims are
  leases that expire; the fencing token is a timestamp in whole seconds. Correct means:
  a worker that lost its claim cannot settle somebody else's; attempts are burnt once and
  bounded; nothing stays in `processing`; nothing is retried for ever by crashes.
* **Pool.** `_ensure_workers` runs in several threads without a lock. Correct means: the
  pool comes back to its size after deaths.
* **Processor.** Read–process–write over minutes with an etag as the only version.
  Correct means: a file that changed is captioned again; a retry does not lose a step.
* **Detection.** A watermark over timestamps of whole seconds; a partial failure must not
  lose uploads.
* **Backfill, tag merge.** Background runners with flags and a generation token, stopped,
  superseded and restarted at any step. Correct means: one runner at a time, every
  approved pair applied once a run is `applied`, the alias table equal to what the
  effective runs say.
* **Algorithms.** Cycles and chains in proposals; correct means a flat, acyclic map.
* **Persons.** Snapshots of persons written back after minutes of clustering, tags shared
  between persons. Correct means: no name, merge or ignore is undone, no tag removed from
  a file on which somebody still needs it.

`PROJECT.json` lists these as hazards with the line at which each bites.

## 2. Modules

| Module | Models | Checked by |
|---|---|---|
| `JobQueue`, refining `JobLease` | rows of the queue, workers, reaper, restarts (section 3) | `MCJobQueue`, `MCJobQueueLive`, `JobQueueProofs` |
| `QueueOrder` | the order in which pending rows are served (section 3) | `MCServices`, `ServicesProofs` |
| `WorkerPool` | the list of threads and its supervisor (section 4) | `MCWorkerPool`, `WorkerPoolProofs` |
| `Pipeline`, on top of `JobLease` | versions of a file, producers, `process_file`, marker (section 5) | `MCPipelineLive`, `MCPipeline`, `PipelineProofs` |
| `TagMerge` | runs, pairs, runners, review (section 6) | `MCTagMerge`, `TagMergeProofs` |
| `Aliases`, `AliasCache` | from proposals to the alias map; the cache of it (section 6) | `MCServices`, `AliasProofs` (of `Aliases`), `ServicesProofs` |
| `People` | faces, persons, their tags (section 7) | `MCPeople`, `PeopleProofs` |
| `Detection`, `Backfill` | producers and the threads behind them (section 8) | `MCServices`, `DetectionProofs` (of `Detection`), `ServicesProofs` |
| `GeoCache`, `ScanWidget` | cache and rate limit of the geocoder; the scan button (section 8) | `MCServices`, `ServicesProofs` |
| `Services` | `Detection`, `Backfill`, `Aliases`, `AliasCache`, `GeoCache`, `QueueOrder` and `ScanWidget` side by side (section 8) | `MCServices`, `AliasProofs`, `ServicesProofs` |

`JobLease` is what the rest of the app relies on. `JobQueue` implements it and `Pipeline`
uses it, so the two halves meet there and neither carries the state of the other. The
services in `Services` share no state with each other and touch the queue only by
enqueueing, which `JobQueue` and `Pipeline` allow at any step.

Every invariant and every safety action property that a passing run checks is also a theorem;
what stays with TLC alone is liveness (section 9).

## 3. Job queue: `JobQueue`, `JobLease`

### State and actions

| TLA+ | Code |
|---|---|
| `db[j]` | a row of `jobs`; key (user, file) is one element of `Jobs`; `"absent"` is no row |
| `now` | `int(time.time())` |
| `pc[w]` | where thread `w` is in `_loop` |
| `row[w]` | the dict `_claim` returned (`ts` is `claim_ts`) |
| `Enqueue`, `DescribeNow`, `RetryFailed` | `enqueue(force=False)`, the file action (`enqueue(force=True)`, images only), `retry_failed` |
| `SelectPending`, `MarkProcessing` | the SELECT and the UPDATE of `_claim`: Python's sqlite3 opens the write transaction at the UPDATE, so other writers commit in between; `_claim_lock` keeps out only other claims |
| `FinishDone`, `RecordRecent`, `JobError`, `VisionDown`, `Transient` | the ways `_process_one` ends |
| `Resume` | the end of `_wait_for_vision`, or of the transient backoff |
| `WriteError` | a write raised, the outer guard of `_loop` caught it |
| `Spawn` | a thread started by `_ensure_workers` |
| `Reap`, `Restart` | `reap_stuck_jobs`; a dead container and the reset in `init_db` |

Each SQL transaction is one action. A worker that outlives the reaper is simply one that
has not yet taken its next step. `Tick` is the clock; it is the only action the code does
not have.

Abstractions. Users and file ids are merged into `Jobs`. `RetryFailed` may reset any
nonempty subset of the failed jobs (the code: one user's or all). `int(time.time())` is
taken at the transaction that uses it, except that a claim's stamp is that of its UPDATE.
The clock is monotone. `_recent_results`, error texts and the refresh of a session after a
streak of failures are left out: no row depends on them.

A job that is never force-enqueued is called **plain**; the file action is registered for
`mime="image"` and `describe_now` checks it again, so every video is plain. The
distinction matters because a forced reset takes a row out of a worker's hands within the
second of its claim, which the stamp cannot see (section 10).

### Properties

* `PlainClaimExclusive` — two workers never both pass the compare-and-set on one plain job.
* `ClaimedRowStillPending` — the UPDATE of `_claim`, which does not look, only ever moves a
  pending row.
* `AttemptsBounded` — attempts of a plain job stay within `MAX_ATTEMPTS`, although worker
  and reaper compute them from different reads.
* `ImplementsLease` — the queue, restricted to plain jobs, implements `JobLease`: a job is
  leased to at most one worker, and only the leaseholder, the reaper or a restart ends the
  attempt. The refinement maps `holders` to the workers whose stamp still matches the row.
* `NoClaimLastsForever` — no claim stays in `processing`, whatever workers do.
* `AllJobsSettle` — when disturbances stop and workers do not hang, every job is done or
  failed.

### Runs

| Run | Bounds | Why they are enough |
|---|---|---|
| `QueueSafety` | image and video, 2 workers, `MaxAttempts` 2, `StuckTimeout` 1, clock to 3 | a claim, its reaping, a second claim and the late write of the first worker fit in 3 ticks; a third worker adds a second stale one, no new relation; 0.9 million states |
| `QueueSettles` | an image (whose behaviours include a video's), 2 workers, `StuckTimeout` 0, 3 disturbances, clock to 9 | 3 disturbances cover submit + lost write + crash; the clock runs only while a claim is open and cannot exhaust its 9 ticks, so it bounds nothing. `CHECK_DEADLOCK FALSE`: a settled queue stops |

Symmetry over workers is used only in `QueueSafety`, which has no liveness property;
workers appear in no definition but as quantified variables.

### Fairness

`ReaperFairness` and `WF(Tick)`: the supervisor wakes every 60 s and time passes.
`WorkerFairness` (a hypothesis of `AllJobsSettle` only): a thread that can take a step of its own
does — calls have timeouts (`request_timeout`, ffmpeg 30 s, busy timeout 60 s) and dead threads
are replaced by the supervisor. Producers, outages, lost writes and restarts are never fair.
`NoClaimLastsForever` assumes nothing of the workers.

### The order: `QueueOrder`

`_claim` takes the pending row with the oldest `updated_at`, and every write of a row stamps
it with the current second. `JobQueue` claims any pending row; `QueueOrder` keeps only the
order: `line` is the sequence of groups of equal stamps, the oldest first, which frees it
from clocks and bounds on them. `Without(j)` takes a row out of its group and, where the group
is then empty and not that of the current second, the group out of the line; `AtTheBack` puts
it into the current second. Rows are finished, given back after outages for ever
(`Requeue`), enqueued, and left behind by threads that hang for good (`Hang`, `Reap`).

* `NobodyStarves` — a pending job gets its turn, although others are given back for ever.

It holds for three jobs and two threads of which one hangs (`Services`). Two hypotheses are
real: another thread works (with `CONCURRENCY` 1 one hung call stops the queue, since the
supervisor replaces only dead threads), and the row is not itself enqueued for ever
(`MaxTouches`; every enqueue of a pending row sends it to the back). Fair are time, the
reaper, and each thread that is not hung.

## 4. Worker pool: `WorkerPool`

Here the steps are reads and writes of single attributes, since threads interleave between any
two: `Scan` evaluates the list of live threads, `Replace` assigns it, `SpawnThread` and `Append`
are the two statements of the loop's body, `AssignSupervisor` and `LaunchSupervisor` those of
`start()`. `Starters` are concurrent calls of `start()` (the startup runs one, each enable of the
app another), `Supervisors` identities of supervisor threads (two racing `start()` calls may
create two). `Start` reads `_concurrency` and `Grow` stores the larger value, so that a `start()`
for less may overwrite one for more. A new supervisor calls `NextcloudApp()` before its loop: it
enters the loop (`Supervise`) or ends there (`SupervisorDies`), and then only the next `start()`
makes another. A live thread that no list holds any more is an orphan; its identity may be used
again, so that `Threads` bounds the threads known at one time.

* `PoolRefilled` — between calls, the list is never shorter than the concurrency, however
  calls overwrote each other's lists.
* `PoolRecovers` — once a supervisor has got into its loop, and as long as no `start()`
  overwrites the target with less, the number of live threads gets to the target and stays,
  although threads die. The hypothesis is real: what kills workers at their start
  (`job_queue.py:548`) may have killed the supervisor, too (section 10).

`PoolSafeLive` uses 3 identities, two starters, one supervisor, concurrency 2 and two deaths, of
workers or of the supervisor: three callers inside `_ensure_workers` at once, one of which saw
the list before a death, and a supervisor that died and is replaced by the second `start()`. Weak
fairness on each caller: threads inside a short function go on, a new supervisor's connection
ends one way or the other, and its wait of 60 s ends. Deaths are bounded: if threads died for
ever nothing could recover. No symmetry, since one property is a liveness property.

## 5. A file's way through the app: `Pipeline`

`Pipeline` puts the queue, `process_file` and Nextcloud together. Its queue is `JobLease`,
which `JobQueue` implements: a worker may lose its lease at any step and goes on, because
nothing fences its calls to Nextcloud; only its write to the queue is fenced. A file's
content is its version number, which is its etag too.

| TLA+ | Code |
|---|---|
| `version`, `access` | the file in Nextcloud; a share is read-only until it is opened |
| `notice` | an upload not yet reported by webhook or scan; a report may come twice |
| `tagged` | versions for which `write_results` assigned tags |
| `marker` | the `processed-etag` property |
| `scanned` | versions handed to `extract_faces` |
| `reason` | the `reason` that `_finish` stores with a `done` row: captioned, unchanged, read-only, or `"refused"` |
| `work[w]` | stage of worker `w` in `process_file`, the etag of its node, the bytes it downloaded, its reason |
| `since` | history: the version the file had when its job was last claimed |
| `Lookup` … `ExtractFaces`, `Finish` | the calls of `process_file`, one step each, and `_finish` |
| `Fail` | an exception anywhere, or a lost write to the queue |
| `Notify`, `Overlook`, `Backfill`, `RetryFailed` | the producers |

The job of one user is modelled; a second user's job for the same file is another element
of `Files`. A crawl skips what lies under a mounted directory, so a share in the model is a
single file. `Lookup` takes what Nextcloud says of the node at that moment, which may differ
the next time: it is gone or a directory, of a type that is not captioned or too large
(`"refused"`), read-only, or to go on with. All but the last return at once (`Skip`), and the
job is `done` without tags.

* `MarkerImpliesTags` — the marker never names a version newer than all that was tagged.
* `DoneMeansCaptioned` — a `done` job whose reason is no refusal has tags of the version its
  file had when the job was last claimed, or of a later one: the skip "unchanged" hides
  neither a file that never was captioned nor one replaced before the claim.
* `UploadsSettle` — an announced upload ends in `done` or `failed` for good.

`PipelineSafeLive` has one file, three versions and two workers: three versions allow an upload
between a worker's lookup and its download, and another one after it, and two workers a stale one
next to the retry. Files do not interact, but for the workers they occupy, so one suffices.
`MCPipelineLive` counts disturbances — attempts that fail, restarts and leases taken from live
workers — up to 2, enough for a crash or a failure on top of a lost lease, in one attempt and its
retries; abandoned jobs are reaped without limit. Its fairness is that of section 3: notices are
delivered, a job nobody holds is reaped, a worker that can step does. Uploads, shares, backfills,
retries and disturbances are not fair.

The model has one step the code does not recover from: a job that ends between its marker
and its faces (`Fail` at that stage) is skipped by its retry, and stays without faces. No property
covers a file that is replaced after its job's claim and whose report finds the row in
flight or `done` (section 10).

## 6. Tag merge: `TagMerge`

| TLA+ | Code |
|---|---|
| `runs`, `phase` | rows of `tag_merge_runs`; the latest has the highest number |
| `pair[r][p]` | the status of a row of `tag_merge_pairs` |
| `aliases` | the sources in `tag_aliases` |
| `tagged[p]` | the users for whom every file with the source tag got the canonical one |
| `running`, `gen` | `_state["running"]`, `_state["gen"]` |
| `resolved[r]`, `vacant[r]` | history: the lists of users the applies of run `r` worked from; its pairs marked `applied` with nothing to tag |
| `runner[k]` | locals of a background task: place, generation, run, pairs to do, its list of users, pair in hand, users left, its verdict |
| `request[a]` | a review request between its read of the latest run and its last transaction |
| `BeginAnalyze` … `Publish`, `FailAnalysis`, `LoseAnalysis` | `_analyze`, one step per transaction |
| `BeginApply` … `Close`, `LeaveApply`, `LoseApply` | `_apply` and `_apply_pair`, one step per user |
| `End` | the two `finally` clauses |
| `Ask…`, `Reject`, `Restore`, `Approve`, `Discard`, `ReadEffective`, `WriteAliases`, `Refuse` | the review functions: guard, writes, and the two halves of `_rebuild_aliases` |
| `RequestStop`, `Restart` | `request_stop`; the container starting again (`init_db`) |

Any step may meet an exception or a stop where the code may: a stop is only noticed at its
checks, an error of one pair marks it `failed`, any other error of `_apply` leaves the run in
`applying`. `latest_run` is called after the flag was set and before the `try`, so a refusal
of the database there ends the thread with the flag set and nobody to reset it (`LoseApply`,
`DeadWithFlag`); a refusal in the handler of `_analyze` leaves the run in `analyzing`
(`LoseAnalysis`, `Unclosed`). Both runners are kept at the place `lost`, so that what they leave
behind has a name; neither counts as alive.

A pair stands for source → canonical. The sources of different pairs differ, hence the fold
of `compose_aliases` is the union of what the runs contribute; chains and cycles are the
subject of `Aliases`. `Users` are all users. `ResolveUsers` is `_resolve_users_strict`, once
per apply: when `get_list` fails the error is swallowed, and the list is whoever the jobs
table knows, and the caller, hence any nonempty part. `NothingToTag` are the early returns of
`_apply_pair` for a source tag that is gone or the same as the canonical one. Counters are left
out.

* `AppliedMeansTagged` — a pair marked `applied`, but for those with nothing to tag, was
  applied for every user on a list that an apply of its run had resolved, although runners
  are stopped between users, superseded by others working on the same run with other lists,
  and restarted. For all users only if Nextcloud listed them (section 10).
* `OnlyApprovedTakesEffect` — no file and no alias gets a canonical that no run approved: a
  request that read `proposed` before the approval comes too late to veto or revive a pair.
* `NothingHangs` — the two failures `DeadWithFlag` and `Unclosed` apart, the flag that locks
  others out belongs to a living runner of the current generation, and a run in `analyzing` to a
  living analysis.
* `CurrentRunnerGoesOn` — only a stop or a restart takes the turn from the current runner;
  the end of a stale one never does.

What the model has and no property states: `_rebuild_aliases` is not part of the transaction
that changed the phase, so a crash, a refusal, or two rebuilds in the wrong order leave the
table behind the runs until the next approval or discard; and a discard that read `approved`
may be overwritten by a runner that enters `applying`.

`TagMergeSafety` has one run, one pair, two users, three starts of two runners, and two
requests at once (2.7 million states): a run is analyzed, applied in part, stopped, and
applied again while the stale runner is still at work; two requests are needed for a veto
to race an approval, two users for a pair applied in part. Pairs do not interact, and nothing
tells pairs, users, runners or requests from one another, so all four sets are symmetric. The
theorems cover every number of runs and starts. `FailedStranded` needs two pairs and one runner.

### The algorithms: `Aliases`

Names are numbers in the order of the tie-break (length, then letters); `Twins` are the
mechanical variants that `_safe_variant_fold` accepts. One action is one pass of a loop:
`SanitizePair` (`sanitize_pairs`), `BreakCycle` and `Resolve` (the two phases of
`resolve_mapping`), `FoldPair` and `Compose` (`compose_aliases`). The loops go through
dictionaries in the order of the model's answers; the actions take any order. What a `while`
loop of the code visits from a name on is `Visited`, the least set that has the name and is
closed under the map; the name where the loop ends is `Chase`, and `Cycle` is the part of it
that goes round. `apply_aliases` is `ApplyAliases`, a function of the caption's prefixes.

* `ResolvesAsMeant` — the result is the one a definition without order gives (`Meant`): the
  end of the chain, or the most used member of the cycle a source runs into.
* `ComposeKeepsAliases` — folding new pairs into established ones gives a flat map in which
  every new pair is together, and every established one whose source is not mapped anew.
* `CaptionsGrow` — expanding a caption loses no tag, doubles none, adds only canonicals.

Five names (three in the vocabulary, a twin, a marked one) allow every map of three sources,
so chains of three, cycles of two and three, and chains into cycles, against every flat
established map.

### The cache: `AliasCache`

`get_alias_map` without a lock, one step per access to `_alias_cache`: `CheckTTL`,
`LoadAliases`, `KeepMap`, `Stamp`, `ReturnMap`, next to `Rebuild` and `Invalidate`. A load that
began before an invalidation stores the old map and stamps it as fresh, so an invalidation
may be undone. What remains is a bound:

* `MapsAreRecent` — unless loads fail, no caption gets a map that was replaced longer ago
  than the time to live and the length of one load before the call began.

Two readers, a time to live of 2 and loads that take at most 1 on a clock to 5, so that a
stale map can be stored, expire and be read again by a third call.

## 7. Persons: `People`

| TLA+ | Code |
|---|---|
| `cluster[f]` | `face_embeddings.cluster_id`; a face is a pair of photo and look |
| `persons`, `nextPerson` | `face_persons`, `face_meta.next_person_id` |
| `tags`, `tagged` | system tags of Nextcloud and their assignments |
| `ui` | the edit in progress; the handlers of the review page do not yield, so one at a time |
| `run[c]` | locals of `cluster_and_tag`: persons it read, ids it chose |
| `loaded[c]` | the faces whose rows `cluster_and_tag` read; a row `extract_faces` has replaced since has another key, so its face leaves the set |
| `match[w]` | locals of `_match_new_faces` |

Faces of one look are near each other, no others are; a centroid is the set of looks it
was averaged from, and fits its only look for certain and one of several perhaps. A step is one
transaction or one group of calls to Nextcloud. Every interleaving of an edit, a re-clustering
and a worker is allowed, and so is a re-clustering that goes on from the mess another left.
`calm` is a history variable: the actor nobody has interfered with since it began. For an edit to
become it, the state must be consistent, no two persons may share a tag and, for a split, the
default label of the new id must be nobody's tag (section 10). Looks are finitely many, bounds
are natural numbers and the actors' names differ (`LooksFinite`, `BoundsNat`, `ActorsDiffer`).

* `IdsAreNew` — an id that comes into use, in a table, a split or the locals of a re-clustering,
  is not less than the counter was, and the counter never goes back: so it was never given
  out before, be its person gone since or not.
* `ReclusterRepairs` — an undisturbed re-clustering leaves every shown person with a live tag
  on all its photos, whatever was there before.
* `EditsKeepConsistency` — so does an undisturbed edit that starts from such a state.
* `NamesSurvive` — of any row, pruned ones included, the name and the ignored flag are lost
  without an edit in two ways only. A re-clustering writes what it read before the edit: an edit
  made during one may be undone, one made before it not. Or it prunes the row of a person left
  without a face, each cluster that surely was this person, if any, having gone to another that
  surely fitted it (`Displaced`; section 10).

`PeopleSafety` has two photos, two looks, one name, three persons and tags, and six operations:
a split, a merge and a re-clustering with matches in between. Photos and looks are symmetric.
The constraint `TwoAtOnce` keeps to behaviours in which at most two of the edit, the
re-clustering and the worker are in the middle of something, whichever they are; without it the
run holds as well, but takes minutes (3.2 million states), and the theorems need no such bound.
Failed calls to Nextcloud, within an edit or a re-clustering, and crashes within an edit are not
in the model, and neither are thumbnails. Restoring an ignored person whose tag is shared is a
step (`SetIgnored`) that no property covers, since `calm` begins with no tag shared.

## 8. Services

### `Detection`

One user's files, the watermark, the thread of `PollLoop`, the webhooks with their secret, and
the calls of `enabled_handler`. `file` is the sequence of uploads with their mtimes, which a
client may set to the past; by their names they are images and videos. `notices` are webhook
posts under way, each with the secret it was registered with.
A restart forgets the cached secret and starts the loop again. Every call may fail, posts may
be lost. A thread waits for the startup and gets its connection (`Settle`), or ends there, since
nothing catches an error of `NextcloudApp()` (`LoopDies`); a failed round later only ends that
round (`ScanFails`). The scan judges a node by the type it reports at that time, which for a fresh
upload may still be `application/octet-stream`: `EnqueueNode` may leave any file, and raises the
mark all the same. `passed` are the files left so.

* `FreshFilesStayVisible` — the watermark never passes a file that was the newest when it
  arrived, is not queued and was not yet looked at, whatever scan fails half way or dies.
* `FreshFilesAreSeen` — such files are looked at or queued though every webhook is lost, unless
  the loop is told to stop or its thread died at the start. Only the thread of the loop is fair.
* `HookAccepted` — a webhook registered with the saved secret is accepted, although saving a
  secret may have failed before.

A file that arrives with an old mtime, or in the second of the watermark, is not seen by the
backstop, and one it has left is not seen again; both depend on the webhook or on a backfill.
`disable` followed by `enable` while the loop is in a scan ends polling until the next restart:
`start` finds a thread that is alive and does not clear the stop event (`file_events.py:221`).

### `Backfill`

Crawls as background tasks, the flag they share with `start` and `stop`, and the auto-cluster
thread. Overlapping crawls are allowed as in the code: `start` tests the flag, the task sets it.
A crawl is a record of its users, those left, the one at hand, the photos of his to come, the one
in hand and those queued. A listing or an enqueue that fails ends it through its `finally`.

* `CompleteWhenAlone` — a crawl nobody interfered with has queued all photos when it ends well.
* `ScansEnd` — the flag of the crawls never stays up for good, whatever fails.
* `AutoclusterEnds` — once its thread is in the `try`, neither does that of the auto-cluster. Before,
  it does: the flag is set first, and neither `Thread.start` (a failed `AutoclusterWhenIdle`) nor
  the thread's `NextcloudApp()` (`AutoBegins`) is inside the `try` (section 10).

A crawl that overlaps another is cut short when the other one ends, and reports nothing
(`routes_backfill.py:87`). Fair are the crawls, the workers that drain the queue and the
auto-cluster thread; starts, stops, restarts and failures are not.

### `GeoCache`

Workers that look up places, the cache table, the lock and the time since the last request.

* `RequestsSpaced` — requests go out one at a time, `_MIN_INTERVAL` apart.
* `LookedUpOnce` — a place costs each worker at most one lookup, but for a table that refuses.
  An outage is cached like an unknown place.

### `ScanWidget`

The scan button's calls, the polls and their timer, with answers that overtake each other.

* `WidgetSettles` — when clicks and failures stop, the page shows that nothing runs and its
  timer is cleared. Fair are the browser, the handlers and the end of a crawl.

### The run `Services`

`Services` runs seven modules side by side: a behaviour picks one, its lane, and the others stay
where they begin. They share no variable, so this is the union of seven checks with the
properties of each; fairness is that of each module in its lane. `Detection` is extended, the
others are instances. The assumptions are that bounds and intervals are natural numbers, names
are finitely many numbers with the vocabulary among them, and workers are finitely many with
`Nobody` not one of them. `MCServices` gives the constants small values. Detection has 2 uploads,
2 seconds of clock, 2 calls of the handler and 1 fault: a second upload during a scan of the
first that fails. Backfill has 2 users of one photo, 2 crawls and 2 troubles. GeoCache has 2
workers, 2 places, 3 calls and 1 refusal. ScanWidget has 2 polls, 3 clicks and 2 failed calls: a
late answer across a start, a stop and a start. `CHECK_DEADLOCK FALSE`: clocks and requests run
out.

## 9. Proofs

`JobQueueProofs` holds for every set of jobs and workers, `MAX_ATTEMPTS > 0`, every timeout. It
assumes only the named assumptions of `JobQueue`.

* `TypeCorrect`: every action preserves `TypeOK`.
* `Invariance`: `Spec => []IndInv`. Exclusivity is not inductive on its own: nothing in it
  says why a worker whose row was taken away stays harmless when the row is claimed again.
  The strengthening is `StaleStampsAreOld`: the stamp of a worker is never newer than its
  row, and *strictly older* once the row has left `processing` for `pending` or `failed`.
  A plain row leaves in three ways. Its holder moved it: then it is not stale. The reaper
  moved it: then `updated + timeout < now`, so the new stamp is strictly newer — the one
  place where the clock matters. A restart moved it: then no worker is left. A new claim
  takes `now >= updated`, so it is strictly newer than every stale stamp; two valid claims
  therefore cannot coexist. `RememberedAttempts` (a claimant never remembers fewer attempts
  than the row has) carries `AttemptsBounded`; `ClaimedRowStillPending` and `OneClaimer`
  carry both through the window inside `_claim`.
* `PlainClaimsAreExclusive`, `PlainAttemptsAreBounded`, `ClaimIsAtomicEnough`: its conjuncts.
* `QueueImplementsLease`: initial states map to initial states and under `IndInv` every step
  is a step of `JobLease` or a stutter. Finish, requeue and lost writes map to `Settle`,
  `GiveBack` and `Abandon` when the worker holds the lease and to a stutter when not; reap
  and restart map to `Revoke` of the plain rows they take.

`PipelineProofs` holds for every set of files and workers and any number of versions.

* `Invariance`: `Spec => []IndInv`. `MarkerImpliesTags` needs what workers carry: the etag
  read at the lookup is never newer than the content downloaded later (`Carried`), because
  versions only grow and the download comes second; so the marker never overstates.
  `DoneMeansCaptioned` needs that a marker equal to a node's etag is a real one (`OnlyUploaded`:
  nothing is queued before its upload, so the etag is not 0), hence that the skip is honest;
  and that the holder of the lease looked its file up after its claim, so that its etag is not
  older than `since` (`Carried` and `SinceIsPast`). For that a lease must belong to a worker that
  has this file in hand (`LeaseIsWorkedOn`, a conjunct only).
* `MarkersAreHonest`, `DoneIsCaptioned`, `TypeCorrect`: its conjuncts.
* `PipelineKeepsLease`: every step of the composition is a step of `JobLease` or leaves the
  queue alone, so what is proved of the lease holds in the pipeline.

`TagMergeProofs` holds for every set of pairs, users, runners and requests and any number of
runs and starts. `Invariance` is again `Spec => []IndInv`; what the four properties need:

* `AppliedMeansTagged` needs `PairInHand`: the runner's list is one its run resolved, all users on
  it but those left have been tagged with the pair in hand, and a verdict `applied` means all of
  it. Files only gain tags and `resolved` only lists, so others cannot disturb it.
* `OnlyApprovedTakesEffect` needs that approval is final (`SettledStays`, a fact of steps):
  vetoes write only `proposed` and `rejected` pairs, and `InsertPairs`, which writes any pair,
  meets a run with none. That is `AnalysisAlone`: two analyses never hold one run, because
  `OnlyOpened` says that nothing exists or is held beyond the last row.
* `NothingHangs` carries over from step to step given that an analysis, or an apply, which has
  not opened or picked its run holds none: so a lost runner without a run is a dead apply
  (`FlagStep`), and one with a run is the analysis that left it (`AnalysisStep`).
* `CurrentRunnerGoesOn` needs `TokensDiffer`: no two runners alive have the same generation,
  since each start takes the next one and a restart leaves no runner.

The proof lists once what each step leaves in the locals of its runner (`Effects` and the
lemmas after it) and which steps write a pair (`PairWrites`, `ReviewWrites`); the rest cites
those. `TypeCorrect` is a conjunct of the invariant.

`WorkerPoolProofs` holds for every set of threads and callers, any concurrency and number of
deaths. `ListIsRefilled` (`PoolRefilled`) rests on one observation: the list gets shorter only
in `Replace` and the target larger only in `Grow`, after both of which the caller is still
inside `_ensure_workers`, and it leaves by `Ensured` alone, which has just compared the length.
A step that takes another caller out would break that; the only step that moves another caller
is `LaunchSupervisor`, and `LaunchesAnew` says that the supervisor it starts is known to nobody
else and not yet at work. `AppendsThread` (what is appended is a worker thread) completes
`TypeCorrect`.

`DetectionProofs` holds for any number of uploads, calls and faults and needs no assumption.

* `NoFileIsPassed` (`FreshFilesStayVisible`) needs what a walk has still to do: the mark it
  started from has stayed (`Walking`), and a file not yet seen is either in its list or newer
  than everything the new mark may become (`WalkInv`). Uploads during the walk are newer than
  all that came before; a walk that fails half way never writes its mark.
* `SavedSecretIsAccepted` (`HookAccepted`) needs what a call of the handler knows: the secret
  it registers with is the one in memory, and the saved one if any was saved (`HookInv`).

`PeopleProofs` holds for any photos, looks, names, tables and number of workers, re-clusterings
and edits. Next to `TypeOK`:

* `IdsNeverReused` (`IdsAreNew`): what each step adds to the ids in use was drawn from the counter
  in that step (`UsedNext`), or was in a table or in somebody's locals before.
* `NamesAreKept` (`NamesSurvive`): a re-clustering must not write a row that another actor
  made. `DrawnAreOwned` says so: an id it drew and has not written yet is in no table, no
  split and no other re-clustering; it rests on `Fresh`, that every id in use is below the
  counter. What it writes over a row it did read is what it read. A row is dropped only with
  its person's last face, and `AllMatched` keeps what the matching decided until then: a cluster
  that a person surely fitted has such a person (`RowsDropped`).
* `RepairsEverything` (`ReclusterRepairs`): `Repairing` says what an undisturbed re-clustering has
  achieved at each of its stages: it has read all there is, every face has the person of its
  cluster, and each cluster it is past has a row whose tag is on all its photos.
* `EditsAreConsistent` (`EditsKeepConsistency`): `Editing` says the same of each kind of edit, with
  one conjunct per stage. It needs `Issued`: a tag id in a table or in the locals of an
  operation was given out before, so a new tag is nobody's.

`AliasProofs` holds for every finite set of names, any vocabulary, marked names, twins, answers,
usage counts and order of the loops, and every established flat map.

* The functions of the code are loops over a map, and what a loop computes would take an
  induction. `Visited` is defined without one, and `Least` (a set of numbers has a least one)
  replaces it where a length or a number of names counts. The lemmas on walks come first: of two
  names on a walk one is visited from the other (`Linear`), a walk that runs into a cycle stays
  there (`CycleStays`), one that does not has exactly one end (`EndExists`, `OneEnd`), and a walk
  in a part of a map is the same as long as it meets no missing edge (`SameWalk`).
* `MappingsResolveAsMeant` (`ResolvesAsMeant`): while cycles are broken, the edges gone are those of
  the winners of cycles of the answers, and no source the loop is past runs into a cycle any
  more (`Unbroken`).
* `ComposingKeepsAliases` (`ComposeKeepsAliases`): while new pairs are folded in, there is no cycle,
  each edge is a new or an established one, and a pair that was skipped has its source on the
  walk from its canonical, so that both end together (`Folded`).
* `CaptionsOnlyGrow` (`CaptionsGrow`) is proved for captions of every length; the run has two tags.

`ServicesProofs` holds for every value of the constants of `Services`. `EachLane`: a step of
`Services` is, for each of its modules, a step of that module or a stutter; hence each invariant
is proved from the steps of its own module.

* `RequestsAreSpaced` (`RequestsSpaced`): the lock is held exactly by who sleeps or requests,
  and what is left of its wait makes up the interval (`SpaceInv`).
* `PlacesAreLookedUpOnce` (`LookedUpOnce`) counts: while a place is not in the table, every
  lookup of it is under way or was lost (`CountInv`), and one worker has one under way.
* `CaptionsUseRecentMaps` (`MapsAreRecent`) follows a version by the time until which it was the
  table's (`Until`). A reader loads after its call began, so what it puts into the cache was
  current then; the map in the cache may be that of one reader and the time on it that of
  another, but both calls are at most one load old, so the map is at most one load older than
  its time (`CacheInv`). The rest is the time to live.
* `CrawlsAreComplete` (`CompleteWhenAlone`): while a crawl is alone the flag stays up, and a photo of
  its users that it has not queued is in its list, in its hand or of a user to come (`Owing`).
* `ServicesTypeCorrect` (`ServicesTypeOK`): the type invariants of all seven. That of `QueueOrder` is
  not inductive: a row is pending, claimed or stuck and never two of these, and no two
  threads hold the same one (`OrderTypes`).

Only model-checked: liveness, which under fairness is out of the prover's reach: on the queue and
the pool `NoClaimLastsForever`, `AllJobsSettle`, `PoolRecovers` and `UploadsSettle`, on the
services `FreshFilesAreSeen`, `ScansEnd`, `AutoclusterEnds`, `NobodyStarves` and `WidgetSettles`.
For the same reason the theorems on `Services` and the other specifications with fairness use no
more of them than the initial states and the steps.

## 10. Where code and comments disagree

Each is a run that TLC ends with a counterexample.

* `ClaimStamp` — two claims in one second have one stamp; after a forced re-enqueue two
  workers hold the same job and the stale one may write the result (`_claim`).
* `ForceDropped` — a later enqueue without force turns a pending forced job into an
  ordinary one, which the marker then skips (`enqueue`).
* `OpenedShare` — an enqueue without force leaves `done` rows alone, so a backfill does not
  pick up a share that was read-only when it was first seen.
* `FailedStranded` — a pair that failed is not retried: the run becomes `applied` with it, and
  a trigger takes up only `approved` and `applying` runs.
* `SharedTagDropped` — `merge_persons` deletes the tag of the person it merges away, although
  another person of the same name has it (`face_pipeline.py:341`).

More were met and have no run.

* For the reason of `OpenedShare` a file replaced during or after its job is not processed again
  by webhook, scan or backfill, all of which enqueue without force.
* A supervisor tick racing `start()` can leave more workers than configured, since
  `_ensure_workers` has no lock; only the lower bound, `PoolRefilled`, holds.
* `_supervise` calls `NextcloudApp()` before its loop (`job_queue.py:531`). If that raises, nobody
  replaces dead workers until the next `start()` (section 4).
* Polling, the "guaranteed-eventual backstop" (`settings.py:74`), may end after a quick disable and
  enable (section 8), or with a thread whose `NextcloudApp()` raises (`file_events.py:233`). And
  a fresh upload that reports `application/octet-stream`, as `file_events.py:52-53` says it may,
  is left by the scan (277), which has advanced the watermark past it (272).
* The flag of the auto-cluster stays up, and later backfills cluster nothing, when
  `Thread.start` (`routes_backfill.py:122`) or `NextcloudApp()` (107) fails after it was set.
* `_resolve_users_strict` is written so that a pair is not marked `applied` with users left out
  (`tag_merge.py:70-72`), but goes on with a partial list when `get_list` fails. The pair is
  `applied` then, and no later pass takes it up.
* `_apply` calls `latest_run` outside its `try` (`tag_merge.py:477`): if it raises, the running
  flag stays up until a stop is requested or the container restarts.
* "Person ids survive re-clustering, so names/merges/splits persist" (`README.md:140-141`): a
  re-clustering that nothing interferes with may still give each face of a named person to
  another person that fits it as well, and then deletes the named row
  (`face_pipeline.py:698-713`). `NamesSurvive` says that this is the only way.
* A user may name a person `<user>:<id>` with an id that is not in use yet: when a split draws
  that id, `_ensure_person_tag` takes the existing tag for the new person's. If it is the person
  so named that is split, the photos are given that tag and lose it again. It is the one split
  `EditsKeepConsistency` leaves out.

## 11. Not modelled

* Numeric code and encoding: embeddings, DBSCAN, image and video decoding, EXIF, HTTP, DAV and
  the text of prompts and answers. They keep no state, and appear as outcomes.
* `task_provider.py`: one thread that polls, answers and reports, without state of its own.
* `vision_client.py`, `nc_transport.py`, `settings.py`, `settings_ui.py`: single calls; their errors are the
  failures of the callers' steps.
* Pages, read-only queries and counters of the dashboard and of the people page, except the scan button.
* Process shutdown (`Workers.stop`), thumbnails, the session refresh of a worker.
* The PHP patches of app_api, which belong to another application.

`PROJECT.json` gives the status of each component.

## 12. Running

`tlc -config QueueSafety.cfg MCJobQueue` (run names and modules are in `PROJECT.json`), `tlapm
JobQueueProofs.tla`, `tlapm PipelineProofs.tla`, `tlapm TagMergeProofs.tla`, `tlapm
WorkerPoolProofs.tla`, `tlapm DetectionProofs.tla`, `tlapm PeopleProofs.tla`, `tlapm
AliasProofs.tla`, `tlapm ServicesProofs.tla` (the last three take minutes). Definitions named
`Bug...` are wrong versions of the definitions below them: with the right one replaced by the
wrong one, the property `PROJECT.json` pairs it with is violated.
