------------------------------ MODULE TagMerge ------------------------------
(***************************************************************************)
(* The runs of lib/tag_merge.py: analyze proposes pairs, the admin reviews *)
(* and approves or discards them, apply tags every file of every user.     *)
(* Runners are background threads under a generation token; requests of    *)
(* the admin are handled in other threads; each SQL transaction, each      *)
(* access to _state and the tagging of one user's files is a step.         *)
(*                                                                         *)
(* A pair stands for source -> canonical; the sources of Pairs differ, so  *)
(* that the fold of compose_aliases is the union.  Left out: usage counts, *)
(* the progress counters, the language model, and tags that do not exist.  *)
(* A definition named Bug... is a wrong version of the one that follows.   *)
(***************************************************************************)
EXTENDS Naturals, FiniteSets

CONSTANTS Pairs, Users,
          Runners,    \* background tasks
          Requests,   \* requests of the admin handled at the same time
          NoPair,     \* no pair in hand
          MaxRuns,    \* bound on the rows of tag_merge_runs
          MaxStarts   \* bound on the runners started

ASSUME NoPairAssumption == NoPair \notin Pairs
ASSUME BoundsAssumption == MaxRuns \in Nat /\ MaxStarts \in Nat

VARIABLES
    runs,     \* number of rows in tag_merge_runs: the latest is the last
    phase,    \* per run
    pair,     \* per run and pair: its status in tag_merge_pairs
    aliases,  \* the table tag_aliases
    tagged,   \* per pair: the users whose files have been given the canonical
    resolved, \* history, per run: the lists of users its applies worked from
    vacant,   \* history, per run: the pairs applied with nothing to tag
    running,  \* _state["running"]
    gen,      \* _state["gen"]
    starts,   \* how many runners were started
    runner,   \* the runners' locals
    request   \* the request handlers' locals

store == <<runs, phase, pair, aliases>>
cover == <<tagged, resolved, vacant>>
state == <<running, gen, starts>>
vars == <<store, cover, state, runner, request>>

Phase == {"none", "analyzing", "proposed", "approved", "applying", "applied",
          "failed", "discarded"}
PairStatus == {"none", "proposed", "rejected", "approved", "applied", "failed"}
Analyzing == {"load", "open", "chunk", "insert", "publish"}
Applying == {"pick", "enter", "list", "resolve", "pairs", "users", "record", "close"}
Place == {"off", "end", "lost"} \cup Analyzing \cup Applying
Handling == {"idle", "reject", "restore", "approve", "discard", "read", "write"}

Runs == 1 .. MaxRuns
RunOf(k) == runner[k].run
Blank(place, g) == [at |-> place, gen |-> g, run |-> 0, todo |-> {}, users |-> {},
                    cur |-> NoPair, left |-> {}, verdict |-> "none"]
Off == Blank("off", 0)
Idle == [at |-> "idle", run |-> 0, folded |-> {}]

Init ==
    /\ runs = 0
    /\ phase = [r \in Runs |-> "none"]
    /\ pair = [r \in Runs |-> [p \in Pairs |-> "none"]]
    /\ aliases = {}
    /\ tagged = [p \in Pairs |-> {}]
    /\ resolved = [r \in Runs |-> {}]
    /\ vacant = [r \in Runs |-> {}]
    /\ running = FALSE /\ gen = 0 /\ starts = 0
    /\ runner = [k \in Runners |-> Off]
    /\ request = [a \in Requests |-> Idle]

-----------------------------------------------------------------------------
(* The store.                                                               *)

SetPhase(r, to) == phase' = [phase EXCEPT ![r] = to]
With(r, S) == {p \in Pairs : pair[r][p] \in S}

\* The pairs that the effective runs contribute to the alias map.
Effective ==
    UNION {With(r, {"approved", "applied"}) :
             r \in {q \in Runs : phase[q] \in {"approved", "applying", "applied"}}}

-----------------------------------------------------------------------------
(* Runners.                                                                 *)

RunnerAt(k, place) == runner[k].at = place
Go(k, place) == runner' = [runner EXCEPT ![k].at = place]

\* To the finally clause: what the runner had in hand is of no use any more.
GoEnd(k) == runner' = [runner EXCEPT ![k] = Blank("end", @.gen)]

\* A stop, or a newer runner, makes this false.
Active(k) == running /\ runner[k].gen = gen

\* Under _lock: nothing happens while a runner is active.
Begin(k, place) ==
    /\ RunnerAt(k, "off")
    /\ ~ running /\ starts < MaxStarts
    /\ running' = TRUE
    /\ gen' = gen + 1 /\ starts' = starts + 1
    /\ runner' = [runner EXCEPT ![k] = Blank(place, gen + 1)]
    /\ UNCHANGED <<store, cover, request>>

\* A runner whose generation is over resets the flag too.
BugEnd(k) ==
    /\ RunnerAt(k, "end")
    /\ running' = FALSE
    /\ IF RunOf(k) = 0 THEN runner' = [runner EXCEPT ![k] = Off] ELSE Go(k, "lost")
    /\ UNCHANGED <<store, cover, gen, starts, request>>

\* The finally clause.  A run still in hand is one the handler could not close:
\* its runner is lost, and stays so until the restart.
End(k) ==
    /\ RunnerAt(k, "end")
    /\ running' = (running /\ gen # runner[k].gen)
    /\ IF RunOf(k) = 0 THEN runner' = [runner EXCEPT ![k] = Off] ELSE Go(k, "lost")
    /\ UNCHANGED <<store, cover, gen, starts, request>>

(* analyze *)

BeginAnalyze(k) == Begin(k, "load")

\* Tags and aliases are read; sources that have an alias are left out.
Load(k) ==
    /\ RunnerAt(k, "load")
    /\ runner' = [runner EXCEPT ![k].at = "open", ![k].todo = Pairs \ aliases]
    /\ UNCHANGED <<store, cover, state, request>>

OpenRun(k) ==
    /\ RunnerAt(k, "open") /\ runs < MaxRuns
    /\ runs' = runs + 1
    /\ SetPhase(runs + 1, "analyzing")
    /\ runner' = [runner EXCEPT ![k].at = "chunk", ![k].run = runs + 1]
    /\ UNCHANGED <<pair, aliases, cover, state, request>>

\* The chunks, each under a check for a stop; the model answers what it likes.
Chunk(k) ==
    /\ RunnerAt(k, "chunk") /\ (Active(k) \/ runner[k].todo = {})
    /\ \E S \in SUBSET runner[k].todo :
          runner' = [runner EXCEPT ![k].at = "insert", ![k].todo = S]
    /\ UNCHANGED <<store, cover, state, request>>

InsertPairs(k) ==
    /\ RunnerAt(k, "insert")
    /\ pair' = [pair EXCEPT ![RunOf(k)] =
                  [p \in Pairs |-> IF p \in runner[k].todo THEN "proposed" ELSE @[p]]]
    /\ runner' = [runner EXCEPT ![k].at = "publish", ![k].todo = {}]
    /\ UNCHANGED <<runs, phase, aliases, cover, state, request>>

Publish(k) ==
    /\ RunnerAt(k, "publish")
    /\ SetPhase(RunOf(k), "proposed")
    /\ GoEnd(k)
    /\ UNCHANGED <<runs, pair, aliases, cover, state, request>>

\* A stop or an exception: the run, if there is one, has failed.
FailAnalysis(k) ==
    /\ runner[k].at \in Analyzing
    /\ IF RunOf(k) = 0 THEN UNCHANGED phase ELSE SetPhase(RunOf(k), "failed")
    /\ GoEnd(k)
    /\ UNCHANGED <<runs, pair, aliases, cover, state, request>>

\* The database refuses that, too: on to the finally clause all the same.
LoseAnalysis(k) ==
    /\ runner[k].at \in Analyzing /\ RunOf(k) # 0
    /\ Go(k, "end")
    /\ UNCHANGED <<store, cover, state, request>>

(* apply *)

BeginApply(k) == Begin(k, "pick")

\* latest_run, and the test of its phase.
PickRun(k) ==
    /\ RunnerAt(k, "pick")
    /\ IF runs > 0 /\ phase[runs] \in {"approved", "applying"}
       THEN runner' = [runner EXCEPT ![k].at = "enter", ![k].run = runs]
       ELSE GoEnd(k)
    /\ UNCHANGED <<store, cover, state, request>>

\* latest_run raises: it is called before the try, so that no finally clause
\* resets the flag.
LoseApply(k) ==
    /\ RunnerAt(k, "pick")
    /\ Go(k, "lost")
    /\ UNCHANGED <<store, cover, state, request>>

EnterApplying(k) ==
    /\ RunnerAt(k, "enter")
    /\ SetPhase(RunOf(k), "applying")
    /\ Go(k, "list")
    /\ UNCHANGED <<runs, pair, aliases, cover, state, request>>

\* Failed pairs are tried again.
ListPairs(k) ==
    /\ RunnerAt(k, "list")
    /\ runner' = [runner EXCEPT ![k].at = "resolve",
                                ![k].todo = With(RunOf(k), {"approved", "failed"})]
    /\ UNCHANGED <<store, cover, state, request>>

\* _resolve_users_strict: all users; or, when Nextcloud does not list them, those
\* that the jobs table knows, and the caller.
ResolveUsers(k) ==
    /\ RunnerAt(k, "resolve")
    /\ \E S \in (SUBSET Users) \ {{}} :
          /\ runner' = [runner EXCEPT ![k].at = "pairs", ![k].users = S]
          /\ resolved' = [resolved EXCEPT ![RunOf(k)] = @ \cup {S}]
    /\ UNCHANGED <<store, tagged, vacant, state, request>>

NextPair(k) ==
    /\ RunnerAt(k, "pairs") /\ Active(k)
    /\ \E p \in runner[k].todo :
          runner' = [runner EXCEPT ![k].at = "users", ![k].cur = p,
                                   ![k].left = runner[k].users, ![k].todo = @ \ {p}]
    /\ UNCHANGED <<store, cover, state, request>>

\* The files of one user that carry the source, after a check for a stop.
TagUser(k) ==
    /\ RunnerAt(k, "users") /\ Active(k)
    /\ \E u \in runner[k].left :
          /\ tagged' = [tagged EXCEPT ![runner[k].cur] = @ \cup {u}]
          /\ runner' = [runner EXCEPT ![k].left = @ \ {u}]
    /\ UNCHANGED <<store, resolved, vacant, state, request>>

\* The source tag is gone, or source and canonical are one tag: no file is
\* touched, and the pair counts as applied.
NothingToTag(k) ==
    /\ RunnerAt(k, "users") /\ runner[k].left = runner[k].users
    /\ runner' = [runner EXCEPT ![k].at = "record", ![k].verdict = "vacant",
                                ![k].left = {}]
    /\ UNCHANGED <<store, cover, state, request>>

\* A stop in the middle of a pair ends the loop as its end would.
BugPairDone(k) ==
    /\ RunnerAt(k, "users") /\ (runner[k].left = {} \/ ~ Active(k))
    /\ runner' = [runner EXCEPT ![k].at = "record", ![k].verdict = "applied"]
    /\ UNCHANGED <<store, cover, state, request>>

PairDone(k) ==
    /\ RunnerAt(k, "users") /\ runner[k].left = {}
    /\ runner' = [runner EXCEPT ![k].at = "record", ![k].verdict = "applied"]
    /\ UNCHANGED <<store, cover, state, request>>

\* The error is stored as the status.
BugPairFails(k) ==
    /\ RunnerAt(k, "users")
    /\ runner' = [runner EXCEPT ![k].at = "record", ![k].verdict = "error",
                                ![k].left = {}]
    /\ UNCHANGED <<store, cover, state, request>>

\* A job-level error in a pair.
PairFails(k) ==
    /\ RunnerAt(k, "users")
    /\ runner' = [runner EXCEPT ![k].at = "record", ![k].verdict = "failed",
                                ![k].left = {}]
    /\ UNCHANGED <<store, cover, state, request>>

\* The status that a verdict is stored as.
Status(verdict) == IF verdict = "vacant" THEN "applied" ELSE verdict

RecordPair(k) ==
    /\ RunnerAt(k, "record")
    /\ pair' = [pair EXCEPT ![RunOf(k)][runner[k].cur] = Status(runner[k].verdict)]
    /\ vacant' = [vacant EXCEPT ![RunOf(k)] =
                    IF runner[k].verdict = "vacant" THEN @ \cup {runner[k].cur}
                                                    ELSE @ \ {runner[k].cur}]
    /\ runner' = [runner EXCEPT ![k].at = "pairs", ![k].cur = NoPair,
                                ![k].verdict = "none"]
    /\ UNCHANGED <<runs, phase, aliases, tagged, resolved, state, request>>

\* The loop is over: is any pair left approved?
CountLeft(k) ==
    /\ RunnerAt(k, "pairs") /\ runner[k].todo = {}
    /\ IF With(RunOf(k), {"approved"}) = {} THEN Go(k, "close") ELSE GoEnd(k)
    /\ UNCHANGED <<store, cover, state, request>>

Close(k) ==
    /\ RunnerAt(k, "close")
    /\ SetPhase(RunOf(k), "applied")
    /\ GoEnd(k)
    /\ UNCHANGED <<runs, pair, aliases, cover, state, request>>

\* A stop is noticed, or an exception outside the pairs ends the run, which stays
\* in applying.
LeaveApply(k) ==
    /\ runner[k].at \in Applying \ {"pick"}
    /\ RunnerAt(k, "users") \/ (RunnerAt(k, "pairs") /\ runner[k].todo # {}) => ~ Active(k)
    /\ GoEnd(k)
    /\ UNCHANGED <<store, cover, state, request>>

-----------------------------------------------------------------------------
(* Requests of the admin.                                                   *)

Asked(a, what) == request[a].at = what

RequestStop ==
    /\ running' = FALSE
    /\ UNCHANGED <<store, cover, gen, starts, runner, request>>

\* The request reads the latest run and tests its phase.
Ask(a, what, phases) ==
    /\ Asked(a, "idle")
    /\ runs > 0 /\ phase[runs] \in phases
    /\ request' = [request EXCEPT ![a] = [Idle EXCEPT !.at = what, !.run = runs]]
    /\ UNCHANGED <<store, cover, state, runner>>

AskReject(a) == Ask(a, "reject", {"proposed"})
AskRestore(a) == Ask(a, "restore", {"proposed"})
AskApprove(a) == Ask(a, "approve", {"proposed"})
AskDiscard(a) == Ask(a, "discard", {"proposed", "failed", "approved"})

Answer(a) == request' = [request EXCEPT ![a] = Idle]

\* Any pair of the run may be vetoed.
BugReject(a) ==
    /\ Asked(a, "reject")
    /\ \E p \in With(request[a].run, PairStatus \ {"none"}) :
          pair' = [pair EXCEPT ![request[a].run][p] = "rejected"]
    /\ Answer(a)
    /\ UNCHANGED <<runs, phase, aliases, cover, state, runner>>

\* The veto holds for a pair that is still proposed.
Reject(a) ==
    /\ Asked(a, "reject")
    /\ \/ \E p \in With(request[a].run, {"proposed"}) :
             pair' = [pair EXCEPT ![request[a].run][p] = "rejected"]
       \/ With(request[a].run, {"proposed"}) # Pairs /\ UNCHANGED pair
    /\ Answer(a)
    /\ UNCHANGED <<runs, phase, aliases, cover, state, runner>>

Restore(a) ==
    /\ Asked(a, "restore")
    /\ \/ \E p \in With(request[a].run, {"rejected"}) :
             pair' = [pair EXCEPT ![request[a].run][p] = "proposed"]
       \/ With(request[a].run, {"rejected"}) # Pairs /\ UNCHANGED pair
    /\ Answer(a)
    /\ UNCHANGED <<runs, phase, aliases, cover, state, runner>>

\* One transaction; the aliases follow in others.
Approve(a) ==
    /\ Asked(a, "approve")
    /\ pair' = [pair EXCEPT ![request[a].run] =
                  [p \in Pairs |-> IF @[p] = "proposed" THEN "approved" ELSE @[p]]]
    /\ SetPhase(request[a].run, "approved")
    /\ request' = [request EXCEPT ![a].at = "read"]
    /\ UNCHANGED <<runs, aliases, cover, state, runner>>

Discard(a) ==
    /\ Asked(a, "discard")
    /\ SetPhase(request[a].run, "discarded")
    /\ request' = [request EXCEPT ![a].at = "read"]
    /\ UNCHANGED <<runs, pair, aliases, cover, state, runner>>

\* _rebuild_aliases reads the effective runs ...
ReadEffective(a) ==
    /\ Asked(a, "read")
    /\ request' = [request EXCEPT ![a].at = "write", ![a].folded = Effective]
    /\ UNCHANGED <<store, cover, state, runner>>

\* ... and replaces the table.
WriteAliases(a) ==
    /\ Asked(a, "write")
    /\ aliases' = request[a].folded
    /\ Answer(a)
    /\ UNCHANGED <<runs, phase, pair, cover, state, runner>>

\* The database refuses: the request ends where it is.
Refuse(a) ==
    /\ ~ Asked(a, "idle")
    /\ Answer(a)
    /\ UNCHANGED <<store, cover, state, runner>>

-----------------------------------------------------------------------------
\* init_db leaves the analyses that were under way as they are.
BugRestart ==
    /\ running' = FALSE /\ gen' = 0
    /\ runner' = [k \in Runners |-> Off]
    /\ request' = [a \in Requests |-> Idle]
    /\ UNCHANGED <<store, cover, starts>>

\* The container dies and starts again: memory is lost, and init_db marks the
\* analyses that were under way as failed.
Restart ==
    /\ phase' = [r \in Runs |-> IF phase[r] = "analyzing" THEN "failed" ELSE phase[r]]
    /\ running' = FALSE /\ gen' = 0
    /\ runner' = [k \in Runners |-> Off]
    /\ request' = [a \in Requests |-> Idle]
    /\ UNCHANGED <<runs, pair, aliases, cover, starts>>

Analyze(k) ==
    \/ BeginAnalyze(k) \/ Load(k) \/ OpenRun(k) \/ Chunk(k) \/ InsertPairs(k) \/ Publish(k)
    \/ FailAnalysis(k) \/ LoseAnalysis(k)

Apply(k) ==
    \/ BeginApply(k) \/ PickRun(k) \/ LoseApply(k) \/ EnterApplying(k) \/ ListPairs(k)
    \/ ResolveUsers(k) \/ NextPair(k) \/ TagUser(k) \/ NothingToTag(k) \/ PairDone(k)
    \/ PairFails(k) \/ RecordPair(k) \/ CountLeft(k) \/ Close(k) \/ LeaveApply(k)

Review(a) ==
    \/ AskReject(a) \/ AskRestore(a) \/ AskApprove(a) \/ AskDiscard(a)
    \/ Reject(a) \/ Restore(a) \/ Approve(a) \/ Discard(a)
    \/ ReadEffective(a) \/ WriteAliases(a) \/ Refuse(a)

Next ==
    \/ \E k \in Runners : Analyze(k) \/ Apply(k) \/ End(k)
    \/ \E a \in Requests : Review(a)
    \/ RequestStop \/ Restart

Spec == Init /\ [][Next]_vars

-----------------------------------------------------------------------------
\* Tables, _state and locals have the shape the code gives them.
TypeOK ==
    /\ runs \in 0 .. MaxRuns
    /\ phase \in [Runs -> Phase]
    /\ pair \in [Runs -> [Pairs -> PairStatus]]
    /\ aliases \subseteq Pairs
    /\ tagged \in [Pairs -> SUBSET Users]
    /\ resolved \in [Runs -> SUBSET SUBSET Users]
    /\ vacant \in [Runs -> SUBSET (Pairs \cup {NoPair})]
    /\ running \in BOOLEAN /\ gen \in 0 .. MaxStarts /\ starts \in gen .. MaxStarts
    /\ runner \in [Runners -> [at : Place, gen : 0 .. MaxStarts, run : 0 .. MaxRuns,
                               todo : SUBSET Pairs, users : SUBSET Users,
                               cur : Pairs \cup {NoPair}, left : SUBSET Users,
                               verdict : {"none", "applied", "vacant", "failed"}]]
    /\ request \in [Requests -> [at : Handling, run : 0 .. MaxRuns, folded : SUBSET Pairs]]

Settled == {"approved", "applied", "failed"}

\* "A pair is marked 'applied' after one pass" (_resolve_users_strict): a pair that
\* is applied was applied to every user of a list that an apply of its run had
\* resolved, to all users if Nextcloud listed them, whatever was stopped,
\* superseded or restarted; unless there was nothing to tag.
AppliedMeansTagged ==
    \A r \in Runs, p \in Pairs :
        pair[r][p] = "applied" /\ p \notin vacant[r]
            => \E S \in resolved[r] : S # {} /\ S \subseteq tagged[p]

\* A veto stands: neither a file nor the alias map gets a canonical that no run
\* had approved.
OnlyApprovedTakesEffect ==
    \A p \in Pairs : tagged[p] # {} \/ p \in aliases => \E r \in Runs : pair[r][p] \in Settled

\* latest_run raised in _apply, outside the try: the thread is dead, and the flag
\* stays up until an admin asks for a stop or the container restarts.
DeadWithFlag(k) == RunnerAt(k, "lost") /\ RunOf(k) = 0 /\ Active(k)

\* The database refused the write that should have marked the run as failed.
Unclosed(r) == \E k \in Runners : runner[k].at \in {"end", "lost"} /\ RunOf(k) = r

\* These two failures apart, the flag that keeps others out belongs to a living
\* runner of the current generation, which will lower it, and a run in analyzing
\* to a living analysis, which will end it (init_db, the handlers and the finally
\* clauses).
NothingHangs ==
    /\ running => \E k \in Runners : \/ runner[k].at \notin {"off", "lost"} /\ Active(k)
                                     \/ DeadWithFlag(k)
    /\ \A r \in Runs : phase[r] = "analyzing" /\ ~ Unclosed(r) =>
          \E k \in Runners : runner[k].at \in Analyzing /\ RunOf(k) = r

\* The strengthening that makes these inductive.

\* A row, its pairs and whoever points at it come with OpenRun.
OnlyOpened ==
    /\ \A r \in Runs : r > runs => \A p \in Pairs : pair[r][p] = "none"
    /\ \A k \in Runners : RunOf(k) <= runs

\* A generation is given to one runner.
TokensDiffer ==
    \A k \in Runners : ~ RunnerAt(k, "off") =>
        /\ runner[k].gen \in 1 .. gen
        /\ \A l \in Runners \ {k} : RunnerAt(l, "off") \/ runner[l].gen # runner[k].gen

\* Nobody else touches the pairs of a run that is being analyzed: there are none
\* before InsertPairs.
AnalysisAlone(k) ==
    /\ runner[k].at \in {"load", "open", "pick"} => RunOf(k) = 0
    /\ runner[k].at \in {"chunk", "insert", "publish"} => RunOf(k) # 0
    /\ runner[k].at \in {"chunk", "insert"} => \A p \in Pairs : pair[RunOf(k)][p] = "none"
    /\ \A l \in Runners :
          /\ l # k
          /\ runner[k].at \in Analyzing /\ RunOf(k) # 0
          /\ runner[l].at \in Analyzing
          => RunOf(l) # RunOf(k)

\* What a runner of apply has in hand was approved, and all users of its list but
\* those left have been tagged.
PairInHand(k) ==
    /\ runner[k].at \in Applying \ {"pick"} => RunOf(k) # 0
    /\ runner[k].at \in {"resolve", "pairs"} =>
          runner[k].todo \subseteq With(RunOf(k), Settled)
    /\ runner[k].at \in {"users", "record"} =>
          /\ {runner[k].cur} \cup runner[k].todo \subseteq With(RunOf(k), Settled)
    /\ runner[k].at \in {"pairs", "users", "record"} =>
          runner[k].users \in resolved[RunOf(k)] \ {{}}
    /\ RunnerAt(k, "users") =>
          runner[k].users \ runner[k].left \subseteq tagged[runner[k].cur]
    /\ RunnerAt(k, "record") /\ runner[k].verdict = "applied" =>
          runner[k].users \subseteq tagged[runner[k].cur]
    /\ RunnerAt(k, "record") => runner[k].verdict # "none"

RequestInHand(a) ==
    /\ request[a].at \in {"reject", "restore", "approve", "discard"} => request[a].run # 0
    /\ \A p \in request[a].folded : \E r \in Runs : pair[r][p] \in Settled

\* The inductive invariant.
IndInv ==
    /\ TypeOK /\ OnlyOpened /\ TokensDiffer
    /\ \A k \in Runners : AnalysisAlone(k) /\ PairInHand(k)
    /\ \A a \in Requests : RequestInHand(a)
    /\ AppliedMeansTagged /\ OnlyApprovedTakesEffect /\ NothingHangs

\* "a stale runner must never clobber a newer run's state" (_state): a runner
\* nobody stopped and nobody followed ends of its own accord.
CurrentRunnerGoesOn ==
    [][\A k \in Runners :
          Active(k) /\ runner[k].at \notin {"off", "end"} /\ ~ Active(k)'
          => RequestStop \/ Restart]_vars

-----------------------------------------------------------------------------
\* "'failed' pairs are retried on every re-trigger" (_apply): while a pair of the
\* latest run has failed and no runner is at work, a trigger takes up the run.
FailedPairsAreRetried ==
    runs > 0 /\ With(runs, {"failed"}) # {} /\ (\A k \in Runners : RunnerAt(k, "off"))
    => phase[runs] \in {"approved", "applying", "discarded"}
=============================================================================
