----------------------------- MODULE Detection -----------------------------
(***************************************************************************)
(* lib/file_events.py for one user: how a new file gets into the queue.    *)
(* Nextcloud posts a notice for each upload to the registered webhooks,    *)
(* which are told from others by a shared secret; the thread of PollLoop   *)
(* asks from time to time for the files newer than a watermark.  The       *)
(* enable handler registers the webhooks and starts the loop; a restart of *)
(* the container starts the loop and forgets the cached secret.            *)
(*                                                                         *)
(* Time is in whole seconds, as mtime and watermark are.  A client may     *)
(* keep the mtime of its own copy, so a file may arrive with an old one.   *)
(***************************************************************************)
EXTENDS Integers, Sequences, FiniteSetsExt

CONSTANTS
    MaxFiles,       \* bound on uploads
    NoSecret,       \* no shared secret
    MaxTime,        \* bound on the clock
    MaxCalls,       \* bound on calls of the enable handler
    MaxFaults       \* bound on failed calls and restarts

VARIABLES
    now,            \* the clock
    file,           \* the files uploaded so far, each with its mtime
    watermark,      \* scan_state.watermark, or Unset
    queued,         \* files that were enqueued
    passed,         \* history: files a scan has looked at and left
    loop,           \* the thread of PollLoop
    stop,           \* its stop event
    hooks,          \* secrets of the webhooks registered with Nextcloud
    notices,        \* webhook posts under way: pairs <<file, secret>>
    config,         \* webhook_secret in the app's configuration
    cache,          \* _secret_cache
    handler,        \* the call of enabled_handler in progress
    calls, faults,  \* how many so far
    on,             \* history: the last enable or disable that went through
    fresh           \* history: files that were the newest when they arrived

detectVars == <<now, file, watermark, queued, passed, loop, stop, hooks, notices, config,
                cache, handler, calls, faults, on, fresh>>
scanVars == <<watermark, queued, passed, loop, stop>>
hookVars == <<hooks, notices, config, cache, handler, calls, on>>

Unset == -1
Files == 1..MaxFiles        \* numbered as they arrive
Times == 0..MaxTime
Mtimes == {file[f] : f \in DOMAIN file}
NoThread == [pc |-> "off"]
DeadThread == [pc |-> "dead"]
NewThread == [pc |-> "start"]       \* waits for the startup to settle
NextRound == [pc |-> "wait"]
NoCall == [pc |-> "none"]

Init ==
    /\ now = 0 /\ file = << >> /\ watermark = Unset
    /\ queued = {} /\ passed = {} /\ fresh = {}
    /\ loop = NewThread /\ stop = FALSE
    /\ hooks = {} /\ notices = {} /\ config = NoSecret /\ cache = NoSecret
    /\ handler = NoCall /\ calls = 0 /\ faults = 0 /\ on = FALSE

Fault == faults < MaxFaults /\ faults' = faults + 1
NoFault == UNCHANGED faults

Tick ==
    /\ now < MaxTime /\ now' = now + 1
    /\ UNCHANGED <<file, fresh, scanVars, hookVars, faults>>

\* A file whose name is that of an image or a video, with the mtime the client sets.
Upload(f, t) ==
    /\ f = Len(file) + 1 /\ t <= now
    /\ file' = Append(file, t)
    /\ fresh' = IF watermark # Unset /\ \A s \in Mtimes \cup {watermark} : s < t
                THEN fresh \cup {f} ELSE fresh
    /\ notices' = notices \cup {f} \X hooks
    /\ UNCHANGED <<now, scanVars, hooks, config, cache, handler, calls, faults, on>>

---------------------------------------------------------------------------
(* The webhook receiver.                                                   *)

\* cached_secret: from memory, else from the configuration.
Secret == IF cache # NoSecret THEN cache ELSE config

OnWebhook(f, s) ==
    /\ <<f, s>> \in notices /\ notices' = notices \ {<<f, s>>}
    /\ cache' = Secret
    /\ queued' = IF Secret # NoSecret /\ s = Secret THEN queued \cup {f} ELSE queued
    /\ UNCHANGED <<now, file, fresh, watermark, passed, loop, stop, hooks, config, handler,
                   calls, faults, on>>

LoseNotice(f, s) ==
    /\ <<f, s>> \in notices /\ notices' = notices \ {<<f, s>>}
    /\ UNCHANGED <<now, file, fresh, scanVars, hooks, config, cache, handler, calls, faults, on>>

---------------------------------------------------------------------------
(* enabled_handler: settings are loaded, a secret is made on first use,    *)
(* old webhooks are dropped, new ones registered, the loop is started.     *)

Enable ==
    /\ handler = NoCall /\ calls < MaxCalls /\ calls' = calls + 1
    /\ handler' = [pc |-> "secret", known |-> config]
    /\ UNCHANGED <<now, file, fresh, scanVars, hooks, notices, config, cache, faults, on>>

\* Mutant: a secret that is cached already stays.
BugKeepCache ==
    /\ handler.pc = "secret"
    /\ LET s == IF handler.known # NoSecret THEN handler.known ELSE calls IN
          /\ \/ config' = s /\ NoFault
             \/ handler.known = NoSecret /\ UNCHANGED config /\ Fault
          /\ cache' = IF cache = NoSecret THEN s ELSE cache
          /\ handler' = [pc |-> "drop", secret |-> s]
    /\ UNCHANGED <<now, file, fresh, scanVars, hooks, notices, calls, on>>

\* Saving a new secret may fail: it is used all the same.
EnsureSecret ==
    /\ handler.pc = "secret"
    /\ LET s == IF handler.known # NoSecret THEN handler.known ELSE calls IN
          /\ \/ config' = s /\ NoFault
             \/ handler.known = NoSecret /\ UNCHANGED config /\ Fault
          /\ cache' = s
          /\ handler' = [pc |-> "drop", secret |-> s]
    /\ UNCHANGED <<now, file, fresh, scanVars, hooks, notices, calls, on>>

UnregisterWebhooks ==
    /\ handler.pc \in {"drop", "disable"}
    /\ \/ hooks' = {} /\ NoFault
       \/ UNCHANGED hooks /\ Fault
    /\ handler' = IF handler.pc = "drop" THEN [handler EXCEPT !.pc = "create"] ELSE [pc |-> "stop"]
    /\ UNCHANGED <<now, file, fresh, scanVars, notices, config, cache, calls, on>>

RegisterWebhooks ==
    /\ handler.pc = "create"
    /\ \/ hooks' = hooks \cup {handler.secret} /\ NoFault
       \/ UNCHANGED hooks /\ Fault
    /\ handler' = [pc |-> "start"]
    /\ UNCHANGED <<now, file, fresh, scanVars, notices, config, cache, calls, on>>

\* PollLoop.start: a no-op while a thread is alive, be it about to stop.
StartLoop ==
    /\ handler.pc = "start"
    /\ IF loop \notin {NoThread, DeadThread} THEN UNCHANGED <<loop, stop>>
       ELSE loop' = NewThread /\ stop' = FALSE
    /\ handler' = NoCall /\ on' = TRUE
    /\ UNCHANGED <<now, file, fresh, watermark, queued, passed, hooks, notices, config, cache,
                   calls, faults>>

Disable ==
    /\ handler = NoCall /\ on /\ calls < MaxCalls /\ calls' = calls + 1
    /\ handler' = [pc |-> "disable"] /\ on' = FALSE
    /\ UNCHANGED <<now, file, fresh, scanVars, hooks, notices, config, cache, faults>>

StopLoop ==
    /\ handler.pc = "stop" /\ handler' = NoCall
    /\ stop' = TRUE
    /\ UNCHANGED <<now, file, fresh, watermark, queued, passed, loop, hooks, notices, config, cache,
                   calls, faults, on>>

\* Another registration of the handler raises, and it returns the error.
HandlerFails ==
    /\ handler # NoCall /\ handler' = NoCall /\ Fault
    /\ UNCHANGED <<now, file, fresh, scanVars, hooks, notices, config, cache, calls, on>>

---------------------------------------------------------------------------
(* PollLoop._run and _scan_user.                                           *)

Goes(thread) ==
    /\ loop' = thread
    /\ UNCHANGED <<now, file, fresh, stop, hookVars>>

\* The wait for the startup is over, and the thread has its connection.
Settle ==
    /\ loop.pc = "start" /\ ~stop
    /\ Goes(NextRound)
    /\ UNCHANGED <<watermark, queued, passed, faults>>

\* Nothing catches an error of the connection: the thread ends, and only the
\* next start makes another.
LoopDies ==
    /\ loop.pc = "start" /\ ~stop
    /\ Goes(DeadThread) /\ Fault
    /\ UNCHANGED <<watermark, queued, passed>>

\* set_scan_watermark never moves the mark back.
Raised(mark) == Max({watermark, mark})

\* The first scan of a user only sets the mark.
SeedWatermark ==
    /\ loop.pc = "wait" /\ ~stop /\ watermark = Unset
    /\ watermark' = Raised(now)
    /\ Goes(NextRound)
    /\ UNCHANGED <<queued, passed, faults>>

\* Nobody else writes the mark, so that it is read in the step that lists.
RecentNodes ==
    /\ loop.pc = "wait" /\ ~stop /\ watermark # Unset
    /\ Goes([pc |-> "walk", from |-> watermark, top |-> watermark,
             todo |-> {f \in DOMAIN file : file[f] > watermark}])
    /\ UNCHANGED <<watermark, queued, passed, faults>>

\* Mutant: an error outside the walk ends the thread.
BugScanFails ==
    /\ loop.pc = "wait" /\ ~stop
    /\ Goes(NoThread) /\ Fault
    /\ UNCHANGED <<watermark, queued, passed>>

\* No settings, no listing: the loop waits for its next turn.
ScanFails ==
    /\ loop.pc = "wait" /\ ~stop
    /\ Goes(NextRound) /\ Fault
    /\ UNCHANGED <<watermark, queued, passed>>

EndLoop ==
    /\ loop.pc \in {"start", "wait"} /\ stop
    /\ Goes(NoThread)
    /\ UNCHANGED <<watermark, queued, passed, faults>>

\* Type and permissions are what the node reports at this time.  A share may be
\* read-only, a new file may still be reported as application/octet-stream: it
\* is left, and counts for the new mark like every node.
EnqueueNode(f) ==
    /\ loop.pc = "walk" /\ f \in loop.todo
    /\ \/ /\ \/ queued' = queued \cup {f} /\ UNCHANGED passed
             \/ passed' = passed \cup {f} /\ UNCHANGED queued
          /\ Goes([loop EXCEPT !.todo = @ \ {f}, !.top = Max({@, file[f]})])
          /\ NoFault
       \/ Goes(NextRound) /\ Fault /\ UNCHANGED <<queued, passed>>   \* recovered by the caller
    /\ UNCHANGED watermark

\* Mutant: the mark is the time of the scan.
BugMarkNow ==
    /\ loop.pc = "walk" /\ loop.todo = {}
    /\ watermark' = Raised(now)
    /\ Goes(NextRound)
    /\ UNCHANGED <<queued, passed, faults>>

SetWatermark ==
    /\ loop.pc = "walk" /\ loop.todo = {}
    /\ watermark' = IF loop.top > loop.from THEN Raised(loop.top) ELSE watermark
    /\ Goes(NextRound)
    /\ UNCHANGED <<queued, passed, faults>>

\* The container dies and comes back; lifespan starts the loop.
Restart ==
    /\ Fault
    /\ loop' = NewThread /\ stop' = FALSE /\ cache' = NoSecret /\ handler' = NoCall
    /\ UNCHANGED <<now, file, fresh, watermark, queued, passed, hooks, notices, config, calls, on>>

---------------------------------------------------------------------------

LoopStep ==
    \/ Settle \/ LoopDies
    \/ SeedWatermark \/ RecentNodes \/ (\E f \in Files : EnqueueNode(f)) \/ SetWatermark
    \/ ScanFails \/ EndLoop

HandlerStep ==
    \/ EnsureSecret \/ UnregisterWebhooks \/ RegisterWebhooks \/ StartLoop \/ StopLoop
    \/ HandlerFails

Next ==
    \/ Tick \/ Restart \/ Enable \/ Disable
    \/ \E f \in Files, t \in Times : Upload(f, t)
    \/ \E n \in notices : OnWebhook(n[1], n[2]) \/ LoseNotice(n[1], n[2])
    \/ HandlerStep
    \/ LoopStep

\* The thread goes on; nothing else is certain to.
Spec == Init /\ [][Next]_detectVars /\ WF_detectVars(LoopStep)

---------------------------------------------------------------------------

TypeOK ==
    /\ now \in Times /\ watermark \in Times \cup {Unset} /\ stop \in BOOLEAN
    /\ DOMAIN file \subseteq Files /\ Mtimes \subseteq Times
    /\ queued \cup passed \cup fresh \subseteq DOMAIN file
    /\ loop.pc \in {"off", "dead", "start", "wait", "walk"}
    /\ hooks \subseteq 1..MaxCalls /\ {config, cache} \subseteq 1..MaxCalls \cup {NoSecret}
    /\ handler.pc \in {"none", "secret", "drop", "create", "start", "disable", "stop"}

\* A file that is the newest when it arrives stays above the watermark until a
\* scan has looked at it or it is in the queue, whatever scan was under way,
\* failed half way or died: no mark of _scan_user passes a file unseen.
FreshFilesStayVisible ==
    \A f \in fresh : f \notin queued \cup passed => file[f] > watermark

\* Until the loop is told to stop or its thread has died at the start, every
\* such file is looked at or queued, though every webhook may be lost.
FreshFilesAreSeen ==
    []<>(stop \/ loop = DeadThread \/ fresh \subseteq queued \cup passed)

\* A webhook registered with the saved secret is accepted, in memory and after
\* a restart, whatever failed to be saved or dropped before.
HookAccepted == config # NoSecret /\ config \in hooks => Secret = config
=============================================================================
