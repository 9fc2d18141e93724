----------------------------- MODULE WorkerPool -----------------------------
(***************************************************************************)
(* How class Workers of lib/job_queue.py keeps its threads: start(), run   *)
(* by the startup and by every enable of the app, and the supervisor both  *)
(* call _ensure_workers, which no lock protects.  Each attribute of the    *)
(* object is read or written in a step of its own; what a caller computed  *)
(* from it may be stale when it writes.  A definition named Bug... is a    *)
(* wrong version of the one that follows it.                               *)
(***************************************************************************)
EXTENDS Integers, FiniteSets

CONSTANTS
    Threads,        \* identities of worker threads: bounds those alive at once
    Starters,       \* concurrent calls of start()
    Supervisors,    \* identities of supervisor threads
    MaxConcurrency, \* the largest concurrency asked for
    MaxDeaths,      \* bound on the number of threads that die, supervisors included
    None

ASSUME ConcurrencyAssumption == MaxConcurrency \in Nat \ {0}
ASSUME DeathsAssumption == MaxDeaths \in Nat
ASSUME NoneAssumption == None \notin Threads \cup Supervisors

VARIABLES
    alive,      \* the worker threads that run _loop
    threads,    \* self._threads
    target,     \* self._concurrency
    supervisor, \* self._supervisor
    at,         \* where each caller is
    kept,       \* the list of live threads a caller has just computed
    new,        \* the thread, or supervisor, a caller has just created
    grown,      \* the concurrency start() has computed and not yet stored
    deaths

vars == <<alive, threads, target, supervisor, at, kept, new, grown, deaths>>

Callers == Starters \cup Supervisors

\* In _ensure_workers: about to scan the list, to replace it, to compare its
\* length, to append the thread just started.
Ensuring == {"scan", "replace", "compare", "append"}

Init ==
    /\ alive = {} /\ threads = {}
    /\ target = 0
    /\ supervisor = None
    /\ at = [c \in Callers |-> IF c \in Starters THEN "idle" ELSE "off"]
    /\ kept = [c \in Callers |-> {}]
    /\ new = [c \in Callers |-> None]
    /\ grown = [c \in Callers |-> 0]
    /\ deaths = 0

Go(c, place) == at' = [at EXCEPT ![c] = place]

\* start() adds to the target instead of taking the larger.
BugStartAdds(c, concurrency) ==
    /\ c \in Starters /\ at[c] = "idle"
    /\ grown' = [grown EXCEPT ![c] = target + concurrency]
    /\ Go(c, "grow")
    /\ UNCHANGED <<alive, threads, target, supervisor, kept, new, deaths>>

\* start(concurrency) reads the target: the larger of the two is to be stored.
Start(c, concurrency) ==
    /\ c \in Starters /\ at[c] = "idle"
    /\ grown' = [grown EXCEPT ![c] = IF concurrency > target THEN concurrency ELSE target]
    /\ Go(c, "grow")
    /\ UNCHANGED <<alive, threads, target, supervisor, kept, new, deaths>>

\* It stores it, over whatever another start() stored since.
Grow(c) ==
    /\ at[c] = "grow"
    /\ target' = grown[c]
    /\ grown' = [grown EXCEPT ![c] = 0]
    /\ Go(c, "scan")
    /\ UNCHANGED <<alive, threads, supervisor, kept, new, deaths>>

\* _supervise, every 60 seconds.
WakeUp(c) ==
    /\ c \in Supervisors /\ at[c] = "idle"
    /\ Go(c, "scan")
    /\ UNCHANGED <<alive, threads, target, supervisor, kept, new, grown, deaths>>

\* The list is kept as it is, dead threads included.
BugScanKeepsDead(c) ==
    /\ at[c] = "scan"
    /\ kept' = [kept EXCEPT ![c] = threads]
    /\ Go(c, "replace")
    /\ UNCHANGED <<alive, threads, target, supervisor, new, grown, deaths>>

\* [t for t in self._threads if t.is_alive()]
Scan(c) ==
    /\ at[c] = "scan"
    /\ kept' = [kept EXCEPT ![c] = threads \cap alive]
    /\ Go(c, "replace")
    /\ UNCHANGED <<alive, threads, target, supervisor, new, grown, deaths>>

Replace(c) ==
    /\ at[c] = "replace"
    /\ threads' = kept[c]
    /\ kept' = [kept EXCEPT ![c] = {}]
    /\ Go(c, "compare")
    /\ UNCHANGED <<alive, target, supervisor, new, grown, deaths>>

\* Identities somebody still refers to.  A live thread that fell off every
\* list is an orphan; its identity may be given to a new thread, which bounds
\* Threads and makes Cardinality(alive) count too few, never too many.
Known == threads \cup UNION {kept[c] \cup {new[c]} : c \in Callers}

\* The test of the while loop is true: a thread is created and started.
SpawnThread(c) ==
    /\ at[c] = "compare"
    /\ Cardinality(threads) < target
    /\ \E t \in Threads \ Known :
          /\ alive' = alive \cup {t}
          /\ new' = [new EXCEPT ![c] = t]
    /\ Go(c, "append")
    /\ UNCHANGED <<threads, target, supervisor, kept, grown, deaths>>

Append(c) ==
    /\ at[c] = "append"
    /\ threads' = threads \cup {new[c]}
    /\ new' = [new EXCEPT ![c] = None]
    /\ Go(c, "compare")
    /\ UNCHANGED <<alive, target, supervisor, kept, grown, deaths>>

\* An if where the code has a while: the caller leaves after one thread.
BugEnsuredOnce(c) ==
    /\ at[c] = "compare"
    /\ threads # {}
    /\ Go(c, IF c \in Starters THEN "supervise" ELSE "idle")
    /\ UNCHANGED <<alive, threads, target, supervisor, kept, new, grown, deaths>>

\* The test is false: start() goes on to the supervisor.
Ensured(c) ==
    /\ at[c] = "compare"
    /\ Cardinality(threads) >= target
    /\ Go(c, IF c \in Starters THEN "supervise" ELSE "idle")
    /\ UNCHANGED <<alive, threads, target, supervisor, kept, new, grown, deaths>>

NeedsSupervisor == supervisor \notin {s \in Supervisors : at[s] # "off"}

\* start() assigns a new supervisor thread, then starts it.
AssignSupervisor(c) ==
    /\ at[c] = "supervise" /\ NeedsSupervisor
    /\ \E s \in Supervisors \ {new[d] : d \in Callers} :
          /\ at[s] = "off"
          /\ supervisor' = s
          /\ new' = [new EXCEPT ![c] = s]
    /\ Go(c, "launch")
    /\ UNCHANGED <<alive, threads, target, kept, grown, deaths>>

LaunchSupervisor(c) ==
    /\ at[c] = "launch"
    /\ at' = [at EXCEPT ![c] = "idle", ![new[c]] = "born"]
    /\ new' = [new EXCEPT ![c] = None]
    /\ UNCHANGED <<alive, threads, target, supervisor, kept, grown, deaths>>

\* NextcloudApp() at the top of _supervise succeeds: the loop is entered, whose
\* guard keeps every later failure.
Supervise(s) ==
    /\ s \in Supervisors /\ at[s] = "born"
    /\ Go(s, "idle")
    /\ UNCHANGED <<alive, threads, target, supervisor, kept, new, grown, deaths>>

\* It raises, outside the guard: the thread ends, and nobody but another start()
\* looks whether the supervisor is alive.
SupervisorDies(s) ==
    /\ s \in Supervisors /\ at[s] = "born"
    /\ deaths < MaxDeaths
    /\ deaths' = deaths + 1
    /\ Go(s, "off")
    /\ UNCHANGED <<alive, threads, target, supervisor, kept, new, grown>>

HasSupervisor(c) ==
    /\ at[c] = "supervise" /\ ~ NeedsSupervisor
    /\ Go(c, "idle")
    /\ UNCHANGED <<alive, threads, target, supervisor, kept, new, grown, deaths>>

\* A worker thread dies of something the outer guard of _loop does not catch.
Die(t) ==
    /\ t \in alive /\ deaths < MaxDeaths
    /\ alive' = alive \ {t}
    /\ deaths' = deaths + 1
    /\ UNCHANGED <<threads, target, supervisor, at, kept, new, grown>>

EnsureWorkers(c) == Scan(c) \/ Replace(c) \/ SpawnThread(c) \/ Append(c) \/ Ensured(c)
EnsureSupervisor(c) == AssignSupervisor(c) \/ LaunchSupervisor(c) \/ HasSupervisor(c)

Next ==
    \/ \E c \in Callers : \/ \E n \in 1 .. MaxConcurrency : Start(c, n)
                          \/ Grow(c) \/ Supervise(c) \/ SupervisorDies(c)
                          \/ WakeUp(c) \/ EnsureWorkers(c) \/ EnsureSupervisor(c)
    \/ \E t \in Threads : Die(t)

\* A caller inside _ensure_workers or start() goes on; the supervisor wakes.
Spec ==
    /\ Init /\ [][Next]_vars
    /\ \A c \in Callers : /\ WF_vars(Grow(c))
                          /\ WF_vars(Supervise(c))
                          /\ WF_vars(WakeUp(c))
                          /\ WF_vars(EnsureWorkers(c))
                          /\ WF_vars(EnsureSupervisor(c))

-----------------------------------------------------------------------------
\* Attributes and callers' locals have the shape the code gives them.
TypeOK ==
    /\ alive \subseteq Threads /\ threads \subseteq Threads
    /\ target \in 0 .. MaxConcurrency
    /\ supervisor \in Supervisors \cup {None}
    /\ at \in [Callers -> {"off", "born", "idle", "grow", "supervise", "launch"}
                            \cup Ensuring]
    /\ kept \in [Callers -> SUBSET Threads]
    /\ new \in [Callers -> Threads \cup Supervisors \cup {None}]
    /\ grown \in [Callers -> 0 .. MaxConcurrency]
    /\ deaths \in 0 .. MaxDeaths

\* When nobody is inside _ensure_workers the list has as many threads as the
\* concurrency asks for, however the calls were interleaved: a call that
\* overwrote the list of another one refills it.
PoolRefilled ==
    (\A c \in Callers : at[c] \notin Ensuring) => Cardinality(threads) >= target

\* A supervisor thread is past NextcloudApp().
Supervising == \E s \in Supervisors : at[s] \notin {"off", "born"}

\* Threads that die are replaced: once a supervisor has got into its loop, and
\* as long as no start() overwrites the target with less, the pool comes back to
\* its size and stays there.  When NextcloudApp() ends the supervisor as it
\* ended the workers, only the next start() brings anybody back.
PoolRecovers ==
    \A n \in 1 .. MaxConcurrency :
        <>[](Supervising /\ target >= n) => <>[](Cardinality(alive) >= n)
=============================================================================
