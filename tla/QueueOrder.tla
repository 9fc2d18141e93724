----------------------------- MODULE QueueOrder -----------------------------
(***************************************************************************)
(* The order of the queue (lib/job_queue.py): the pending rows by          *)
(* updated_at, as _claim takes them.  Stamps are whole seconds, rows of    *)
(* one second come in any order, and every write of a pending row moves it *)
(* to the current second.  JobQueue has the rest of a row; here only the   *)
(* order counts, so time needs no bound: groups of equal stamps, oldest    *)
(* first, the last one the current second.                                 *)
(***************************************************************************)
EXTENDS Integers, Sequences, SequencesExt

CONSTANTS
    Jobs,
    Watched,        \* the job looked at: any of them, they differ in nothing
    Threads,        \* worker threads
    MaxTouches,     \* bound on enqueues of pending rows
    MaxHung         \* bound on threads that never return

VARIABLES
    line,           \* the pending rows
    holds,          \* what each thread has claimed: a set of at most one job
    hung,           \* threads that never return
    stuck,          \* rows in processing whose thread hangs
    touched

orderVars == <<line, holds, hung, stuck, touched>>

Init ==
    /\ line = <<{}>> /\ holds = [t \in Threads |-> {}]
    /\ hung = {} /\ stuck = {} /\ touched = 0

Pending == UNION ToSet(line)
Processing == stuck \cup UNION {holds[t] : t \in Threads}

\* Without j; a group it leaves empty is no more, but for the current second.
Gone(j) == {i \in 1 .. Len(line) - 1 : line[i] = {j}}
Without(j) ==
    LET rest == [i \in DOMAIN line |-> line[i] \ {j}] IN
    IF Gone(j) = {} THEN rest ELSE RemoveAt(rest, CHOOSE i \in Gone(j) : TRUE)
AtTheBack(l, j) == [l EXCEPT ![Len(l)] = @ \cup {j}]

Tick ==
    /\ Last(line) # {} /\ line' = Append(line, {})
    /\ UNCHANGED <<holds, hung, stuck, touched>>

\* A row in processing is left alone, a pending one gets a new stamp.
Enqueue(j) ==
    /\ j \notin Processing
    /\ IF j \in Pending THEN touched < MaxTouches /\ touched' = touched + 1 ELSE UNCHANGED touched
    /\ line' = AtTheBack(Without(j), j)
    /\ UNCHANGED <<holds, hung, stuck>>

Claim(t, j) ==
    /\ t \notin hung /\ holds[t] = {}
    /\ j \in Head(line)
    /\ line' = Without(j) /\ holds' = [holds EXCEPT ![t] = {j}]
    /\ UNCHANGED <<hung, stuck, touched>>

Finish(t) ==
    /\ holds[t] # {} /\ holds' = [holds EXCEPT ![t] = {}]
    /\ UNCHANGED <<line, hung, stuck, touched>>

\* Mutant: the row keeps the place it had.
BugRequeue(t, j) ==
    /\ j \in holds[t] /\ holds' = [holds EXCEPT ![t] = {}]
    /\ line' = <<{j}>> \o line
    /\ UNCHANGED <<hung, stuck, touched>>

\* _requeue after an outage, without end; also a retry by _finish.
Requeue(t, j) ==
    /\ j \in holds[t] /\ holds' = [holds EXCEPT ![t] = {}]
    /\ line' = AtTheBack(line, j)
    /\ UNCHANGED <<hung, stuck, touched>>

Hang(t) ==
    /\ holds[t] # {} /\ Cardinality(hung) < MaxHung
    /\ hung' = hung \cup {t}
    /\ stuck' = stuck \cup holds[t] /\ holds' = [holds EXCEPT ![t] = {}]
    /\ UNCHANGED <<line, touched>>

\* reap_stuck_jobs; the thread itself is not replaced.
Reap(j) ==
    /\ j \in stuck /\ stuck' = stuck \ {j}
    /\ line' = AtTheBack(line, j)
    /\ UNCHANGED <<holds, hung, touched>>

---------------------------------------------------------------------------

ClaimStep(t) == \E j \in Pending : Claim(t, j)
EndStep(t) == Finish(t) \/ \E j \in Jobs : Requeue(t, j)
ReapStep == \E j \in stuck : Reap(j)

Next ==
    \/ Tick \/ (\E j \in Jobs : Enqueue(j)) \/ ReapStep
    \/ \E t \in Threads : ClaimStep(t) \/ EndStep(t) \/ Hang(t)

Fairness ==
    /\ WF_orderVars(Tick) /\ WF_orderVars(ReapStep)
    /\ \A t \in Threads : WF_orderVars(ClaimStep(t)) /\ WF_orderVars(EndStep(t))

Spec == Init /\ [][Next]_orderVars /\ Fairness

---------------------------------------------------------------------------

TypeOK ==
    /\ Pending \subseteq Jobs /\ Pending \cap Processing = {}
    /\ \A t \in Threads : Cardinality(holds[t]) <= 1
    /\ touched \in 0..MaxTouches /\ hung \subseteq Threads

\* "one backend-crashing file rotates behind every other pending job instead of
\* head-blocking" (_requeue): a pending job gets its turn though others are
\* given back for ever and a thread hangs, as long as another one works and its
\* own row is not enqueued for ever.
NobodyStarves == Watched \in Pending ~> Watched \in Processing
=============================================================================
