------------------------- MODULE WorkerPoolProofs -------------------------
(***************************************************************************)
(* The lower bound on the pool, for any number of threads, callers, deaths *)
(* and any concurrency.                                                    *)
(***************************************************************************)
EXTENDS WorkerPool, FiniteSetTheorems, TLAPS

\* A supervisor about to be launched is known to one caller only and not at
\* work: launching it takes nobody out of _ensure_workers.
LaunchesAnew ==
    \A c \in Callers : at[c] = "launch" =>
        /\ new[c] \in Supervisors /\ at[new[c]] = "off"
        /\ \A d \in Callers \ {c} : new[d] # new[c]

\* What a caller appends to the list is a worker thread, never the supervisor.
AppendsThread == \A c \in Callers : at[c] = "append" => new[c] \in Threads

\* Where a caller is outside _ensure_workers.
Places == {"off", "born", "idle", "grow", "supervise", "launch"}

PoolInv == TypeOK /\ LaunchesAnew /\ AppendsThread /\ PoolRefilled

LEMMA Start0 == Init => PoolInv
<1> SUFFICES ASSUME Init PROVE PoolInv
  OBVIOUS
<1>1. TypeOK
  BY ConcurrencyAssumption, DeathsAssumption DEF Init, TypeOK, Callers
<1>2. LaunchesAnew /\ AppendsThread
  BY DEF Init, LaunchesAnew, AppendsThread, Callers
<1>3. PoolRefilled
  BY FS_EmptySet DEF Init, PoolRefilled
<1> QED
  BY <1>1, <1>2, <1>3 DEF PoolInv

LEMMA TypeKept == ASSUME TypeOK, AppendsThread, [Next]_vars PROVE TypeOK'
<1> USE DEF TypeOK, Go, Ensuring
<1>1. CASE UNCHANGED vars
  BY <1>1 DEF vars
<1>2. ASSUME NEW c \in Callers, NEW n \in 1 .. MaxConcurrency, Start(c, n) PROVE TypeOK'
  BY <1>2, ConcurrencyAssumption DEF Start
<1>3. ASSUME NEW c \in Callers, WakeUp(c) PROVE TypeOK'
  BY <1>3 DEF WakeUp
<1>4. ASSUME NEW c \in Callers, EnsureWorkers(c) PROVE TypeOK'
  <2>1. CASE Scan(c)
    BY <1>4, <2>1 DEF Scan
  <2>2. CASE Replace(c)
    BY <1>4, <2>2 DEF Replace
  <2>3. CASE SpawnThread(c)
    BY <1>4, <2>3 DEF SpawnThread
  <2>4. CASE Append(c)
    BY <1>4, <2>4 DEF Append, AppendsThread
  <2>5. CASE Ensured(c)
    BY <1>4, <2>5 DEF Ensured
  <2> QED
    BY <1>4, <2>1, <2>2, <2>3, <2>4, <2>5 DEF EnsureWorkers
<1>5. ASSUME NEW c \in Callers, EnsureSupervisor(c) PROVE TypeOK'
  BY <1>5 DEF EnsureSupervisor, AssignSupervisor, LaunchSupervisor, HasSupervisor
<1>6. ASSUME NEW t \in Threads, Die(t) PROVE TypeOK'
  BY <1>6, DeathsAssumption DEF Die
<1>7. ASSUME NEW c \in Callers, Grow(c) PROVE TypeOK'
  BY <1>7, ConcurrencyAssumption DEF Grow
<1>8. ASSUME NEW c \in Callers, Supervise(c) \/ SupervisorDies(c) PROVE TypeOK'
  BY <1>8, DeathsAssumption DEF Supervise, SupervisorDies
<1> QED
  BY <1>1, <1>2, <1>3, <1>4, <1>5, <1>6, <1>7, <1>8 DEF Next

LEMMA StepKeeps == ASSUME PoolInv, [Next]_vars PROVE LaunchesAnew' /\ PoolRefilled'
<1>1. /\ at \in [Callers -> Places \cup Ensuring]
      /\ new \in [Callers -> Threads \cup Supervisors \cup {None}]
      /\ LaunchesAnew /\ PoolRefilled
      /\ Supervisors \subseteq Callers /\ None \notin Supervisors
  BY NoneAssumption DEF PoolInv, TypeOK, Callers, Places
<1> USE <1>1 DEF Go, Ensuring, Places
<1>2. CASE UNCHANGED vars
  BY <1>2 DEF vars, LaunchesAnew, PoolRefilled
<1>3. ASSUME NEW c \in Callers, NEW n \in 1 .. MaxConcurrency, Start(c, n)
      PROVE  LaunchesAnew' /\ PoolRefilled'
  <2>1. at'[c] = "grow" /\ at[c] = "idle" /\ UNCHANGED <<new, threads, target>>
        /\ \A d \in Callers \ {c} : at'[d] = at[d]
    BY <1>3 DEF Start
  <2> QED
    BY <2>1 DEF LaunchesAnew, PoolRefilled
<1>4. ASSUME NEW c \in Callers, WakeUp(c) PROVE LaunchesAnew' /\ PoolRefilled'
  <2>1. at'[c] = "scan" /\ at[c] = "idle" /\ UNCHANGED new
        /\ \A d \in Callers \ {c} : at'[d] = at[d]
    BY <1>4 DEF WakeUp
  <2> QED
    BY <2>1 DEF LaunchesAnew, PoolRefilled
<1>5. ASSUME NEW c \in Callers, EnsureWorkers(c) PROVE LaunchesAnew' /\ PoolRefilled'
  <2>1. /\ at[c] \in Ensuring /\ at'[c] # "launch"
        /\ \A d \in Callers \ {c} : at'[d] = at[d]
    BY <1>5 DEF EnsureWorkers, Scan, Replace, SpawnThread, Append, Ensured
  <2>2. \A d \in Callers : at[d] = "launch" => d # c /\ new'[d] = new[d] /\ new'[c] # new[d]
    <3>1. CASE UNCHANGED new
      BY <2>1, <3>1 DEF LaunchesAnew
    <3>2. CASE SpawnThread(c)
      BY <2>1, <3>2 DEF SpawnThread, Known
    <3>3. CASE Append(c)
      BY <2>1, <3>3 DEF Append, LaunchesAnew
    <3> QED
      BY <1>5, <3>1, <3>2, <3>3 DEF EnsureWorkers, Scan, Replace, Ensured
  <2>3. \A d \in Callers \ {c} : new'[d] = new[d]
    BY <1>5 DEF EnsureWorkers, Scan, Replace, SpawnThread, Append, Ensured
  <2>4. LaunchesAnew'
    BY <2>1, <2>2, <2>3 DEF LaunchesAnew
  <2>5. PoolRefilled'
    <3>1. CASE Ensured(c)
      BY <3>1 DEF Ensured, PoolRefilled
    <3>2. CASE Scan(c) \/ Replace(c) \/ SpawnThread(c) \/ Append(c)
      BY <3>2 DEF Scan, Replace, SpawnThread, Append, PoolRefilled
    <3> QED
      BY <1>5, <3>1, <3>2 DEF EnsureWorkers
  <2> QED
    BY <2>4, <2>5
<1>6. ASSUME NEW c \in Callers, AssignSupervisor(c) PROVE LaunchesAnew' /\ PoolRefilled'
  <2>1. PICK s \in Supervisors \ {new[d] : d \in Callers} :
           at[s] = "off" /\ new' = [new EXCEPT ![c] = s]
    BY <1>6 DEF AssignSupervisor
  <2>2. at[c] = "supervise" /\ at' = [at EXCEPT ![c] = "launch"] /\ UNCHANGED <<threads, target>>
    BY <1>6 DEF AssignSupervisor
  <2> QED
    BY <2>1, <2>2 DEF LaunchesAnew, PoolRefilled
<1>7. ASSUME NEW c \in Callers, LaunchSupervisor(c) PROVE LaunchesAnew' /\ PoolRefilled'
  <2>1. /\ at[c] = "launch" /\ new[c] \in Supervisors /\ at[new[c]] = "off"
        /\ at' = [at EXCEPT ![c] = "idle", ![new[c]] = "born"]
        /\ new' = [new EXCEPT ![c] = None] /\ UNCHANGED <<threads, target>>
    BY <1>7 DEF LaunchSupervisor, LaunchesAnew
  <2>2. /\ at'[c] = "idle" /\ at'[new[c]] = "born"
        /\ \A d \in Callers \ {c, new[c]} : at'[d] = at[d]
    BY <2>1
  <2> QED
    BY <2>1, <2>2 DEF LaunchesAnew, PoolRefilled
<1>8. ASSUME NEW c \in Callers, HasSupervisor(c) PROVE LaunchesAnew' /\ PoolRefilled'
  BY <1>8 DEF HasSupervisor, LaunchesAnew, PoolRefilled
<1>9. ASSUME NEW t \in Threads, Die(t) PROVE LaunchesAnew' /\ PoolRefilled'
  BY <1>9 DEF Die, LaunchesAnew, PoolRefilled
<1>10. ASSUME NEW c \in Callers, Grow(c) PROVE LaunchesAnew' /\ PoolRefilled'
  <2>1. at'[c] = "scan" /\ at[c] = "grow" /\ UNCHANGED new
        /\ \A d \in Callers \ {c} : at'[d] = at[d]
    BY <1>10 DEF Grow
  <2> QED
    BY <2>1 DEF LaunchesAnew, PoolRefilled
<1>11. ASSUME NEW c \in Callers, Supervise(c) \/ SupervisorDies(c)
       PROVE  LaunchesAnew' /\ PoolRefilled'
  <2>1. at'[c] \in {"idle", "off"} /\ at[c] = "born" /\ UNCHANGED <<new, threads, target>>
        /\ \A d \in Callers \ {c} : at'[d] = at[d]
    BY <1>11 DEF Supervise, SupervisorDies
  <2> QED
    BY <2>1 DEF LaunchesAnew, PoolRefilled
<1> QED
  BY <1>2, <1>3, <1>4, <1>5, <1>6, <1>7, <1>8, <1>9, <1>10, <1>11 DEF Next, EnsureSupervisor

LEMMA AppendsKept == ASSUME PoolInv, [Next]_vars PROVE AppendsThread'
<1>1. /\ at \in [Callers -> Places \cup Ensuring]
      /\ new \in [Callers -> Threads \cup Supervisors \cup {None}]
      /\ LaunchesAnew /\ AppendsThread
  BY DEF PoolInv, TypeOK, Places
<1> USE <1>1 DEF Go, Ensuring, Places, AppendsThread
<1>2. CASE UNCHANGED vars
  BY <1>2 DEF vars
<1>3. ASSUME NEW c \in Callers, NEW n \in 1 .. MaxConcurrency, Start(c, n) PROVE AppendsThread'
  BY <1>3 DEF Start
<1>4. ASSUME NEW c \in Callers, WakeUp(c) PROVE AppendsThread'
  BY <1>4 DEF WakeUp
<1>5. ASSUME NEW c \in Callers, EnsureWorkers(c) PROVE AppendsThread'
  BY <1>5 DEF EnsureWorkers, Scan, Replace, SpawnThread, Append, Ensured
<1>6. ASSUME NEW c \in Callers, AssignSupervisor(c) PROVE AppendsThread'
  BY <1>6 DEF AssignSupervisor
<1>7. ASSUME NEW c \in Callers, LaunchSupervisor(c) PROVE AppendsThread'
  BY <1>7 DEF LaunchSupervisor, LaunchesAnew
<1>8. ASSUME NEW c \in Callers, HasSupervisor(c) PROVE AppendsThread'
  BY <1>8 DEF HasSupervisor
<1>9. ASSUME NEW t \in Threads, Die(t) PROVE AppendsThread'
  BY <1>9 DEF Die
<1>10. ASSUME NEW c \in Callers, Grow(c) \/ Supervise(c) \/ SupervisorDies(c)
       PROVE  AppendsThread'
  BY <1>10 DEF Grow, Supervise, SupervisorDies
<1> QED
  BY <1>2, <1>3, <1>4, <1>5, <1>6, <1>7, <1>8, <1>9, <1>10 DEF Next, EnsureSupervisor

LEMMA PoolInvariance == Spec => []PoolInv
<1>1. PoolInv /\ [Next]_vars => PoolInv'
  BY TypeKept, StepKeeps, AppendsKept DEF PoolInv
<1> QED
  BY <1>1, Start0, PTL DEF Spec

\* The object's attributes and the callers' locals keep their shape.
THEOREM TypeCorrect == Spec => []TypeOK
<1>1. PoolInv => TypeOK
  BY DEF PoolInv
<1> QED
  BY <1>1, PoolInvariance, PTL

\* Although no lock protects _ensure_workers, when the last caller leaves it the
\* list is as long as the concurrency asks for: whoever overwrote the list of
\* another one compares its length again before it leaves.
THEOREM ListIsRefilled == Spec => []PoolRefilled
<1>1. PoolInv => PoolRefilled
  BY DEF PoolInv
<1> QED
  BY <1>1, PoolInvariance, PTL
=============================================================================
