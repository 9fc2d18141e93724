--------------------------- MODULE TagMergeProofs ---------------------------
(***************************************************************************)
(* Proofs about TagMerge, for every set of pairs, users, runners and       *)
(* requests, and every number of runs.                                     *)
(***************************************************************************)
EXTENDS TagMerge, TLAPS

Locals ==
    [at : Place, gen : 0 .. MaxStarts, run : 0 .. MaxRuns, todo : SUBSET Pairs,
     users : SUBSET Users, cur : Pairs \cup {NoPair}, left : SUBSET Users,
     verdict : {"none", "applied", "vacant", "failed"}]

LEMMA BlankType ==
  ASSUME NEW place \in Place, NEW g \in 0 .. MaxStarts
  PROVE  Blank(place, g) \in Locals
BY BoundsAssumption DEF Blank, Locals

\* The store but the locals of the runners.
TablesOK ==
    /\ runs \in 0 .. MaxRuns
    /\ phase \in [Runs -> Phase]
    /\ pair \in [Runs -> [Pairs -> PairStatus]]
    /\ aliases \subseteq Pairs
    /\ tagged \in [Pairs -> SUBSET Users]
    /\ resolved \in [Runs -> SUBSET SUBSET Users]
    /\ vacant \in [Runs -> SUBSET (Pairs \cup {NoPair})]
    /\ running \in BOOLEAN /\ gen \in 0 .. MaxStarts /\ starts \in gen .. MaxStarts

Handlers == [Requests -> [at : Handling, run : 0 .. MaxRuns, folded : SUBSET Pairs]]

LEMMA TypeParts ==
  TypeOK <=> TablesOK /\ runner \in [Runners -> Locals] /\ request \in Handlers
BY DEF TypeOK, TablesOK, Locals, Handlers

LEMMA Places ==
  /\ "off" \in Place /\ "end" \in Place /\ "lost" \in Place
  /\ "load" \in Place /\ "open" \in Place /\ "chunk" \in Place
  /\ "insert" \in Place /\ "publish" \in Place
  /\ "pick" \in Place /\ "enter" \in Place /\ "list" \in Place /\ "resolve" \in Place
  /\ "pairs" \in Place
  /\ "users" \in Place /\ "record" \in Place /\ "close" \in Place
BY DEF Place, Analyzing, Applying

\* The locals of the runner that moves.
LEMMA RunnerType ==
  ASSUME TypeOK, NEW k \in Runners, Analyze(k) \/ Apply(k) \/ End(k)
  PROVE  runner' \in [Runners -> Locals]
<1>1. TablesOK /\ runner \in [Runners -> Locals]
  BY TypeParts
<1>3. CASE BeginAnalyze(k) \/ BeginApply(k)
  <2>1. gen + 1 \in 0 .. MaxStarts
    BY <1>1, <1>3, BoundsAssumption DEF BeginAnalyze, BeginApply, Begin, TablesOK
  <2>2. Blank("load", gen + 1) \in Locals /\ Blank("pick", gen + 1) \in Locals
    BY <2>1, BlankType, Places
  <2> QED
    BY <1>1, <1>3, <2>2 DEF BeginAnalyze, BeginApply, Begin
<1>4. GoEnd(k) => runner' \in [Runners -> Locals]
  <2>1. Blank("end", runner[k].gen) \in Locals
    BY <1>1, BlankType, Places DEF Locals
  <2> QED
    BY <1>1, <2>1 DEF GoEnd
<1>5. \A place \in Place : Go(k, place) => runner' \in [Runners -> Locals]
  BY <1>1 DEF Go, Locals
<1>6. CASE Load(k)
  <2> DEFINE new == [runner[k] EXCEPT !.at = "open", !.todo = Pairs \ aliases]
  <2>1. new \in Locals
    BY <1>1, Places DEF Locals
  <2>2. runner' = [runner EXCEPT ![k] = new]
    BY <1>1, <1>6 DEF Load, Locals
  <2> QED
    BY <1>1, <2>1, <2>2
<1>7. CASE OpenRun(k)
  <2>1. runs + 1 \in 0 .. MaxRuns
    BY <1>1, <1>7, BoundsAssumption DEF OpenRun, TablesOK
  <2> DEFINE new == [runner[k] EXCEPT !.at = "chunk", !.run = runs + 1]
  <2>2. new \in Locals
    BY <1>1, <2>1, Places DEF Locals
  <2>3. runner' = [runner EXCEPT ![k] = new]
    BY <1>1, <1>7 DEF OpenRun, Locals
  <2> QED
    BY <1>1, <2>2, <2>3
<1>8. CASE Chunk(k)
  <2>1. PICK S \in SUBSET runner[k].todo :
          runner' = [runner EXCEPT ![k].at = "insert", ![k].todo = S]
    BY <1>8 DEF Chunk
  <2>2. S \in SUBSET Pairs
    BY <1>1, <2>1 DEF Locals
  <2> DEFINE new == [runner[k] EXCEPT !.at = "insert", !.todo = S]
  <2>3. new \in Locals
    BY <1>1, <2>2, Places DEF Locals
  <2>4. runner' = [runner EXCEPT ![k] = new]
    BY <1>1, <2>1 DEF Locals
  <2> QED
    BY <1>1, <2>3, <2>4
<1>9. CASE InsertPairs(k)
  <2> DEFINE new == [runner[k] EXCEPT !.at = "publish", !.todo = {}]
  <2>1. new \in Locals
    BY <1>1, Places DEF Locals
  <2>2. runner' = [runner EXCEPT ![k] = new]
    BY <1>1, <1>9 DEF InsertPairs, Locals
  <2> QED
    BY <1>1, <2>1, <2>2
<1>10. CASE Publish(k) \/ FailAnalysis(k) \/ Close(k) \/ LeaveApply(k)
  BY <1>4, <1>10 DEF Publish, FailAnalysis, Close, LeaveApply
<1>11. CASE PickRun(k)
  <2>1. \/ runner' = [runner EXCEPT ![k].at = "enter", ![k].run = runs]
        \/ GoEnd(k)
    BY <1>11 DEF PickRun
  <2>2. runs \in 0 .. MaxRuns
    BY <1>1 DEF TablesOK
  <2>3. CASE runner' = [runner EXCEPT ![k].at = "enter", ![k].run = runs]
    <3> DEFINE new == [runner[k] EXCEPT !.at = "enter", !.run = runs]
    <3>1. new \in Locals
      BY <1>1, <2>2, Places DEF Locals
    <3>2. runner' = [runner EXCEPT ![k] = new]
      BY <1>1, <2>3 DEF Locals
    <3> QED
      BY <1>1, <3>1, <3>2
  <2> QED
    BY <1>4, <2>1, <2>3
<1>12. CASE EnterApplying(k) \/ CountLeft(k) \/ LoseAnalysis(k) \/ LoseApply(k)
  BY <1>4, <1>5, <1>12, Places DEF EnterApplying, CountLeft, LoseAnalysis, LoseApply
<1>13. CASE ListPairs(k)
  <2> DEFINE todo == With(RunOf(k), {"approved", "failed"})
  <2> DEFINE new == [runner[k] EXCEPT !.at = "resolve", !.todo = todo]
  <2>1. todo \in SUBSET Pairs
    BY DEF With
  <2>2. runner' = [runner EXCEPT ![k] = new]
    BY <1>1, <1>13 DEF ListPairs, Locals
  <2> HIDE DEF todo
  <2>3. new \in Locals
    BY <1>1, <2>1, Places DEF Locals
  <2> QED
    BY <1>1, <2>2, <2>3
<1>20. CASE ResolveUsers(k)
  <2>1. PICK S \in SUBSET Users :
          runner' = [runner EXCEPT ![k].at = "pairs", ![k].users = S]
    BY <1>20 DEF ResolveUsers
  <2> DEFINE new == [runner[k] EXCEPT !.at = "pairs", !.users = S]
  <2>2. new \in Locals
    BY <1>1, <2>1, Places DEF Locals
  <2>3. runner' = [runner EXCEPT ![k] = new]
    BY <1>1, <2>1 DEF Locals
  <2> QED
    BY <1>1, <2>2, <2>3
<1>14. CASE NextPair(k)
  <2>1. PICK p \in runner[k].todo :
          runner' = [runner EXCEPT ![k].at = "users", ![k].cur = p,
                                   ![k].left = runner[k].users, ![k].todo = @ \ {p}]
    BY <1>14 DEF NextPair
  <2> DEFINE new == [runner[k] EXCEPT !.at = "users", !.cur = p,
                                      !.left = runner[k].users, !.todo = @ \ {p}]
  <2>2. new \in Locals
    BY <1>1, Places DEF Locals
  <2>3. runner' = [runner EXCEPT ![k] = new]
    BY <1>1, <2>1 DEF Locals
  <2> QED
    BY <1>1, <2>2, <2>3
<1>15. CASE TagUser(k)
  <2>1. PICK u \in runner[k].left : runner' = [runner EXCEPT ![k].left = @ \ {u}]
    BY <1>15 DEF TagUser
  <2> DEFINE new == [runner[k] EXCEPT !.left = @ \ {u}]
  <2>2. new \in Locals
    BY <1>1 DEF Locals
  <2>3. runner' = [runner EXCEPT ![k] = new]
    BY <1>1, <2>1 DEF Locals
  <2> QED
    BY <1>1, <2>2, <2>3
<1>16. CASE PairDone(k)
  <2> DEFINE new == [runner[k] EXCEPT !.at = "record", !.verdict = "applied"]
  <2>1. new \in Locals
    BY <1>1, Places DEF Locals
  <2>2. runner' = [runner EXCEPT ![k] = new]
    BY <1>1, <1>16 DEF PairDone, Locals
  <2> QED
    BY <1>1, <2>1, <2>2
<1>17. CASE PairFails(k)
  <2> DEFINE new == [runner[k] EXCEPT !.at = "record", !.verdict = "failed", !.left = {}]
  <2>1. new \in Locals
    BY <1>1, Places DEF Locals
  <2>2. runner' = [runner EXCEPT ![k] = new]
    BY <1>1, <1>17 DEF PairFails, Locals
  <2> QED
    BY <1>1, <2>1, <2>2
<1>21. CASE NothingToTag(k)
  <2> DEFINE new == [runner[k] EXCEPT !.at = "record", !.verdict = "vacant", !.left = {}]
  <2>1. new \in Locals
    BY <1>1, Places DEF Locals
  <2>2. runner' = [runner EXCEPT ![k] = new]
    BY <1>1, <1>21 DEF NothingToTag, Locals
  <2> QED
    BY <1>1, <2>1, <2>2
<1>18. CASE RecordPair(k)
  <2> DEFINE new == [runner[k] EXCEPT !.at = "pairs", !.cur = NoPair, !.verdict = "none"]
  <2>1. new \in Locals
    BY <1>1, Places DEF Locals
  <2>2. runner' = [runner EXCEPT ![k] = new]
    BY <1>1, <1>18 DEF RecordPair, Locals
  <2> QED
    BY <1>1, <2>1, <2>2
<1>19. CASE End(k)
  <2>1. Off \in Locals
    BY BlankType, BoundsAssumption, Places DEF Off
  <2> QED
    BY <1>1, <1>5, <1>19, <2>1, Places DEF End
<1> QED
  BY <1>3, <1>6, <1>7, <1>8, <1>9, <1>10, <1>11, <1>12, <1>13, <1>14, <1>15, <1>16,
     <1>17, <1>18, <1>19, <1>20, <1>21
  DEF Analyze, Apply

\* The tables, whoever moves.
LEMMA TablesType ==
  ASSUME TypeOK, NEW k \in Runners, Analyze(k) \/ Apply(k) \/ End(k)
  PROVE  TablesOK' /\ request' = request
<1>1. TablesOK /\ runner \in [Runners -> Locals]
  BY TypeParts
<1> USE DEF TablesOK, store, state, cover, SetPhase, Runs
<1>2. CASE BeginAnalyze(k) \/ BeginApply(k)
  <2>1. gen + 1 \in 0 .. MaxStarts /\ starts + 1 \in gen + 1 .. MaxStarts
    BY <1>1, <1>2, BoundsAssumption DEF BeginAnalyze, BeginApply, Begin
  <2> QED
    BY <1>1, <1>2, <2>1 DEF BeginAnalyze, BeginApply, Begin
<1>3. CASE Load(k) \/ Chunk(k) \/ PickRun(k) \/ ListPairs(k) \/ NextPair(k) \/ PairDone(k)
           \/ PairFails(k) \/ CountLeft(k) \/ LeaveApply(k) \/ LoseAnalysis(k) \/ LoseApply(k)
           \/ NothingToTag(k)
  BY <1>1, <1>3 DEF Load, Chunk, PickRun, ListPairs, NextPair, PairDone, PairFails,
                    CountLeft, LeaveApply, LoseAnalysis, LoseApply, NothingToTag
<1>10. CASE ResolveUsers(k)
  <2>1. PICK S \in SUBSET Users : resolved' = [resolved EXCEPT ![RunOf(k)] = @ \cup {S}]
    BY <1>10 DEF ResolveUsers
  <2>2. resolved' \in [Runs -> SUBSET SUBSET Users]
    BY <1>1, <2>1
  <2> QED
    BY <1>1, <1>10, <2>2 DEF ResolveUsers
<1>4. CASE End(k)
  BY <1>1, <1>4 DEF End
<1>5. CASE OpenRun(k)
  <2>1. phase' \in [Runs -> Phase]
    BY <1>1, <1>5 DEF OpenRun, Phase
  <2>2. runs' \in 0 .. MaxRuns
    BY <1>1, <1>5, BoundsAssumption DEF OpenRun
  <2> QED
    BY <1>1, <1>5, <2>1, <2>2 DEF OpenRun
<1>6. CASE InsertPairs(k)
  <2>1. \A r \in Runs :
          [p \in Pairs |-> IF p \in runner[k].todo THEN "proposed" ELSE pair[r][p]]
            \in [Pairs -> PairStatus]
    BY <1>1 DEF PairStatus
  <2> QED
    BY <1>1, <1>6, <2>1 DEF InsertPairs
<1>7. CASE Publish(k) \/ FailAnalysis(k) \/ EnterApplying(k) \/ Close(k)
  BY <1>1, <1>7 DEF Publish, FailAnalysis, EnterApplying, Close, Phase
<1>8. CASE TagUser(k)
  <2>1. PICK u \in runner[k].left : tagged' = [tagged EXCEPT ![runner[k].cur] = @ \cup {u}]
    BY <1>8 DEF TagUser
  <2>2. u \in Users
    BY <1>1, <2>1 DEF Locals
  <2>3. tagged' \in [Pairs -> SUBSET Users]
    BY <1>1, <2>1, <2>2
  <2> QED
    BY <1>1, <1>8, <2>3 DEF TagUser
<1>9. CASE RecordPair(k)
  <2>1. Status(runner[k].verdict) \in PairStatus
    BY <1>1 DEF Locals, PairStatus, Status
  <2>2. pair' \in [Runs -> [Pairs -> PairStatus]]
    BY <1>1, <1>9, <2>1 DEF RecordPair
  <2>3. vacant' \in [Runs -> SUBSET (Pairs \cup {NoPair})]
    <3>1. runner[k].cur \in Pairs \cup {NoPair}
      BY <1>1 DEF Locals
    <3>2. \/ vacant' = [vacant EXCEPT ![RunOf(k)] = @ \cup {runner[k].cur}]
          \/ vacant' = [vacant EXCEPT ![RunOf(k)] = @ \ {runner[k].cur}]
      BY <1>9 DEF RecordPair
    <3> QED
      BY <1>1, <3>1, <3>2
  <2> QED
    BY <1>1, <1>9, <2>2, <2>3 DEF RecordPair
<1> QED
  BY <1>2, <1>3, <1>4, <1>5, <1>6, <1>7, <1>8, <1>9, <1>10 DEF Analyze, Apply

\* A request moves its own locals, phases, pairs and the aliases.
LEMMA ReviewType ==
  ASSUME TypeOK, NEW a \in Requests, Review(a)
  PROVE  TablesOK' /\ runner' = runner /\ request' \in Handlers
<1>1. TablesOK /\ request \in Handlers
  BY TypeParts
<1>2. /\ "idle" \in Handling /\ "reject" \in Handling /\ "restore" \in Handling
      /\ "approve" \in Handling /\ "discard" \in Handling
      /\ "read" \in Handling /\ "write" \in Handling
  BY DEF Handling
<1>3. Idle \in [at : Handling, run : 0 .. MaxRuns, folded : SUBSET Pairs]
  BY <1>2, BoundsAssumption DEF Idle
<1> USE DEF TablesOK, store, state, cover, SetPhase, Runs
<1>4. ASSUME NEW what \in Handling, NEW phases, Ask(a, what, phases)
      PROVE  TablesOK' /\ runner' = runner /\ request' \in Handlers
  <2>1. [Idle EXCEPT !.at = what, !.run = runs]
          \in [at : Handling, run : 0 .. MaxRuns, folded : SUBSET Pairs]
    BY <1>1, <1>3
  <2> QED
    BY <1>1, <1>4, <2>1 DEF Ask, Handlers
<1>5. Answer(a) => request' \in Handlers
  BY <1>1, <1>3 DEF Answer, Handlers
<1>6. CASE Reject(a) \/ Restore(a)
  <2>1. "rejected" \in PairStatus /\ "proposed" \in PairStatus
    BY DEF PairStatus
  <2>2. pair' \in [Runs -> [Pairs -> PairStatus]]
    <3>1. ASSUME NEW r, NEW p, NEW s \in PairStatus, pair' = [pair EXCEPT ![r][p] = s]
          PROVE  pair' \in [Runs -> [Pairs -> PairStatus]]
      BY <1>1, <3>1
    <3>2. pair' = pair \/ \E r, p : \E s \in PairStatus : pair' = [pair EXCEPT ![r][p] = s]
      <4>1. ASSUME NEW s \in PairStatus, NEW S,
                   \E p \in S : pair' = [pair EXCEPT ![request[a].run][p] = s]
            PROVE  \E r, p : \E t \in PairStatus : pair' = [pair EXCEPT ![r][p] = t]
        BY <4>1
      <4> QED
        BY <1>6, <2>1, <4>1 DEF Reject, Restore
    <3> QED
      BY <1>1, <3>1, <3>2
  <2> QED
    BY <1>1, <1>5, <1>6, <2>2 DEF Reject, Restore
<1>7. CASE Approve(a)
  <2>1. \A r \in Runs :
          [p \in Pairs |-> IF pair[r][p] = "proposed" THEN "approved" ELSE pair[r][p]]
            \in [Pairs -> PairStatus]
    BY <1>1 DEF PairStatus
  <2>2. pair' \in [Runs -> [Pairs -> PairStatus]]
    BY <1>1, <1>7, <2>1 DEF Approve
  <2>3. request' \in Handlers
    BY <1>1, <1>2, <1>7 DEF Approve, Handlers
  <2> QED
    BY <1>1, <1>7, <2>2, <2>3 DEF Approve, Phase
<1>8. CASE Discard(a)
  <2>1. request' \in Handlers
    BY <1>1, <1>2, <1>8 DEF Discard, Handlers
  <2> QED
    BY <1>1, <1>8, <2>1 DEF Discard, Phase
<1>9. CASE ReadEffective(a)
  <2>1. Effective \in SUBSET Pairs
    BY DEF Effective, With
  <2>2. request' \in Handlers
    BY <1>1, <1>2, <1>9, <2>1 DEF ReadEffective, Handlers
  <2> QED
    BY <1>1, <1>9, <2>2 DEF ReadEffective
<1>10. CASE WriteAliases(a)
  <2>1. request[a].folded \subseteq Pairs
    BY <1>1 DEF Handlers
  <2> QED
    BY <1>1, <1>5, <1>10, <2>1 DEF WriteAliases
<1>11. CASE Refuse(a)
  BY <1>1, <1>5, <1>11 DEF Refuse
<1> QED
  BY <1>2, <1>4, <1>6, <1>7, <1>8, <1>9, <1>10, <1>11
  DEF Review, AskReject, AskRestore, AskApprove, AskDiscard

LEMMA TypeStep == TypeOK /\ [Next]_vars => TypeOK'
<1> SUFFICES ASSUME TypeOK, [Next]_vars PROVE TypeOK'
  OBVIOUS
<1>1. TablesOK /\ runner \in [Runners -> Locals] /\ request \in Handlers
  BY TypeParts
<1>2. TablesOK' /\ runner' \in [Runners -> Locals] /\ request' \in Handlers => TypeOK'
  BY DEF TypeOK, TablesOK, Locals, Handlers
<1>3. CASE RequestStop
  BY <1>1, <1>2, <1>3 DEF RequestStop, TablesOK, store, cover
<1>4. CASE Restart
  <2>1. Off \in Locals
    BY BlankType, BoundsAssumption, Places DEF Off
  <2>2. Idle \in [at : Handling, run : 0 .. MaxRuns, folded : SUBSET Pairs]
    BY BoundsAssumption DEF Idle, Handling
  <2>3. TablesOK'
    <3>1. phase' \in [Runs -> Phase]
      BY <1>1, <1>4 DEF Restart, TablesOK, Phase
    <3>2. starts' \in gen' .. MaxStarts /\ gen' \in 0 .. MaxStarts
      BY <1>1, <1>4, BoundsAssumption DEF Restart, TablesOK
    <3> QED
      BY <1>1, <1>4, <3>1, <3>2 DEF Restart, TablesOK, cover
  <2> QED
    BY <1>2, <1>4, <2>1, <2>2, <2>3 DEF Restart, Handlers
<1>5. CASE UNCHANGED vars
  BY <1>1, <1>2, <1>5 DEF vars, store, state, cover, TablesOK
<1> QED
  BY <1>1, <1>2, <1>3, <1>4, <1>5, RunnerType, TablesType, ReviewType DEF Next

-----------------------------------------------------------------------------
(* The flag and the analyses.                                              *)

\* A runner that has not opened or picked its run has none.
NotYetOpen == \A k \in Runners : runner[k].at \in {"load", "open", "pick"} => RunOf(k) = 0

LEMMA NobodyElseMoves ==
  ASSUME TypeOK, NEW k \in Runners, Analyze(k) \/ Apply(k) \/ End(k)
  PROVE  \A l \in Runners : l # k => runner'[l] = runner[l]
<1>1. runner \in [Runners -> Locals]
  BY TypeParts
<1>2. CASE Analyze(k)
  BY <1>1, <1>2
  DEF Analyze, BeginAnalyze, Begin, Load, OpenRun, Chunk, InsertPairs, Publish,
      FailAnalysis, LoseAnalysis, GoEnd, Go
<1>3. CASE Apply(k)
  BY <1>1, <1>3
  DEF Apply, BeginApply, Begin, PickRun, EnterApplying, ListPairs, ResolveUsers,
      NextPair, TagUser, NothingToTag, PairDone, PairFails, RecordPair, CountLeft, Close,
      LeaveApply, LoseApply, GoEnd, Go
<1>4. CASE End(k)
  BY <1>1, <1>4 DEF End, Go
<1> QED
  BY <1>2, <1>3, <1>4

\* What a step leaves in the locals of its runner.
LEMMA Effects ==
  ASSUME TypeOK, NEW k \in Runners
  PROVE  /\ Load(k) => /\ runner'[k].at = "open"
                       /\ runner'[k].run = RunOf(k)
                       /\ runner'[k].gen = runner[k].gen
         /\ OpenRun(k) => /\ runner'[k].at = "chunk"
                          /\ runner'[k].run = runs + 1
                          /\ runner'[k].gen = runner[k].gen
         /\ Chunk(k) => /\ runner'[k].at = "insert"
                        /\ runner'[k].run = RunOf(k)
                        /\ runner'[k].gen = runner[k].gen
         /\ InsertPairs(k) => /\ runner'[k].at = "publish"
                              /\ runner'[k].run = RunOf(k)
                              /\ runner'[k].gen = runner[k].gen
         /\ GoEnd(k) => /\ runner'[k].at = "end"
                        /\ runner'[k].run = 0
                        /\ runner'[k].gen = runner[k].gen
         /\ \A place : Go(k, place) => /\ runner'[k].at = place
                                       /\ runner'[k].run = RunOf(k)
                                       /\ runner'[k].gen = runner[k].gen
                                       /\ runner'[k].todo = runner[k].todo
         /\ End(k) => /\ runner[k].at = "end"
                      /\ runner'[k].run = RunOf(k)
                      /\ IF RunOf(k) = 0 THEN runner'[k].at = "off"
                                         ELSE runner'[k].at = "lost"
                      /\ RunOf(k) # 0 => runner'[k].gen = runner[k].gen
         /\ PickRun(k) => \/ GoEnd(k)
                          \/ /\ runs > 0
                             /\ runner'[k].at = "enter"
                             /\ runner'[k].run = runs
                             /\ runner'[k].gen = runner[k].gen
         /\ ListPairs(k) => /\ runner'[k].at = "resolve"
                            /\ runner'[k].run = RunOf(k)
                            /\ runner'[k].gen = runner[k].gen
                            /\ runner'[k].todo = With(RunOf(k), {"approved", "failed"})
<1>1. runner \in [Runners -> Locals]
  BY TypeParts
<1>2. PickRun(k) => \/ GoEnd(k)
                    \/ /\ runs > 0
                       /\ runner'[k].at = "enter"
                       /\ runner'[k].run = runs
                       /\ runner'[k].gen = runner[k].gen
  <2> SUFFICES ASSUME runs > 0, runner' = [runner EXCEPT ![k].at = "enter", ![k].run = runs]
               PROVE  runner'[k].at = "enter" /\ runner'[k].run = runs
                      /\ runner'[k].gen = runner[k].gen
    BY DEF PickRun
  <2> QED
    BY <1>1 DEF Locals
<1> QED
  BY <1>1, <1>2
  DEF Load, OpenRun, Chunk, InsertPairs, GoEnd, Go, Blank, End, Off, RunnerAt, ListPairs,
      RunOf, Locals

\* ... one that lists the users ...
LEMMA ResolveEffects ==
  ASSUME TypeOK, NEW k \in Runners, ResolveUsers(k)
  PROVE  /\ runner'[k].at = "pairs"
         /\ runner'[k].run = RunOf(k)
         /\ runner'[k].gen = runner[k].gen
         /\ runner'[k].todo = runner[k].todo
         /\ RunOf(k) \in Runs => runner'[k].users \in resolved'[RunOf(k)] \ {{}}
<1>1. runner \in [Runners -> Locals] /\ resolved \in [Runs -> SUBSET SUBSET Users]
  BY TypeParts DEF TablesOK
<1>2. PICK S \in (SUBSET Users) \ {{}} :
        /\ runner' = [runner EXCEPT ![k].at = "pairs", ![k].users = S]
        /\ resolved' = [resolved EXCEPT ![RunOf(k)] = @ \cup {S}]
  BY DEF ResolveUsers
<1>3. runner'[k] = [runner[k] EXCEPT !.at = "pairs", !.users = S]
  BY <1>1, <1>2 DEF Locals
<1>4. /\ runner'[k].at = "pairs" /\ runner'[k].run = RunOf(k)
      /\ runner'[k].gen = runner[k].gen /\ runner'[k].todo = runner[k].todo
      /\ runner'[k].users = S
  BY <1>1, <1>3 DEF Locals, RunOf
<1>5. RunOf(k) \in Runs => S \in resolved'[RunOf(k)] \ {{}}
  <2>1. S # {}
    BY <1>2
  <2>2. RunOf(k) \in Runs => S \in resolved'[RunOf(k)]
    BY <1>1, <1>2
  <2> QED
    BY <2>1, <2>2
<1> QED
  BY <1>4, <1>5

\* ... and one on a pair.
LEMMA NextPairEffects ==
  ASSUME TypeOK, NEW k \in Runners, NextPair(k)
  PROVE  \E p \in runner[k].todo :
           /\ runner'[k].at = "users"
           /\ runner'[k].run = RunOf(k)
           /\ runner'[k].gen = runner[k].gen
           /\ runner'[k].cur = p
           /\ runner'[k].left = runner[k].users
           /\ runner'[k].users = runner[k].users
           /\ runner'[k].todo = runner[k].todo \ {p}
<1>1. runner \in [Runners -> Locals]
  BY TypeParts
<1>2. PICK p \in runner[k].todo :
        runner' = [runner EXCEPT ![k].at = "users", ![k].cur = p,
                                 ![k].left = runner[k].users, ![k].todo = @ \ {p}]
  BY DEF NextPair
<1>3. runner'[k] = [runner[k] EXCEPT !.at = "users", !.cur = p,
                                     !.left = runner[k].users, !.todo = @ \ {p}]
  BY <1>1, <1>2 DEF Locals
<1> QED
  BY <1>1, <1>3 DEF Locals, RunOf

LEMMA TagUserEffects ==
  ASSUME TypeOK, NEW k \in Runners, TagUser(k)
  PROVE  \E u \in runner[k].left :
           /\ runner'[k].at = "users"
           /\ runner'[k].run = RunOf(k)
           /\ runner'[k].gen = runner[k].gen
           /\ runner'[k].cur = runner[k].cur
           /\ runner'[k].left = runner[k].left \ {u}
           /\ runner'[k].users = runner[k].users
           /\ runner'[k].todo = runner[k].todo
           /\ tagged' = [tagged EXCEPT ![runner[k].cur] = @ \cup {u}]
<1>1. runner \in [Runners -> Locals]
  BY TypeParts
<1>2. runner[k].at = "users"
  BY DEF TagUser, RunnerAt
<1>3. PICK u \in runner[k].left :
         /\ tagged' = [tagged EXCEPT ![runner[k].cur] = @ \cup {u}]
         /\ runner' = [runner EXCEPT ![k].left = @ \ {u}]
  BY DEF TagUser
<1>4. runner'[k] = [runner[k] EXCEPT !.left = @ \ {u}]
  BY <1>1, <1>3
<1>5. runner[k] \in Locals
  BY <1>1
<1>6. /\ runner'[k].at = runner[k].at /\ runner'[k].run = runner[k].run
      /\ runner'[k].gen = runner[k].gen /\ runner'[k].cur = runner[k].cur
      /\ runner'[k].left = runner[k].left \ {u}
      /\ runner'[k].users = runner[k].users /\ runner'[k].todo = runner[k].todo
  BY <1>4, <1>5 DEF Locals
<1> QED
  BY <1>2, <1>3, <1>6 DEF RunOf

LEMMA VerdictEffects ==
  ASSUME TypeOK, NEW k \in Runners, PairDone(k) \/ PairFails(k) \/ NothingToTag(k)
  PROVE  /\ runner'[k].at = "record"
         /\ runner'[k].run = RunOf(k)
         /\ runner'[k].gen = runner[k].gen
         /\ runner'[k].cur = runner[k].cur
         /\ runner'[k].users = runner[k].users
         /\ runner'[k].todo = runner[k].todo
         /\ \/ PairDone(k) /\ runner'[k].verdict = "applied"
            \/ PairFails(k) /\ runner'[k].verdict = "failed"
            \/ NothingToTag(k) /\ runner'[k].verdict = "vacant"
<1>1. runner \in [Runners -> Locals]
  BY TypeParts
<1>2. CASE PairDone(k)
  BY <1>1, <1>2 DEF PairDone, Locals, RunOf
<1>3. CASE PairFails(k)
  <2>1. runner'[k] = [runner[k] EXCEPT !.at = "record", !.verdict = "failed", !.left = {}]
    BY <1>1, <1>3 DEF PairFails, Locals
  <2> QED
    BY <1>1, <1>3, <2>1 DEF Locals, RunOf
<1>4. CASE NothingToTag(k)
  <2>1. runner'[k] = [runner[k] EXCEPT !.at = "record", !.verdict = "vacant", !.left = {}]
    BY <1>1, <1>4 DEF NothingToTag, Locals
  <2> QED
    BY <1>1, <1>4, <2>1 DEF Locals, RunOf
<1> QED
  BY <1>2, <1>3, <1>4

LEMMA RecordEffects ==
  ASSUME TypeOK, NEW k \in Runners, RecordPair(k)
  PROVE  /\ runner'[k].at = "pairs"
         /\ runner'[k].run = RunOf(k)
         /\ runner'[k].gen = runner[k].gen
         /\ runner'[k].users = runner[k].users
         /\ runner'[k].todo = runner[k].todo
<1>1. runner \in [Runners -> Locals]
  BY TypeParts
<1>2. runner'[k] = [runner[k] EXCEPT !.at = "pairs", !.cur = NoPair, !.verdict = "none"]
  BY <1>1 DEF RecordPair, Locals
<1> QED
  BY <1>1, <1>2 DEF Locals, RunOf

LEMMA NotYetOpenStep ==
  ASSUME TypeOK, NotYetOpen, NEW k \in Runners, Analyze(k) \/ Apply(k) \/ End(k)
  PROVE  NotYetOpen'
<1>1. runner \in [Runners -> Locals]
  BY TypeParts
<1>2. SUFFICES runner'[k].at \in {"load", "open", "pick"} => runner'[k].run = 0
  BY NobodyElseMoves DEF NotYetOpen, RunOf
<1>3. CASE BeginAnalyze(k) \/ BeginApply(k)
  BY <1>1, <1>3 DEF BeginAnalyze, BeginApply, Begin, Blank
<1>4. CASE Load(k)
  <2>1. RunOf(k) = 0
    BY <1>4 DEF NotYetOpen, Load, RunnerAt
  <2> QED
    BY <1>4, <2>1, Effects
<1>5. CASE OpenRun(k) \/ Chunk(k) \/ InsertPairs(k)
  BY <1>5, Effects
<1>6. CASE Publish(k) \/ FailAnalysis(k) \/ Close(k) \/ LeaveApply(k)
  BY <1>6, Effects DEF Publish, FailAnalysis, Close, LeaveApply
<1>7. CASE PickRun(k) \/ ListPairs(k)
  BY <1>7, Effects
<1>8. CASE EnterApplying(k) \/ CountLeft(k) \/ LoseAnalysis(k) \/ LoseApply(k)
  <2>1. \/ GoEnd(k) \/ Go(k, "list") \/ Go(k, "close")
        \/ Go(k, "lost") \/ Go(k, "end")
    BY <1>8 DEF EnterApplying, CountLeft, LoseAnalysis, LoseApply
  <2> QED
    BY <2>1, Effects
<1>9. CASE ResolveUsers(k) \/ NextPair(k) \/ TagUser(k)
  BY <1>9, ResolveEffects, NextPairEffects, TagUserEffects
<1>10. CASE PairDone(k) \/ PairFails(k) \/ NothingToTag(k) \/ RecordPair(k)
  BY <1>10, VerdictEffects, RecordEffects
<1>11. CASE End(k)
  BY <1>11, Effects
<1> QED
  BY <1>3, <1>4, <1>5, <1>6, <1>7, <1>8, <1>9, <1>10, <1>11 DEF Analyze, Apply

\* Between its beginning and its end a runner keeps its token and leaves the flag
\* and the generation alone; it gets lost only before its run is picked.
LEMMA TokenKept ==
  ASSUME TypeOK, NEW k \in Runners, Analyze(k) \/ Apply(k),
         ~ BeginAnalyze(k), ~ BeginApply(k)
  PROVE  /\ runner'[k].gen = runner[k].gen /\ running' = running /\ gen' = gen
         /\ runner[k].at \notin {"off", "lost"} /\ runner'[k].at # "off"
         /\ runner'[k].at = "lost" => LoseApply(k)
<1>1. CASE Load(k) \/ OpenRun(k) \/ Chunk(k) \/ InsertPairs(k)
  BY <1>1, Effects DEF Load, OpenRun, Chunk, InsertPairs, RunnerAt, state
<1>2. CASE Publish(k) \/ FailAnalysis(k) \/ Close(k) \/ LeaveApply(k)
  BY <1>2, Effects
  DEF Publish, FailAnalysis, Close, LeaveApply, RunnerAt, Analyzing, Applying, state
<1>3. CASE PickRun(k) \/ ListPairs(k)
  BY <1>3, Effects DEF PickRun, ListPairs, RunnerAt, state
<1>4. CASE EnterApplying(k) \/ CountLeft(k) \/ LoseAnalysis(k) \/ LoseApply(k)
  <2>1. \/ GoEnd(k) \/ Go(k, "list") \/ Go(k, "close")
        \/ Go(k, "lost") \/ Go(k, "end")
    BY <1>4 DEF EnterApplying, CountLeft, LoseAnalysis, LoseApply
  <2> QED
    BY <1>4, <2>1, Effects
    DEF EnterApplying, CountLeft, LoseAnalysis, LoseApply, RunnerAt, Analyzing, state
<1>5. CASE ResolveUsers(k) \/ NextPair(k) \/ TagUser(k)
  BY <1>5, ResolveEffects, NextPairEffects, TagUserEffects
  DEF ResolveUsers, NextPair, TagUser, RunnerAt, state
<1>6. CASE PairDone(k) \/ PairFails(k) \/ NothingToTag(k) \/ RecordPair(k)
  BY <1>6, VerdictEffects, RecordEffects
  DEF PairDone, PairFails, NothingToTag, RecordPair, RunnerAt, state
<1> QED
  BY <1>1, <1>2, <1>3, <1>4, <1>5, <1>6 DEF Analyze, Apply

\* The two halves of NothingHangs.
FlagHeld ==
  running => \E k \in Runners : \/ runner[k].at \notin {"off", "lost"} /\ Active(k)
                               \/ DeadWithFlag(k)

AnalysisHeld ==
  \A r \in Runs : phase[r] = "analyzing" =>
    \E k \in Runners : runner[k].at \in Analyzing \cup {"end", "lost"} /\ RunOf(k) = r

LEMMA FlagStep ==
  ASSUME TypeOK, NotYetOpen, FlagHeld, NEW k \in Runners, Analyze(k) \/ Apply(k) \/ End(k)
  PROVE  FlagHeld'
<1>1. runner \in [Runners -> Locals]
  BY TypeParts
<1>2. CASE BeginAnalyze(k) \/ BeginApply(k)
  BY <1>1, <1>2 DEF BeginAnalyze, BeginApply, Begin, Blank, FlagHeld, Active
<1>3. CASE End(k)
  <2>1. SUFFICES ASSUME running, gen # runner[k].gen PROVE FlagHeld'
    BY <1>3 DEF End, FlagHeld
  <2>2. PICK l \in Runners : \/ runner[l].at \notin {"off", "lost"} /\ Active(l)
                             \/ DeadWithFlag(l)
    BY <2>1 DEF FlagHeld
  <2>3. l # k /\ runner'[l] = runner[l]
    BY <1>3, <2>1, <2>2, NobodyElseMoves DEF Active, DeadWithFlag
  <2> QED
    BY <1>3, <2>1, <2>2, <2>3
    DEF End, FlagHeld, DeadWithFlag, RunnerAt, RunOf, Active
<1>4. CASE (Analyze(k) \/ Apply(k)) /\ ~ BeginAnalyze(k) /\ ~ BeginApply(k)
  <2>1. SUFFICES ASSUME running PROVE FlagHeld'
    BY <1>4, TokenKept DEF FlagHeld
  <2>2. PICK l \in Runners : \/ runner[l].at \notin {"off", "lost"} /\ Active(l)
                             \/ DeadWithFlag(l)
    BY <2>1 DEF FlagHeld
  <2>3. Active(l)'
    BY <1>4, <2>2, TokenKept, NobodyElseMoves DEF Active, DeadWithFlag
  <2>4. CASE l # k
    <3>1. runner'[l] = runner[l]
      BY <1>4, <2>4, NobodyElseMoves
    <3> QED
      BY <2>2, <2>3, <3>1 DEF FlagHeld, DeadWithFlag, RunnerAt, RunOf
  <2>5. CASE l = k /\ LoseApply(k)
    <3>1. RunOf(k) = 0
      BY <2>5 DEF NotYetOpen, LoseApply, RunnerAt
    <3>2. runner'[k].at = "lost" /\ runner'[k].run = 0
      BY <2>5, <3>1, Effects DEF LoseApply
    <3> QED
      BY <2>3, <2>5, <3>2 DEF FlagHeld, DeadWithFlag, RunnerAt, RunOf
  <2>6. CASE l = k /\ ~ LoseApply(k)
    <3>1. runner'[k].at \notin {"off", "lost"}
      BY <1>4, <2>6, TokenKept
    <3> QED
      BY <2>3, <2>6, <3>1 DEF FlagHeld
  <2> QED
    BY <2>4, <2>5, <2>6
<1> QED
  BY <1>2, <1>3, <1>4

LEMMA AnalysisStep ==
  ASSUME TypeOK, NotYetOpen, AnalysisHeld, NEW k \in Runners,
         Analyze(k) \/ Apply(k) \/ End(k)
  PROVE  AnalysisHeld'
<1> DEFINE Holding == Analyzing \cup {"end", "lost"}
<1> SUFFICES ASSUME NEW r \in Runs, phase'[r] = "analyzing"
             PROVE  \E l \in Runners : runner'[l].at \in Holding /\ runner'[l].run = r
  BY DEF AnalysisHeld, RunOf
<1>1. phase \in [Runs -> Phase] /\ 0 \notin Runs
  BY TypeParts, BoundsAssumption DEF TablesOK, Runs
<1>2. phase[r] = "analyzing" =>
        \E l \in Runners : runner[l].at \in Holding /\ RunOf(l) = r
  BY DEF AnalysisHeld
\* Somebody else holds it, and does not move.
<1>3. ASSUME phase[r] = "analyzing", ~ (runner[k].at \in Holding /\ RunOf(k) = r)
      PROVE  \E l \in Runners : runner'[l].at \in Holding /\ runner'[l].run = r
  BY <1>2, <1>3, NobodyElseMoves DEF RunOf
<1>4. CASE BeginAnalyze(k) \/ BeginApply(k)
  BY <1>3, <1>4 DEF BeginAnalyze, BeginApply, Begin, store, RunnerAt, Analyzing
<1>5. CASE Load(k) \/ Chunk(k) \/ InsertPairs(k) \/ LoseAnalysis(k) \/ End(k)
  <2>1. phase[r] = "analyzing"
    BY <1>5 DEF Load, Chunk, InsertPairs, LoseAnalysis, End, store
  <2>2. RunOf(k) # 0 => runner'[k].at \in Holding /\ runner'[k].run = RunOf(k)
    BY <1>5, Effects DEF Analyzing, LoseAnalysis
  <2> QED
    BY <1>1, <1>3, <2>1, <2>2
<1>6. CASE OpenRun(k)
  <2>1. runner'[k].at \in Holding /\ runner'[k].run = runs + 1
    BY <1>6, Effects DEF Analyzing
  <2>2. RunOf(k) = 0
    BY <1>6 DEF NotYetOpen, OpenRun, RunnerAt
  <2>3. r # runs + 1 => phase[r] = "analyzing"
    BY <1>1, <1>6 DEF OpenRun, SetPhase
  <2> QED
    BY <1>1, <1>3, <2>1, <2>2, <2>3
<1>7. CASE Publish(k) \/ FailAnalysis(k)
  <2>1. r # RunOf(k) /\ phase[r] = "analyzing"
    BY <1>1, <1>7 DEF Publish, FailAnalysis, SetPhase
  <2> QED
    BY <1>3, <2>1
<1>8. CASE Apply(k) /\ ~ BeginApply(k)
  <2>1. runner[k].at \notin Holding
    BY <1>8
    DEF Apply, PickRun, LoseApply, EnterApplying, ListPairs, ResolveUsers, NextPair,
        TagUser, NothingToTag, PairDone, PairFails, RecordPair, CountLeft, Close, LeaveApply, RunnerAt, Analyzing, Applying
  <2>2. phase[r] = "analyzing"
    BY <1>1, <1>8
    DEF Apply, PickRun, LoseApply, EnterApplying, ListPairs, ResolveUsers, NextPair,
        TagUser, NothingToTag, PairDone, PairFails, RecordPair, CountLeft, Close, LeaveApply, SetPhase, store
  <2> QED
    BY <1>3, <2>1, <2>2
<1> QED
  BY <1>4, <1>5, <1>6, <1>7, <1>8 DEF Analyze

\* Requests leave the runners, the flag and the generation alone, and bring no
\* run into analyzing.
LEMMA ReviewLeaves ==
  ASSUME TypeOK, NEW a \in Requests, Review(a)
  PROVE  /\ runner' = runner /\ running' = running /\ gen' = gen
         /\ tagged' = tagged /\ resolved' = resolved /\ vacant' = vacant
         /\ \A r \in Runs : phase'[r] = "analyzing" => phase[r] = "analyzing"
<1>1. phase \in [Runs -> Phase]
  BY TypeParts DEF TablesOK
<1>2. CASE Approve(a) \/ Discard(a)
  BY <1>1, <1>2 DEF Approve, Discard, SetPhase, state, cover
<1>3. CASE \/ AskReject(a) \/ AskRestore(a) \/ AskApprove(a) \/ AskDiscard(a)
           \/ Reject(a) \/ Restore(a) \/ ReadEffective(a) \/ WriteAliases(a) \/ Refuse(a)
  BY <1>3
  DEF AskReject, AskRestore, AskApprove, AskDiscard, Ask, Reject, Restore, ReadEffective,
      WriteAliases, Refuse, store, state, cover
<1> QED
  BY <1>2, <1>3 DEF Review

HangInv == TypeOK /\ NotYetOpen /\ FlagHeld /\ AnalysisHeld

LEMMA HangStep == HangInv /\ [Next]_vars => HangInv'
<1> SUFFICES ASSUME HangInv, [Next]_vars PROVE HangInv'
  OBVIOUS
<1>1. TypeOK /\ TypeOK' /\ NotYetOpen /\ FlagHeld /\ AnalysisHeld
  BY TypeStep DEF HangInv
<1>2. ASSUME NEW k \in Runners, Analyze(k) \/ Apply(k) \/ End(k) PROVE HangInv'
  BY <1>1, <1>2, NotYetOpenStep, FlagStep, AnalysisStep DEF HangInv
<1>3. ASSUME NEW a \in Requests, Review(a) PROVE HangInv'
  BY <1>1, <1>3, ReviewLeaves
  DEF HangInv, NotYetOpen, FlagHeld, AnalysisHeld, DeadWithFlag, RunOf, RunnerAt, Active
<1>4. CASE RequestStop
  BY <1>1, <1>4
  DEF RequestStop, store, HangInv, NotYetOpen, FlagHeld, AnalysisHeld, RunOf
<1>5. CASE Restart
  BY <1>1, <1>5 DEF Restart, Off, Blank, HangInv, NotYetOpen, FlagHeld, AnalysisHeld, RunOf
<1>6. CASE UNCHANGED vars
  BY <1>1, <1>6
  DEF vars, store, state, HangInv, NotYetOpen, FlagHeld, AnalysisHeld, DeadWithFlag,
      RunOf, RunnerAt, Active
<1> QED
  BY <1>2, <1>3, <1>4, <1>5, <1>6 DEF Next

-----------------------------------------------------------------------------
(* What steps leave alone.                                                 *)

LEMMA TablesKept ==
  ASSUME TypeOK, NEW k \in Runners, Analyze(k) \/ Apply(k) \/ End(k)
  PROVE  /\ aliases' = aliases /\ request' = request
         /\ InsertPairs(k) \/ RecordPair(k) \/ pair' = pair
         /\ RecordPair(k) \/ vacant' = vacant
         /\ ResolveUsers(k) \/ resolved' = resolved
         /\ TagUser(k) \/ tagged' = tagged
         /\ OpenRun(k) \/ runs' = runs
BY DEF Analyze, BeginAnalyze, Begin, Load, OpenRun, Chunk, InsertPairs, Publish,
       FailAnalysis, LoseAnalysis, Apply, BeginApply, PickRun, LoseApply, EnterApplying,
       ListPairs, ResolveUsers, NextPair, TagUser, NothingToTag, PairDone, PairFails,
       RecordPair, CountLeft, Close, LeaveApply, End, store, cover

LEMMA TaggedGrows ==
  ASSUME TypeOK, NEW k \in Runners, Analyze(k) \/ Apply(k) \/ End(k)
  PROVE  /\ \A p \in Pairs : tagged[p] \subseteq tagged'[p]
         /\ \A r \in Runs : resolved[r] \subseteq resolved'[r]
<1>1. tagged \in [Pairs -> SUBSET Users] /\ resolved \in [Runs -> SUBSET SUBSET Users]
  BY TypeParts DEF TablesOK
<1>3. CASE ResolveUsers(k)
  <2>1. PICK S \in SUBSET Users : resolved' = [resolved EXCEPT ![RunOf(k)] = @ \cup {S}]
    BY <1>3 DEF ResolveUsers
  <2> QED
    BY <1>1, <1>3, <2>1 DEF ResolveUsers
<1>2. CASE TagUser(k)
  BY <1>1, <1>2, TagUserEffects DEF TagUser
<1> QED
  BY <1>2, <1>3, TablesKept

\* A pair is written by InsertPairs, where there was nothing, and by RecordPair.
LEMMA PairWrites ==
  ASSUME TypeOK, NEW k \in Runners, Analyze(k) \/ Apply(k) \/ End(k),
         AnalysisAlone(k), PairInHand(k),
         NEW r \in Runs, NEW p \in Pairs, pair'[r][p] # pair[r][p]
  PROVE  /\ r = RunOf(k)
         /\ \/ InsertPairs(k) /\ pair[r][p] = "none" /\ pair'[r][p] = "proposed"
            \/ /\ RecordPair(k) /\ p = runner[k].cur /\ pair[r][p] \in Settled
               /\ pair'[r][p] = Status(runner[k].verdict)
               /\ runner[k].verdict \in {"applied", "vacant", "failed"}
<1>1. pair \in [Runs -> [Pairs -> PairStatus]] /\ runner \in [Runners -> Locals]
  BY TypeParts DEF TablesOK
<1>2. CASE InsertPairs(k)
  <2>1. r = RunOf(k)
    BY <1>1, <1>2 DEF InsertPairs
  <2>2. pair[r][p] = "none"
    BY <1>2, <2>1 DEF AnalysisAlone, InsertPairs, RunnerAt
  <2>3. pair'[r][p] = IF p \in runner[k].todo THEN "proposed" ELSE pair[r][p]
    BY <1>1, <1>2, <2>1 DEF InsertPairs
  <2> QED
    BY <1>2, <2>1, <2>2, <2>3
<1>3. CASE RecordPair(k)
  <2>1. pair' = [pair EXCEPT ![RunOf(k)][runner[k].cur] = Status(runner[k].verdict)]
    BY <1>3 DEF RecordPair
  <2>2. r = RunOf(k) /\ p = runner[k].cur /\ pair'[r][p] = Status(runner[k].verdict)
    BY <1>1, <2>1
  <2>3. RunnerAt(k, "record")
    BY <1>3 DEF RecordPair
  <2>4. runner[k].cur \in With(RunOf(k), Settled) /\ runner[k].verdict # "none"
    BY <2>3 DEF PairInHand, RunnerAt
  <2>5. runner[k].verdict \in {"applied", "vacant", "failed"}
    BY <1>1, <2>4 DEF Locals
  <2> QED
    BY <1>3, <2>2, <2>4, <2>5 DEF With
<1> QED
  BY <1>2, <1>3, TablesKept

\* A request writes pairs that are proposed or vetoed.
LEMMA ReviewWrites ==
  ASSUME TypeOK, NEW a \in Requests, Review(a),
         NEW r \in Runs, NEW p \in Pairs, pair'[r][p] # pair[r][p]
  PROVE  /\ pair[r][p] \in {"proposed", "rejected"}
         /\ pair'[r][p] \in {"proposed", "rejected", "approved"}
<1>1. pair \in [Runs -> [Pairs -> PairStatus]]
  BY TypeParts DEF TablesOK
<1>2. CASE Reject(a)
  <2>1. PICK q \in With(request[a].run, {"proposed"}) :
          pair' = [pair EXCEPT ![request[a].run][q] = "rejected"]
    BY <1>2 DEF Reject
  <2>2. r = request[a].run /\ p = q /\ pair'[r][p] = "rejected"
    BY <1>1, <2>1
  <2> QED
    BY <2>1, <2>2 DEF With
<1>3. CASE Restore(a)
  <2>1. PICK q \in With(request[a].run, {"rejected"}) :
          pair' = [pair EXCEPT ![request[a].run][q] = "proposed"]
    BY <1>3 DEF Restore
  <2>2. r = request[a].run /\ p = q /\ pair'[r][p] = "proposed"
    BY <1>1, <2>1
  <2> QED
    BY <2>1, <2>2 DEF With
<1>4. CASE Approve(a)
  <2>1. r = request[a].run
    BY <1>1, <1>4 DEF Approve
  <2>2. pair'[r][p] = IF pair[r][p] = "proposed" THEN "approved" ELSE pair[r][p]
    BY <1>1, <1>4, <2>1 DEF Approve
  <2> QED
    BY <2>2
<1> QED
  BY <1>2, <1>3, <1>4
  DEF Review, AskReject, AskRestore, AskApprove, AskDiscard, Ask, Discard, ReadEffective,
      WriteAliases, Refuse, store

-----------------------------------------------------------------------------
(* The inductive invariant.                                                *)

\* Once a pair is approved it stays so: a veto comes too late.
SettledStays ==
  \A r \in Runs, p \in Pairs : pair[r][p] \in Settled => pair'[r][p] \in Settled

LEMMA RunnerSettles ==
  ASSUME IndInv, NEW k \in Runners, Analyze(k) \/ Apply(k) \/ End(k)
  PROVE  SettledStays
BY PairWrites DEF IndInv, SettledStays, Settled, Status

LEMMA ReviewSettles ==
  ASSUME IndInv, NEW a \in Requests, Review(a)
  PROVE  SettledStays
BY ReviewWrites DEF IndInv, SettledStays, Settled

\* How a runner comes to have a run to analyze.
LEMMA IntoAnalysis ==
  ASSUME IndInv, NEW k \in Runners, Analyze(k) \/ Apply(k) \/ End(k),
         runner'[k].at \in Analyzing
  PROVE  \/ runner'[k].at \in {"load", "open"} /\ runner'[k].run = 0
         \/ OpenRun(k) /\ runner'[k].at = "chunk" /\ runner'[k].run = runs + 1
         \/ Chunk(k) /\ runner[k].at = "chunk" /\ runner'[k].at = "insert"
              /\ runner'[k].run = RunOf(k)
         \/ InsertPairs(k) /\ runner[k].at = "insert" /\ runner'[k].at = "publish"
              /\ runner'[k].run = RunOf(k)
<1>1. TypeOK /\ NotYetOpen /\ runner \in [Runners -> Locals]
  BY TypeParts DEF IndInv, NotYetOpen, AnalysisAlone
<1>2. NotYetOpen'
  BY <1>1, NotYetOpenStep
<1>3. CASE BeginAnalyze(k) \/ BeginApply(k)
  BY <1>1, <1>3 DEF BeginAnalyze, BeginApply, Begin, Blank, Analyzing
<1>4. CASE Load(k) \/ OpenRun(k) \/ Chunk(k) \/ InsertPairs(k)
  BY <1>1, <1>2, <1>4, Effects
  DEF NotYetOpen, RunOf, Load, OpenRun, Chunk, InsertPairs, RunnerAt
<1>5. CASE Publish(k) \/ FailAnalysis(k) \/ Close(k) \/ LeaveApply(k)
  BY <1>1, <1>5, Effects DEF Publish, FailAnalysis, Close, LeaveApply, Analyzing
<1>6. CASE PickRun(k) \/ ListPairs(k)
  BY <1>1, <1>6, Effects DEF Analyzing
<1>7. CASE EnterApplying(k) \/ CountLeft(k) \/ LoseAnalysis(k) \/ LoseApply(k)
  <2>1. \/ GoEnd(k) \/ Go(k, "list") \/ Go(k, "close")
        \/ Go(k, "lost") \/ Go(k, "end")
    BY <1>7 DEF EnterApplying, CountLeft, LoseAnalysis, LoseApply
  <2> QED
    BY <1>1, <2>1, Effects DEF Analyzing
<1>8. CASE ResolveUsers(k) \/ NextPair(k) \/ TagUser(k)
  BY <1>1, <1>8, ResolveEffects, NextPairEffects, TagUserEffects DEF Analyzing
<1>9. CASE PairDone(k) \/ PairFails(k) \/ NothingToTag(k) \/ RecordPair(k)
  BY <1>1, <1>9, VerdictEffects, RecordEffects DEF Analyzing
<1>10. CASE End(k)
  BY <1>1, <1>10, Effects DEF Analyzing
<1> QED
  BY <1>3, <1>4, <1>5, <1>6, <1>7, <1>8, <1>9, <1>10 DEF Analyze, Apply

LEMMA AloneStep ==
  ASSUME IndInv, NEW k \in Runners, Analyze(k) \/ Apply(k) \/ End(k),
         NEW l \in Runners
  PROVE  AnalysisAlone(l)'
<1>1. /\ TypeOK /\ OnlyOpened /\ NotYetOpen
      /\ runner \in [Runners -> Locals]
      /\ \A m \in Runners : AnalysisAlone(m) /\ PairInHand(m)
  BY TypeParts DEF IndInv, NotYetOpen, AnalysisAlone
<1>2. runs \in 0 .. MaxRuns /\ \A m \in Runners : RunOf(m) \in 0 .. runs
  BY <1>1, TypeParts DEF TablesOK, OnlyOpened, Locals, RunOf
<1>3. \A m \in Runners : m # k => runner'[m] = runner[m]
  BY <1>1, NobodyElseMoves
<1>4. runner'[l].at \in {"load", "open", "pick"} => runner'[l].run = 0
  BY <1>1, NotYetOpenStep DEF NotYetOpen, RunOf
<1>5. runner'[l].at \in {"chunk", "insert", "publish"} => runner'[l].run # 0
  BY <1>1, <1>2, <1>3, IntoAnalysis DEF AnalysisAlone, RunOf, Analyzing
<1>6. ASSUME runner'[l].at \in {"chunk", "insert"}, NEW p \in Pairs
      PROVE  pair'[runner'[l].run][p] = "none"
  <2>1. CASE l # k
    <3>1. /\ runner'[l].run = RunOf(l) /\ RunOf(l) \in Runs
          /\ runner[l].at \in {"chunk", "insert"} /\ pair[RunOf(l)][p] = "none"
      BY <1>1, <1>2, <1>3, <1>6, <2>1, BoundsAssumption DEF AnalysisAlone, RunOf, Runs
    <3>2. RunOf(l) = RunOf(k) => ~ InsertPairs(k)
      BY <1>1, <2>1, <3>1 DEF AnalysisAlone, InsertPairs, RunnerAt, Analyzing
    <3> QED
      BY <1>1, <3>1, <3>2, PairWrites DEF Settled, Status
  <2>2. CASE l = k /\ OpenRun(k)
    <3>1. runner'[l].run = runs + 1
      BY <1>1, <2>2, Effects
    <3>2. runs < MaxRuns /\ pair' = pair
      BY <2>2 DEF OpenRun
    <3>3. runs + 1 \in Runs
      BY <1>2, <3>2, BoundsAssumption DEF Runs
    <3> QED
      BY <1>1, <1>2, <3>1, <3>2, <3>3 DEF OnlyOpened
  <2>3. CASE l = k /\ Chunk(k)
    <3>1. runner'[l].run = RunOf(l) /\ runner[l].at = "chunk" /\ pair' = pair
      BY <1>1, <2>3, Effects DEF Chunk, store, RunnerAt
    <3> QED
      BY <1>1, <3>1 DEF AnalysisAlone
  <2> QED
    BY <1>6, <2>1, <2>2, <2>3, IntoAnalysis DEF Analyzing
<1>7. ASSUME NEW m \in Runners, l # m,
             runner'[l].at \in Analyzing, runner'[l].run # 0, runner'[m].at \in Analyzing
      PROVE  runner'[m].run # runner'[l].run
  <2>1. CASE l # k /\ m # k
    BY <1>1, <1>3, <1>7, <2>1 DEF AnalysisAlone, RunOf
  <2>2. CASE l = k
    <3>1. \/ runner'[k].run = runs + 1
          \/ runner'[k].run = RunOf(k) /\ runner[k].at \in Analyzing
      BY <1>7, <2>2, IntoAnalysis DEF Analyzing
    <3> QED
      BY <1>1, <1>2, <1>3, <1>7, <2>2, <3>1 DEF AnalysisAlone, RunOf
  <2>3. CASE m = k
    <3>1. \/ runner'[k].run = 0 \/ runner'[k].run = runs + 1
          \/ runner'[k].run = RunOf(k) /\ runner[k].at \in Analyzing
      BY <1>7, <2>3, IntoAnalysis DEF Analyzing
    <3> QED
      BY <1>1, <1>2, <1>3, <1>7, <2>3, <3>1 DEF AnalysisAlone, RunOf
  <2> QED
    BY <2>1, <2>2, <2>3
<1> QED
  BY <1>4, <1>5, <1>6, <1>7 DEF AnalysisAlone, RunOf

LEMMA OpenedStep ==
  ASSUME IndInv, NEW k \in Runners, Analyze(k) \/ Apply(k) \/ End(k)
  PROVE  OnlyOpened'
<1>1. /\ TypeOK /\ OnlyOpened /\ TypeOK' /\ AnalysisAlone(k) /\ PairInHand(k)
      /\ runner \in [Runners -> Locals]
  BY TypeParts, TypeStep DEF IndInv, Next
<1>2. runs \in 0 .. MaxRuns /\ \A m \in Runners : RunOf(m) \in 0 .. runs
  BY <1>1, TypeParts DEF TablesOK, OnlyOpened, Locals, RunOf
<1>3. runs' \in 0 .. MaxRuns /\ runs <= runs'
  <2>1. OpenRun(k) => runs' = runs + 1
    BY DEF OpenRun
  <2> QED
    BY <1>1, <1>2, <2>1, TypeParts, TablesKept DEF TypeOK
<1>4. ASSUME NEW r \in Runs, r > runs', NEW p \in Pairs PROVE pair'[r][p] = "none"
  <2>1. r > runs /\ pair[r][p] = "none"
    BY <1>1, <1>2, <1>3, <1>4 DEF OnlyOpened, Runs
  <2>2. r # RunOf(k)
    BY <1>2, <2>1 DEF Runs
  <2> QED
    BY <1>1, <2>1, <2>2, PairWrites
<1>5. runner'[k].run <= runs'
  <2>1. CASE runner'[k].at \in Analyzing
    <3>1. OpenRun(k) => runs' = runs + 1
      BY DEF OpenRun
    <3> QED
      BY <1>2, <1>3, <2>1, <3>1, IntoAnalysis
  <2>2. CASE BeginApply(k) \/ End(k) \/ LoseAnalysis(k)
    BY <1>1, <1>2, <1>3, <2>2, Effects DEF BeginApply, Begin, Blank, LoseAnalysis
  <2>3. CASE Apply(k) /\ ~ BeginApply(k)
    <3>1. runner'[k].run \in {0, runs, RunOf(k)}
      <4>1. CASE \/ PickRun(k) \/ ListPairs(k) \/ ResolveUsers(k) \/ NextPair(k)
                 \/ TagUser(k)
        BY <1>1, <4>1, Effects, ResolveEffects, NextPairEffects, TagUserEffects
      <4>2. CASE PairDone(k) \/ PairFails(k) \/ NothingToTag(k) \/ RecordPair(k)
        BY <1>1, <4>2, VerdictEffects, RecordEffects
      <4>3. CASE \/ EnterApplying(k) \/ CountLeft(k) \/ Close(k) \/ LeaveApply(k)
                 \/ LoseApply(k)
        <5>1. GoEnd(k) \/ Go(k, "list") \/ Go(k, "close") \/ Go(k, "lost")
          BY <4>3 DEF EnterApplying, CountLeft, Close, LeaveApply, LoseApply
        <5> QED
          BY <1>1, <5>1, Effects
      <4> QED
        BY <2>3, <4>1, <4>2, <4>3 DEF Apply
    <3> QED
      BY <1>2, <1>3, <3>1
  <2>4. CASE Publish(k) \/ FailAnalysis(k)
    BY <1>1, <1>2, <1>3, <2>4, Effects DEF Publish, FailAnalysis
  <2>5. CASE BeginAnalyze(k) \/ Load(k) \/ OpenRun(k) \/ Chunk(k) \/ InsertPairs(k)
    <3>1. runner'[k].at \in Analyzing
      BY <1>1, <2>5, Effects DEF BeginAnalyze, Begin, Blank, Analyzing
    <3> QED
      BY <2>1, <3>1
  <2> QED
    BY <2>2, <2>3, <2>4, <2>5 DEF Analyze
<1> QED
  BY <1>1, <1>2, <1>3, <1>4, <1>5, NobodyElseMoves DEF OnlyOpened, RunOf

\* Who has a pair in hand keeps it while the others move.
LEMMA HandKept ==
  ASSUME IndInv, TypeOK', SettledStays, NEW l \in Runners, runner'[l] = runner[l],
         \A p \in Pairs : tagged[p] \subseteq tagged'[p],
         \A r \in Runs : resolved[r] \subseteq resolved'[r]
  PROVE  PairInHand(l)'
<1>1. PairInHand(l) /\ RunOf(l) \in 0 .. MaxRuns
  BY TypeParts DEF IndInv, Locals, RunOf
<1>2. tagged' \in [Pairs -> SUBSET Users]
  BY DEF TypeOK
<1>3. RunOf(l) # 0 => /\ With(RunOf(l), Settled) \subseteq With(RunOf(l), Settled)'
                      /\ resolved[RunOf(l)] \subseteq resolved'[RunOf(l)]
  BY <1>1 DEF SettledStays, With, Runs, RunOf
<1>4. ASSUME runner[l].at \in {"resolve", "pairs"}
      PROVE  runner[l].todo \subseteq With(RunOf(l), Settled)'
  BY <1>1, <1>3, <1>4 DEF PairInHand, Applying
<1>5. ASSUME runner[l].at \in {"users", "record"}
      PROVE  /\ {runner[l].cur} \cup runner[l].todo \subseteq With(RunOf(l), Settled)'
             /\ runner[l].cur \in Pairs
  BY <1>1, <1>3, <1>5 DEF PairInHand, Applying, With
<1>9. ASSUME runner[l].at \in {"pairs", "users", "record"}
      PROVE  runner[l].users \in resolved'[RunOf(l)] \ {{}}
  BY <1>1, <1>3, <1>9 DEF PairInHand, Applying
<1>6. RunnerAt(l, "users") =>
        runner[l].users \ runner[l].left \subseteq tagged'[runner[l].cur]
  BY <1>1, <1>5 DEF PairInHand, RunnerAt
<1>7. RunnerAt(l, "record") /\ runner[l].verdict = "applied" =>
        runner[l].users \subseteq tagged'[runner[l].cur]
  BY <1>1, <1>5 DEF PairInHand, RunnerAt
<1>8. /\ runner[l].at \in Applying \ {"pick"} => RunOf(l) # 0
      /\ RunnerAt(l, "record") => runner[l].verdict # "none"
  BY <1>1 DEF PairInHand
<1> QED
  BY <1>4, <1>5, <1>6, <1>7, <1>8, <1>9 DEF PairInHand, RunOf, RunnerAt

\* A runner that finds no pair in hand, or ends, has none to lose.
LEMMA HandEmpty ==
  ASSUME NEW l \in Runners,
         \/ runner'[l].at \in {"off", "end", "lost", "pick"} \cup Analyzing
         \/ runner'[l].at \in {"enter", "list", "close"} /\ runner'[l].run # 0
  PROVE  PairInHand(l)'
BY DEF PairInHand, RunOf, RunnerAt, Analyzing, Applying

LEMMA HandMoves ==
  ASSUME IndInv, TypeOK', NEW k \in Runners, Analyze(k) \/ Apply(k) \/ End(k)
  PROVE  PairInHand(k)'
<1>1. /\ TypeOK /\ PairInHand(k) /\ SettledStays
      /\ runner \in [Runners -> Locals] /\ runner' \in [Runners -> Locals]
      /\ tagged \in [Pairs -> SUBSET Users] /\ tagged' \in [Pairs -> SUBSET Users]
      /\ \A r \in Runs : resolved[r] \subseteq resolved'[r]
  BY TypeParts, RunnerSettles, RunnerType, TaggedGrows DEF IndInv, TypeOK
<1>2. runs \in 0 .. MaxRuns /\ RunOf(k) \in 0 .. MaxRuns
  BY <1>1, TypeParts DEF TablesOK, Locals, RunOf
<1>3. CASE Analyze(k) \/ BeginApply(k) \/ End(k) \/ Close(k) \/ LeaveApply(k) \/ LoseApply(k)
  <2>1. CASE BeginAnalyze(k) \/ BeginApply(k)
    BY <1>1, <2>1, HandEmpty DEF BeginAnalyze, BeginApply, Begin, Blank, Analyzing
  <2>2. CASE Load(k) \/ OpenRun(k) \/ Chunk(k) \/ InsertPairs(k)
    BY <1>1, <2>2, Effects, HandEmpty DEF Analyzing
  <2>3. CASE Publish(k) \/ FailAnalysis(k) \/ Close(k) \/ LeaveApply(k)
    BY <1>1, <2>3, Effects, HandEmpty DEF Publish, FailAnalysis, Close, LeaveApply
  <2>4. CASE End(k) \/ LoseAnalysis(k) \/ LoseApply(k)
    BY <1>1, <2>4, Effects, HandEmpty DEF LoseAnalysis, LoseApply
  <2> QED
    BY <1>3, <2>1, <2>2, <2>3, <2>4 DEF Analyze
<1>4. CASE PickRun(k)
  BY <1>1, <1>2, <1>4, Effects, HandEmpty
<1>5. CASE EnterApplying(k) \/ CountLeft(k)
  <2>1. RunOf(k) # 0
    BY <1>1, <1>5 DEF PairInHand, EnterApplying, CountLeft, RunnerAt, Applying
  <2>2. GoEnd(k) \/ Go(k, "list") \/ Go(k, "close")
    BY <1>5 DEF EnterApplying, CountLeft
  <2> QED
    BY <1>1, <2>1, <2>2, Effects, HandEmpty
<1>6. CASE ListPairs(k)
  <2>1. /\ RunOf(k) # 0 /\ runner'[k].at = "resolve" /\ runner'[k].run = RunOf(k)
        /\ runner'[k].todo = With(RunOf(k), {"approved", "failed"})
    BY <1>1, <1>6, Effects DEF PairInHand, ListPairs, RunnerAt, Applying
  <2>2. pair' = pair
    BY <1>6 DEF ListPairs, store
  <2> QED
    BY <2>1, <2>2 DEF PairInHand, RunnerAt, RunOf, With, Settled
<1>7. RunOf(k) # 0 =>
        /\ RunOf(k) \in Runs
        /\ With(RunOf(k), Settled) \subseteq {p \in Pairs : pair'[RunOf(k)][p] \in Settled}
  BY <1>1, <1>2 DEF SettledStays, With, Runs
<1>12. CASE ResolveUsers(k)
  <2>1. RunOf(k) # 0 /\ runner[k].todo \subseteq With(RunOf(k), Settled)
    BY <1>1, <1>12 DEF PairInHand, ResolveUsers, RunnerAt, Applying
  <2> QED
    BY <1>1, <1>7, <1>12, <2>1, ResolveEffects DEF PairInHand, RunnerAt, RunOf, With
<1>8. CASE NextPair(k)
  <2>1. /\ RunOf(k) # 0 /\ runner[k].todo \subseteq With(RunOf(k), Settled)
        /\ runner[k].users \in resolved[RunOf(k)] \ {{}}
    BY <1>1, <1>8 DEF PairInHand, NextPair, RunnerAt, Applying
  <2> QED
    BY <1>1, <1>7, <1>8, <2>1, NextPairEffects DEF PairInHand, RunnerAt, RunOf, With
<1>9. CASE TagUser(k)
  <2>1. /\ RunOf(k) # 0
        /\ {runner[k].cur} \cup runner[k].todo \subseteq With(RunOf(k), Settled)
        /\ runner[k].users \in resolved[RunOf(k)] \ {{}}
        /\ runner[k].users \ runner[k].left \subseteq tagged[runner[k].cur]
    BY <1>1, <1>9 DEF PairInHand, TagUser, RunnerAt, Applying
  <2>2. runner[k].cur \in Pairs
    BY <2>1 DEF With
  <2>3. PICK u \in runner[k].left :
          /\ runner'[k].at = "users"
          /\ runner'[k].run = RunOf(k)
          /\ runner'[k].cur = runner[k].cur
          /\ runner'[k].left = runner[k].left \ {u}
          /\ runner'[k].users = runner[k].users
          /\ runner'[k].todo = runner[k].todo
          /\ tagged' = [tagged EXCEPT ![runner[k].cur] = @ \cup {u}]
    BY <1>1, <1>9, TagUserEffects
  <2>4. runner'[k].users \ runner'[k].left \subseteq tagged'[runner'[k].cur]
    BY <1>1, <2>1, <2>2, <2>3
  <2>5. runner'[k].users \in resolved'[runner'[k].run] \ {{}}
    BY <1>1, <1>7, <2>1, <2>3
  <2> QED
    BY <1>7, <2>1, <2>3, <2>4, <2>5 DEF PairInHand, RunnerAt, RunOf, With
<1>10. CASE PairDone(k) \/ PairFails(k) \/ NothingToTag(k)
  <2>1. /\ RunOf(k) # 0
        /\ {runner[k].cur} \cup runner[k].todo \subseteq With(RunOf(k), Settled)
        /\ runner[k].users \in resolved[RunOf(k)] \ {{}}
        /\ runner[k].users \ runner[k].left \subseteq tagged[runner[k].cur]
    BY <1>1, <1>10 DEF PairInHand, PairDone, PairFails, NothingToTag, RunnerAt, Applying
  <2>2. tagged' = tagged
    BY <1>10 DEF PairDone, PairFails, NothingToTag, cover
  <2>3. runner'[k].verdict = "applied" => runner'[k].users \subseteq tagged'[runner'[k].cur]
    <3>1. PairDone(k) => runner[k].left = {}
      BY DEF PairDone
    <3> QED
      BY <1>1, <1>10, <2>1, <2>2, <3>1, VerdictEffects
  <2>4. runner'[k].users \in resolved'[runner'[k].run] \ {{}}
    BY <1>1, <1>7, <1>10, <2>1, VerdictEffects
  <2>5. /\ runner'[k].at = "record" /\ runner'[k].run = RunOf(k)
        /\ runner'[k].cur = runner[k].cur /\ runner'[k].todo = runner[k].todo
        /\ runner'[k].verdict # "none"
    BY <1>1, <1>10, VerdictEffects
  <2> QED
    BY <1>7, <2>1, <2>3, <2>4, <2>5 DEF PairInHand, RunnerAt, RunOf, With
<1>11. CASE RecordPair(k)
  <2>1. /\ RunOf(k) # 0 /\ runner[k].todo \subseteq With(RunOf(k), Settled)
        /\ runner[k].users \in resolved[RunOf(k)] \ {{}}
    BY <1>1, <1>11 DEF PairInHand, RecordPair, RunnerAt, Applying
  <2> QED
    BY <1>1, <1>7, <1>11, <2>1, RecordEffects DEF PairInHand, RunnerAt, RunOf, With
<1> QED
  BY <1>3, <1>4, <1>5, <1>6, <1>8, <1>9, <1>10, <1>11, <1>12 DEF Apply

\* What a runner makes of the pairs and the files.
LEMMA RunnerKeeps ==
  ASSUME IndInv, TypeOK', NEW k \in Runners, Analyze(k) \/ Apply(k) \/ End(k)
  PROVE  AppliedMeansTagged' /\ OnlyApprovedTakesEffect'
         /\ \A a \in Requests : RequestInHand(a)'
<1>1. /\ TypeOK /\ AnalysisAlone(k) /\ PairInHand(k) /\ SettledStays
      /\ AppliedMeansTagged /\ OnlyApprovedTakesEffect
      /\ \A a \in Requests : RequestInHand(a)
  BY RunnerSettles DEF IndInv
<1>2. /\ tagged' \in [Pairs -> SUBSET Users] /\ tagged \in [Pairs -> SUBSET Users]
      /\ \A p \in Pairs : tagged[p] \subseteq tagged'[p]
      /\ \A r \in Runs : resolved[r] \subseteq resolved'[r]
      /\ vacant \in [Runs -> SUBSET (Pairs \cup {NoPair})]
      /\ pair \in [Runs -> [Pairs -> PairStatus]]
  BY <1>1, TaggedGrows DEF TypeOK
<1>3. ASSUME NEW r \in Runs, NEW p \in Pairs,
             pair'[r][p] = "applied", p \notin vacant'[r]
      PROVE  \E S \in resolved'[r] : S # {} /\ S \subseteq tagged'[p]
  <2>1. CASE RecordPair(k) /\ r = RunOf(k) /\ p = runner[k].cur
    <3>1. pair'[r][p] = Status(runner[k].verdict)
      BY <1>2, <2>1 DEF RecordPair
    <3>2. runner[k].verdict # "vacant"
      BY <1>2, <1>3, <2>1 DEF RecordPair
    <3>3. runner[k].verdict = "applied"
      BY <1>3, <3>1, <3>2 DEF Status
    <3>4. /\ runner[k].users \subseteq tagged[runner[k].cur]
          /\ runner[k].users \in resolved[RunOf(k)] \ {{}}
      BY <1>1, <2>1, <3>3 DEF PairInHand, RecordPair, RunnerAt
    <3> QED
      BY <1>2, <2>1, <3>4
  <2>2. CASE ~ (RecordPair(k) /\ r = RunOf(k) /\ p = runner[k].cur)
    <3>1. pair[r][p] = "applied"
      BY <1>1, <1>3, <2>2, PairWrites
    <3>2. p \notin vacant[r]
      <4>1. ASSUME RecordPair(k), r # RunOf(k) \/ p # runner[k].cur
            PROVE  p \in vacant[r] => p \in vacant'[r]
        <5>1. \/ vacant' = [vacant EXCEPT ![RunOf(k)] = @ \cup {runner[k].cur}]
              \/ vacant' = [vacant EXCEPT ![RunOf(k)] = @ \ {runner[k].cur}]
          BY <4>1 DEF RecordPair
        <5> QED
          BY <1>2, <4>1, <5>1
      <4> QED
        BY <1>1, <1>3, <2>2, <4>1, TablesKept
    <3> QED
      BY <1>1, <1>2, <3>1, <3>2 DEF AppliedMeansTagged
  <2> QED
    BY <2>1, <2>2
<1>4. ASSUME NEW p \in Pairs, tagged'[p] # {} \/ p \in aliases'
      PROVE  \E r \in Runs : pair'[r][p] \in Settled
  <2>1. CASE tagged[p] # {} \/ p \in aliases
    BY <1>1, <2>1 DEF OnlyApprovedTakesEffect, SettledStays
  <2>2. CASE tagged[p] = {} /\ p \notin aliases
    <3>1. TagUser(k) /\ tagged'[p] # tagged[p]
      BY <1>1, <1>4, <2>2, TablesKept
    <3>2. p = runner[k].cur
      BY <1>1, <1>2, <3>1, TagUserEffects
    <3>3. RunOf(k) \in Runs /\ p \in With(RunOf(k), Settled)
      <4>1. RunOf(k) # 0 /\ p \in With(RunOf(k), Settled)
        BY <1>1, <3>1, <3>2 DEF PairInHand, TagUser, RunnerAt, Applying
      <4>2. RunOf(k) \in 0 .. MaxRuns
        BY <1>1, TypeParts DEF Locals, RunOf
      <4> QED
        BY <4>1, <4>2, BoundsAssumption DEF Runs
    <3> QED
      BY <1>1, <3>3 DEF SettledStays, With
  <2> QED
    BY <2>1, <2>2
<1>5. \A a \in Requests : RequestInHand(a)'
  <2>1. request' = request
    BY <1>1, TablesKept
  <2>2. \A a \in Requests : request[a].folded \subseteq Pairs
    BY <1>1, TypeParts DEF Handlers
  <2> QED
    BY <1>1, <2>1, <2>2 DEF RequestInHand, SettledStays
<1> QED
  BY <1>3, <1>4, <1>5 DEF AppliedMeansTagged, OnlyApprovedTakesEffect

\* What a request makes of them, and of itself.
LEMMA ReviewKeeps ==
  ASSUME IndInv, TypeOK', NEW a \in Requests, Review(a)
  PROVE  /\ OnlyOpened' /\ AppliedMeansTagged' /\ OnlyApprovedTakesEffect'
         /\ \A k \in Runners : AnalysisAlone(k)' /\ PairInHand(k)'
         /\ \A b \in Requests : RequestInHand(b)'
<1>1. /\ TypeOK /\ OnlyOpened /\ SettledStays
      /\ AppliedMeansTagged /\ OnlyApprovedTakesEffect
      /\ \A k \in Runners : AnalysisAlone(k)
      /\ \A b \in Requests : RequestInHand(b)
  BY ReviewSettles DEF IndInv
<1>2. runner' = runner /\ tagged' = tagged /\ resolved' = resolved /\ vacant' = vacant
  BY <1>1, ReviewLeaves
<1>3. runs' = runs /\ runs \in 0 .. MaxRuns /\ request \in Handlers /\ request' \in Handlers
  BY <1>1, TypeParts, ReviewType
  DEF TablesOK, Review, AskReject, AskRestore, AskApprove, AskDiscard, Ask, Reject,
      Restore, Approve, Discard, ReadEffective, WriteAliases, Refuse, store
<1>4. \A r \in Runs, p \in Pairs : pair[r][p] = "none" => pair'[r][p] = "none"
  BY <1>1, ReviewWrites
<1>5. OnlyOpened' /\ \A k \in Runners : AnalysisAlone(k)'
  <2>1. OnlyOpened'
    BY <1>1, <1>2, <1>3, <1>4 DEF OnlyOpened, RunOf
  <2>2. ASSUME NEW k \in Runners PROVE AnalysisAlone(k)'
    <3>1. RunOf(k) \in 0 .. MaxRuns
      BY <1>1, TypeParts DEF Locals, RunOf
    <3>2. RunOf(k) # 0 => RunOf(k) \in Runs
      BY <3>1, BoundsAssumption DEF Runs
    <3> QED
      BY <1>1, <1>2, <1>4, <3>2 DEF AnalysisAlone, RunOf
  <2> QED
    BY <2>1, <2>2
<1>6. \A k \in Runners : PairInHand(k)'
  BY <1>1, <1>2, HandKept
<1>7. AppliedMeansTagged'
  BY <1>1, <1>2, ReviewWrites DEF AppliedMeansTagged
\* The folded aliases come from approved pairs.
<1>8. \A p \in Effective : \E r \in Runs : pair[r][p] \in Settled
  BY DEF Effective, With, Settled
<1>9. ASSUME NEW b \in Requests PROVE RequestInHand(b)'
  <2>1. \/ request'[b] = request[b]
        \/ request'[b] = Idle
        \/ runs > 0 /\ request'[b].run = runs /\ request'[b].folded = {}
        \/ /\ request'[b].at \in {"read", "write"}
           /\ \/ request'[b].folded = request[b].folded
              \/ pair' = pair /\ request'[b].folded = Effective
    <3>1. CASE b # a
      BY <1>3, <3>1
      DEF Review, AskReject, AskRestore, AskApprove, AskDiscard, Ask, Reject, Restore,
          Approve, Discard, ReadEffective, WriteAliases, Refuse, Answer, Handlers
    <3>2. CASE b = a /\ (AskReject(a) \/ AskRestore(a) \/ AskApprove(a) \/ AskDiscard(a))
      BY <1>3, <3>2
      DEF AskReject, AskRestore, AskApprove, AskDiscard, Ask, Idle, Handlers
    <3>3. CASE b = a /\ (Reject(a) \/ Restore(a) \/ WriteAliases(a) \/ Refuse(a))
      BY <1>3, <3>3 DEF Reject, Restore, WriteAliases, Refuse, Answer, Handlers
    <3>4. CASE b = a /\ (Approve(a) \/ Discard(a) \/ ReadEffective(a))
      BY <1>3, <3>4 DEF Approve, Discard, ReadEffective, Handlers, store
    <3> QED
      BY <3>1, <3>2, <3>3, <3>4 DEF Review
  <2>2. request[b].folded \subseteq Pairs /\ Effective \subseteq Pairs
    BY <1>3 DEF Handlers, Effective, With
  <2> QED
    BY <1>1, <1>3, <1>8, <2>1, <2>2 DEF RequestInHand, SettledStays, Idle
<1>10. OnlyApprovedTakesEffect'
  <2>1. aliases' = aliases \/ aliases' = request[a].folded
    BY DEF Review, AskReject, AskRestore, AskApprove, AskDiscard, Ask, Reject, Restore,
           Approve, Discard, ReadEffective, WriteAliases, Refuse, store
  <2>2. \A p \in request[a].folded : \E r \in Runs : pair[r][p] \in Settled
    BY <1>1 DEF RequestInHand
  <2> QED
    BY <1>1, <1>2, <2>1, <2>2 DEF OnlyApprovedTakesEffect, SettledStays
<1> QED
  BY <1>5, <1>6, <1>7, <1>9, <1>10

LEMMA TokenStep ==
  ASSUME IndInv, NEW k \in Runners, Analyze(k) \/ Apply(k) \/ End(k)
  PROVE  TokensDiffer'
<1>1. /\ TypeOK /\ TokensDiffer /\ runner \in [Runners -> Locals] /\ gen \in 0 .. MaxStarts
      /\ \A l \in Runners : l # k => runner'[l] = runner[l]
  BY TypeParts, NobodyElseMoves DEF IndInv, TablesOK
<1>2. CASE BeginAnalyze(k) \/ BeginApply(k)
  <2>1. gen' = gen + 1 /\ runner'[k].gen = gen + 1
    BY <1>1, <1>2 DEF BeginAnalyze, BeginApply, Begin, Blank
  <2>2. \A l \in Runners : runner[l].gen \in 0 .. MaxStarts
    BY <1>1 DEF Locals
  <2> QED
    BY <1>1, <2>1, <2>2, BoundsAssumption DEF TokensDiffer, RunnerAt
<1>3. CASE End(k)
  <2>1. /\ gen' = gen /\ runner[k].at = "end"
        /\ runner'[k].at = "off" \/ runner'[k].gen = runner[k].gen
    BY <1>1, <1>3, Effects DEF End
  <2> QED
    BY <1>1, <2>1 DEF TokensDiffer, RunnerAt
<1>4. CASE (Analyze(k) \/ Apply(k)) /\ ~ BeginAnalyze(k) /\ ~ BeginApply(k)
  <2>1. runner[k].at # "off"
    BY <1>1, <1>4, TokenKept
  <2>2. runner'[k].gen = runner[k].gen /\ gen' = gen
    BY <1>1, <1>4, TokenKept
  <2> QED
    BY <1>1, <2>1, <2>2 DEF TokensDiffer, RunnerAt
<1> QED
  BY <1>2, <1>3, <1>4

LEMMA InitInv == Init => IndInv
<1> SUFFICES ASSUME Init PROVE IndInv
  OBVIOUS
<1>1. Off \in Locals /\ Off.at = "off" /\ Off.run = 0
  BY BlankType, BoundsAssumption, Places DEF Off, Blank
<1>2. \A k \in Runners : runner[k] = Off
  BY DEF Init
<1>3. \A a \in Requests : request[a] = Idle
  BY DEF Init
<1>4. TypeOK
  <2>1. TablesOK
    <3>1. /\ 0 \in 0 .. MaxRuns /\ 0 \in 0 .. MaxStarts
          /\ "none" \in Phase /\ "none" \in PairStatus
      BY BoundsAssumption DEF Phase, PairStatus
    <3>2. pair \in [Runs -> [Pairs -> PairStatus]] /\ phase \in [Runs -> Phase]
      BY <3>1 DEF Init
    <3> QED
      BY <3>1, <3>2 DEF Init, TablesOK
  <2>2. runner \in [Runners -> Locals]
    BY <1>1 DEF Init
  <2>3. request \in Handlers
    BY BoundsAssumption DEF Init, Idle, Handlers, Handling
  <2> QED
    BY <2>1, <2>2, <2>3, TypeParts
<1>5. OnlyOpened /\ TokensDiffer
  BY <1>1, <1>2 DEF Init, OnlyOpened, TokensDiffer, RunOf, RunnerAt
<1>6. \A k \in Runners : AnalysisAlone(k) /\ PairInHand(k)
  BY <1>1, <1>2 DEF AnalysisAlone, PairInHand, RunOf, RunnerAt, Analyzing, Applying
<1>7. \A a \in Requests : RequestInHand(a)
  BY <1>3 DEF RequestInHand, Idle
<1>8. AppliedMeansTagged /\ OnlyApprovedTakesEffect /\ NothingHangs
  BY DEF Init, AppliedMeansTagged, OnlyApprovedTakesEffect, NothingHangs
<1> QED
  BY <1>4, <1>5, <1>6, <1>7, <1>8 DEF IndInv

LEMMA HangIsInvariant == IndInv => HangInv
BY DEF IndInv, HangInv, AnalysisAlone, NotYetOpen, NothingHangs, FlagHeld, AnalysisHeld,
       Unclosed

LEMMA InvStep == IndInv /\ [Next]_vars => IndInv'
<1> SUFFICES ASSUME IndInv, [Next]_vars PROVE IndInv'
  OBVIOUS
<1>1. TypeOK /\ TypeOK'
  BY TypeStep DEF IndInv
<1>2. NothingHangs'
  BY HangIsInvariant, HangStep DEF HangInv, NothingHangs, FlagHeld, AnalysisHeld, Unclosed
<1>3. ASSUME NEW k \in Runners, Analyze(k) \/ Apply(k) \/ End(k) PROVE IndInv'
  <2>1. OnlyOpened' /\ TokensDiffer' /\ \A l \in Runners : AnalysisAlone(l)'
    BY <1>3, OpenedStep, TokenStep, AloneStep
  <2>2. \A l \in Runners : PairInHand(l)'
    <3>1. /\ SettledStays
          /\ \A p \in Pairs : tagged[p] \subseteq tagged'[p]
          /\ \A r \in Runs : resolved[r] \subseteq resolved'[r]
      BY <1>1, <1>3, RunnerSettles, TaggedGrows
    <3> QED
      BY <1>1, <1>3, <3>1, HandKept, HandMoves, NobodyElseMoves
  <2> QED
    BY <1>1, <1>2, <1>3, <2>1, <2>2, RunnerKeeps DEF IndInv
<1>4. ASSUME NEW a \in Requests, Review(a) PROVE IndInv'
  <2>1. TokensDiffer'
    BY <1>1, <1>4, ReviewLeaves DEF IndInv, TokensDiffer, RunnerAt
  <2> QED
    BY <1>1, <1>2, <1>4, <2>1, ReviewKeeps DEF IndInv
<1>5. CASE RequestStop \/ UNCHANGED vars
  <2>1. /\ UNCHANGED <<runs, phase, pair, aliases, cover, gen, runner, request>>
    BY <1>5 DEF RequestStop, vars, store, state
  <2>2. OnlyOpened' /\ TokensDiffer' /\ AppliedMeansTagged' /\ OnlyApprovedTakesEffect'
    BY <2>1
    DEF IndInv, OnlyOpened, TokensDiffer, AppliedMeansTagged, OnlyApprovedTakesEffect,
        RunOf, RunnerAt, cover
  <2>3. \A k \in Runners : AnalysisAlone(k)' /\ PairInHand(k)'
    BY <2>1 DEF IndInv, AnalysisAlone, PairInHand, RunOf, RunnerAt, With, cover
  <2>4. \A a \in Requests : RequestInHand(a)'
    BY <2>1 DEF IndInv, RequestInHand
  <2> QED
    BY <1>1, <1>2, <2>2, <2>3, <2>4 DEF IndInv
<1>6. CASE Restart
  <2>1. /\ \A k \in Runners : runner'[k].at = "off" /\ runner'[k].run = 0
        /\ UNCHANGED <<runs, pair, aliases, cover>>
    BY <1>6 DEF Restart, Off, Blank
  <2>2. OnlyOpened' /\ TokensDiffer' /\ AppliedMeansTagged' /\ OnlyApprovedTakesEffect'
    <3>1. runs \in 0 .. MaxRuns
      BY <1>1 DEF TypeOK
    <3> QED
      BY <2>1, <3>1
      DEF IndInv, OnlyOpened, TokensDiffer, AppliedMeansTagged, OnlyApprovedTakesEffect,
          RunOf, RunnerAt, cover
  <2>3. \A k \in Runners : AnalysisAlone(k)' /\ PairInHand(k)'
    BY <2>1 DEF AnalysisAlone, PairInHand, RunOf, RunnerAt, Analyzing, Applying
  <2>4. \A a \in Requests : RequestInHand(a)'
    BY <1>6 DEF Restart, RequestInHand, Idle
  <2> QED
    BY <1>1, <1>2, <2>2, <2>3, <2>4 DEF IndInv
<1> QED
  BY <1>3, <1>4, <1>5, <1>6 DEF Next

\* The inductive invariant holds of every execution.
THEOREM Invariance == Spec => []IndInv
BY InitInv, InvStep, PTL DEF Spec

\* A pair that is applied, and had something to tag, has been applied to the files
\* of every user on a list an apply of its run had resolved, whatever was stopped,
\* superseded, vetoed or restarted.
THEOREM AppliedIsTagged == Spec => []AppliedMeansTagged
<1>1. IndInv => AppliedMeansTagged
  BY DEF IndInv
<1> QED
  BY <1>1, Invariance, PTL

\* Neither files nor aliases ever get a canonical that no run had approved.
THEOREM VetoStands == Spec => []OnlyApprovedTakesEffect
<1>1. IndInv => OnlyApprovedTakesEffect
  BY DEF IndInv
<1> QED
  BY <1>1, Invariance, PTL

\* The running flag belongs to a living runner, unless latest_run raised in the
\* thread that had raised it; a run in analyzing belongs to a living analysis,
\* unless the write that should have closed it was refused.
THEOREM NothingIsOrphaned == Spec => []NothingHangs
<1>1. IndInv => NothingHangs
  BY DEF IndInv
<1> QED
  BY <1>1, Invariance, PTL

\* A step that takes the turn from a runner that is at work is a stop or a restart:
\* no runner of an older generation does it.
LEMMA TurnKept ==
  ASSUME IndInv, NEW k \in Runners, Active(k), runner[k].at \notin {"off", "end"},
         NEW l \in Runners, Analyze(l) \/ Apply(l) \/ End(l)
  PROVE  Active(k)'
<1>1. /\ TypeOK /\ TokensDiffer /\ runner \in [Runners -> Locals]
      /\ running /\ runner[k].gen = gen
  BY TypeParts DEF IndInv, TablesOK, Active
<1>2. ~ BeginAnalyze(l) /\ ~ BeginApply(l)
  BY <1>1 DEF BeginAnalyze, BeginApply, Begin
<1>3. CASE End(l)
  <2>1. l # k /\ runner[l].at = "end"
    BY <1>3 DEF End, RunnerAt
  <2>2. runner[l].gen # gen /\ runner'[k] = runner[k]
    BY <1>1, <1>3, <2>1, NobodyElseMoves DEF TokensDiffer, RunnerAt
  <2> QED
    BY <1>1, <1>3, <2>2 DEF End, Active
<1>4. CASE Analyze(l) \/ Apply(l)
  <2>1. running' = running /\ gen' = gen /\ runner'[l].gen = runner[l].gen
    BY <1>1, <1>2, <1>4, TokenKept
  <2> QED
    BY <1>1, <1>4, <2>1, NobodyElseMoves DEF Active
<1> QED
  BY <1>3, <1>4

\* Rows, users' files, generation and the locals of runners and requests keep
\* their shape.
THEOREM TypeCorrect == Spec => []TypeOK
<1>1. IndInv => TypeOK
  BY DEF IndInv
<1> QED
  BY <1>1, Invariance, PTL

\* A stale runner never takes the turn of a newer one.
THEOREM TurnIsSafe == Spec => CurrentRunnerGoesOn
<1> DEFINE Keeps == \A k \in Runners :
             Active(k) /\ runner[k].at \notin {"off", "end"} /\ ~ Active(k)'
             => RequestStop \/ Restart
<1>1. IndInv /\ [Next]_vars => [Keeps]_vars
  <2> SUFFICES ASSUME IndInv, Next, ~ RequestStop, ~ Restart,
                      NEW k \in Runners, Active(k), runner[k].at \notin {"off", "end"}
               PROVE  Active(k)'
    BY DEF Keeps
  <2>1. ASSUME NEW a \in Requests, Review(a) PROVE Active(k)'
    BY <2>1, ReviewLeaves DEF IndInv, Active
  <2> QED
    BY <2>1, TurnKept DEF Next
<1> QED
  BY <1>1, Invariance, PTL DEF Spec, CurrentRunnerGoesOn
=============================================================================
