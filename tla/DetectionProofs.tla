-------------------------- MODULE DetectionProofs --------------------------
(***************************************************************************)
(* Safety of the backstop scan and of the webhook secret, for any number   *)
(* of uploads, calls of the handler and faults.                            *)
(***************************************************************************)
EXTENDS Detection, TLAPS

\* A file no scan has looked at, nor a webhook queued.
Owed == {f \in fresh : f \notin queued \cup passed}

FileTypes ==
    /\ file \in Seq(Nat)
    /\ fresh \subseteq DOMAIN file
    /\ now \in Nat /\ watermark \in Nat \cup {Unset}
    /\ watermark = Unset => fresh = {}

Walking == [pc : {"walk"}, from : {watermark}, top : Mtimes \cup {watermark}, todo : SUBSET DOMAIN file]

\* In a walk the mark has stayed; what is owed is still to come, or newer than
\* everything the new mark may be.
WalkInv ==
    /\ loop.pc \in {"off", "dead", "start", "wait", "walk"}
    /\ loop.pc = "walk" =>
          /\ loop \in Walking /\ watermark # Unset
          /\ loop.top >= watermark
          /\ \A g \in Owed \ loop.todo :
                /\ file[g] > loop.top
                /\ \A f \in loop.todo : file[g] > file[f]

ScanInv == FileTypes /\ WalkInv /\ FreshFilesStayVisible

\* What a call of the handler knows of the secret.
HookInv ==
    /\ HookAccepted
    /\ handler.pc = "secret" => handler.known = config
    /\ handler.pc \in {"drop", "create"} =>
          cache = handler.secret /\ (config # NoSecret => config = handler.secret)

-----------------------------------------------------------------------------
LEMMA MaxOfTwo ==
    ASSUME NEW a \in Int, NEW b \in Int
    PROVE  Max({a, b}) \in {a, b} /\ Max({a, b}) >= a /\ Max({a, b}) >= b
<1>1. \E x \in {a, b} : \A y \in {a, b} : x >= y
  OBVIOUS
<1> QED
  BY <1>1 DEF Max

LEMMA RaisedIsMax ==
    ASSUME watermark \in Int, NEW mark \in Int
    PROVE  /\ Raised(mark) \in {watermark, mark}
           /\ Raised(mark) >= watermark /\ Raised(mark) >= mark
BY MaxOfTwo DEF Raised

LEMMA FileFacts ==
    ASSUME FileTypes
    PROVE  /\ \A f \in DOMAIN file : file[f] \in Nat
           /\ Mtimes \subseteq Nat /\ watermark \in Int
<1>1. \A f \in DOMAIN file : file[f] \in Nat
  BY DEF FileTypes
<1>2. Mtimes \subseteq Nat
  BY <1>1 DEF Mtimes
<1>3. watermark \in Int
  BY DEF FileTypes, Unset
<1> QED
  BY <1>1, <1>2, <1>3

LEMMA ScanStart == Init => ScanInv
BY DEF Init, ScanInv, FileTypes, WalkInv, FreshFilesStayVisible, NewThread, Unset

\* A new file, newer than all before or not.
LEMMA UploadKeeps ==
    ASSUME ScanInv, NEW f, NEW t \in Times, Upload(f, t)
    PROVE  ScanInv'
<1>1. t \in Nat
  BY DEF Times
<1>2. /\ file' = Append(file, t) /\ f = Len(file) + 1 /\ Len(file) \in Nat
      /\ UNCHANGED <<now, watermark, queued, passed, loop>>
      /\ DOMAIN file = 1..Len(file)
  BY DEF Upload, scanVars, ScanInv, FileTypes
<1>3. /\ file' \in Seq(Nat)
      /\ DOMAIN file' = 1..f /\ f \notin DOMAIN file
      /\ file'[f] = t /\ \A g \in DOMAIN file : file'[g] = file[g]
  BY <1>1, <1>2 DEF ScanInv, FileTypes
<1>4. fresh' \subseteq fresh \cup {f}
      /\ (f \in fresh' => watermark # Unset /\ \A s \in Mtimes \cup {watermark} : s < t)
  BY <1>2 DEF Upload, ScanInv, FileTypes
<1>5. FileTypes'
  <2>1. fresh \subseteq DOMAIN file /\ DOMAIN file \cup {f} \subseteq DOMAIN file'
    BY <1>2, <1>3 DEF ScanInv, FileTypes
  <2>2. /\ now' \in Nat /\ watermark' \in Nat \cup {Unset}
        /\ watermark' = Unset => fresh' = {}
    BY <1>2, <1>4 DEF ScanInv, FileTypes
  <2> QED
    BY <1>3, <1>4, <2>1, <2>2 DEF FileTypes
<1>6. Owed' \subseteq Owed \cup {f}
  BY <1>2, <1>3, <1>4 DEF Owed, ScanInv, FileTypes
<1>7. FreshFilesStayVisible'
  <2>1. ASSUME NEW g \in fresh', g \notin queued \cup passed
        PROVE  file'[g] > watermark
    <3>1. CASE g \in fresh
      BY <2>1, <3>1, <1>3 DEF ScanInv, FileTypes, FreshFilesStayVisible
    <3>2. CASE g = f
      <4>1. t > watermark /\ file'[g] = t
        BY <2>1, <3>2, <1>1, <1>3, <1>4, FileFacts DEF ScanInv
      <4> QED
        BY <4>1
    <3> QED
      BY <2>1, <3>1, <3>2, <1>4
  <2> QED
    BY <2>1, <1>2 DEF FreshFilesStayVisible
<1>8. WalkInv'
  <2>1. CASE loop.pc # "walk"
    BY <1>2, <2>1 DEF WalkInv, ScanInv
  <2>2. CASE loop.pc = "walk"
    <3>1. /\ loop \in Walking /\ loop.top \in Mtimes \cup {watermark}
          /\ loop.todo \subseteq DOMAIN file
      BY <2>2 DEF WalkInv, Walking, ScanInv
    <3>2. Mtimes \subseteq Mtimes'
      BY <1>2, <1>3 DEF Mtimes
    <3>3. loop' \in Walking'
      BY <1>2, <1>3, <3>1, <3>2 DEF Walking
    <3>4. ASSUME NEW g \in Owed' \ loop.todo
          PROVE  /\ file'[g] > loop.top
                 /\ \A h \in loop.todo : file'[g] > file'[h]
      <4>1. CASE g \in Owed
        BY <2>2, <3>1, <4>1, <1>3 DEF WalkInv, ScanInv, Owed, FileTypes
      <4>2. CASE g = f
        <5>1. \A s \in Mtimes \cup {watermark} : s < t
          BY <1>4, <4>2, <3>4 DEF Owed
        <5>2. \A h \in loop.todo : file'[h] \in Mtimes
          BY <3>1, <1>3 DEF Mtimes
        <5>3. Mtimes \cup {watermark} \subseteq Int
          BY FileFacts DEF ScanInv
        <5> QED
          BY <5>1, <5>2, <5>3, <3>1, <4>2, <1>1, <1>3
      <4> QED
        BY <1>6, <4>1, <4>2
    <3> QED
      BY <1>2, <2>2, <3>3, <3>4 DEF WalkInv, ScanInv
  <2> QED
    BY <2>1, <2>2
<1> QED
  BY <1>5, <1>7, <1>8 DEF ScanInv

\* Steps that leave files, mark and thread alone; some of them queue files.
LEMMA OthersKeep ==
    ASSUME ScanInv, UNCHANGED <<file, fresh, watermark, loop>>,
           now' \in Nat, queued \subseteq queued', passed \subseteq passed'
    PROVE  ScanInv'
<1>1. Owed' \subseteq Owed
  BY DEF Owed
<1>2. Mtimes' = Mtimes /\ Walking' = Walking
  BY DEF Mtimes, Walking
<1>3. FileTypes' /\ FreshFilesStayVisible'
  BY DEF ScanInv, FileTypes, FreshFilesStayVisible
<1>4. WalkInv'
  BY <1>1, <1>2 DEF ScanInv, WalkInv
<1> QED
  BY <1>3, <1>4 DEF ScanInv

\* The thread ends, begins or waits, and the mark stays.
LEMMA NoWalkKeeps ==
    ASSUME ScanInv, UNCHANGED <<now, file, fresh, watermark, queued, passed>>,
           loop' \in {NewThread, NextRound, NoThread, DeadThread}
    PROVE  ScanInv'
BY DEF ScanInv, FileTypes, WalkInv, FreshFilesStayVisible, NewThread, NextRound, NoThread, DeadThread

LEMMA SeedKeeps == ASSUME ScanInv, SeedWatermark PROVE ScanInv'
<1>1. fresh = {} /\ now \in Nat /\ watermark = Unset
  BY DEF ScanInv, FileTypes, SeedWatermark
<1>2. Raised(now) = now
  BY <1>1, RaisedIsMax DEF Unset
<1> QED
  BY <1>1, <1>2
  DEF ScanInv, FileTypes, WalkInv, FreshFilesStayVisible, SeedWatermark, Goes, NextRound

LEMMA RecentKeeps == ASSUME ScanInv, RecentNodes PROVE ScanInv'
<1> DEFINE todo == {f \in DOMAIN file : file[f] > watermark}
<1>1. /\ loop' = [pc |-> "walk", from |-> watermark, top |-> watermark, todo |-> todo]
      /\ UNCHANGED <<now, file, fresh, watermark, queued, passed>> /\ watermark # Unset
  BY DEF RecentNodes, Goes
<1>2. Owed' = Owed /\ Owed \subseteq todo
  BY <1>1 DEF Owed, ScanInv, FileTypes, FreshFilesStayVisible
<1>3. loop' \in Walking'
  BY <1>1 DEF Walking
<1>4. watermark \in Int
  BY DEF ScanInv, FileTypes, Unset
<1>5. WalkInv'
  BY <1>1, <1>2, <1>3, <1>4 DEF WalkInv
<1> QED
  BY <1>1, <1>5 DEF ScanInv, FileTypes, FreshFilesStayVisible

LEMMA EnqueueKeeps ==
    ASSUME ScanInv, NEW f, EnqueueNode(f)
    PROVE  ScanInv'
<1>1. /\ loop.pc = "walk" /\ f \in loop.todo /\ loop \in Walking
      /\ UNCHANGED <<now, file, fresh, watermark>>
  BY DEF EnqueueNode, Goes, ScanInv, WalkInv
<1>2. CASE loop' = NextRound /\ UNCHANGED <<queued, passed>>
  BY <1>1, <1>2, NoWalkKeeps
<1>3. CASE /\ queued' \cup passed' = queued \cup passed \cup {f}
           /\ loop' = [loop EXCEPT !.todo = @ \ {f}, !.top = Max({@, file[f]})]
  <2> DEFINE top == Max({loop.top, file[f]})
  <2>1. /\ f \in DOMAIN file /\ file[f] \in Mtimes
        /\ loop.top \in Mtimes \cup {watermark} /\ Mtimes \cup {watermark} \subseteq Int
    <3>1. Mtimes \subseteq Int /\ watermark \in Int
      BY FileFacts DEF ScanInv
    <3> QED
      BY <1>1, <3>1 DEF Walking, Mtimes
  <2>2. top \in {loop.top, file[f]} /\ top >= loop.top /\ top >= file[f]
    BY <2>1, MaxOfTwo
  <2>3. /\ loop'.pc = "walk" /\ loop'.todo = loop.todo \ {f} /\ loop'.top = top
        /\ loop' \in [pc : {"walk"}, from : {watermark}, top : Mtimes \cup {watermark},
                      todo : SUBSET DOMAIN file]
    BY <1>1, <1>3, <2>1, <2>2 DEF Walking
  <2>4. loop' \in Walking'
    BY <1>1, <2>3 DEF Walking, Mtimes
  <2>5. Owed' \subseteq Owed /\ f \notin Owed'
    BY <1>1, <1>3 DEF Owed
  <2>6. ASSUME NEW g \in Owed' \ loop'.todo
        PROVE  /\ file[g] > top
               /\ \A h \in loop'.todo : file[g] > file[h]
    <3>1. g \in Owed \ loop.todo
      BY <2>3, <2>5, <2>6
    <3>2. /\ file[g] > loop.top
          /\ \A h \in loop.todo : file[g] > file[h]
      BY <1>1, <3>1 DEF ScanInv, WalkInv
    <3> QED
      BY <1>1, <2>2, <2>3, <3>2
  <2>7. top >= watermark
    BY <1>1, <2>1, <2>2 DEF ScanInv, WalkInv
  <2>8. WalkInv'
    BY <1>1, <2>3, <2>4, <2>6, <2>7 DEF ScanInv, WalkInv
  <2>9. FileTypes' /\ FreshFilesStayVisible'
    BY <1>1, <1>3 DEF ScanInv, FileTypes, FreshFilesStayVisible
  <2> QED
    BY <2>8, <2>9 DEF ScanInv
<1> QED
  BY <1>2, <1>3 DEF EnqueueNode, Goes

LEMMA MarkKeeps == ASSUME ScanInv, SetWatermark PROVE ScanInv'
<1>1. /\ loop.pc = "walk" /\ loop.todo = {} /\ loop \in Walking
      /\ loop' = NextRound /\ UNCHANGED <<now, file, fresh, queued, passed>>
  BY DEF SetWatermark, Goes, ScanInv, WalkInv
<1>2. /\ watermark \in Nat /\ loop.top \in Nat /\ loop.top >= watermark /\ loop.from = watermark
  <2>1. watermark \in Nat /\ loop.top >= watermark
    BY <1>1 DEF ScanInv, FileTypes, WalkInv
  <2>2. Mtimes \subseteq Nat
    BY FileFacts DEF ScanInv
  <2>3. loop.top \in Mtimes \cup {watermark} /\ loop.from = watermark
    BY <1>1 DEF Walking
  <2> QED
    BY <2>1, <2>2, <2>3
<1>3. watermark' \in Nat /\ watermark' # Unset /\ watermark' = loop.top
  BY <1>2, RaisedIsMax DEF SetWatermark, Unset
<1>4. \A g \in Owed : file[g] > loop.top
  BY <1>1 DEF ScanInv, WalkInv
<1>5. FreshFilesStayVisible'
  BY <1>1, <1>3, <1>4 DEF FreshFilesStayVisible, Owed
<1> QED
  BY <1>1, <1>3, <1>5 DEF ScanInv, FileTypes, WalkInv, NextRound

LEMMA LoopKeeps == ASSUME ScanInv, LoopStep PROVE ScanInv'
<1>1. CASE Settle \/ LoopDies \/ ScanFails \/ EndLoop
  BY <1>1, NoWalkKeeps DEF Settle, LoopDies, ScanFails, EndLoop, Goes
<1> QED
  BY <1>1, SeedKeeps, RecentKeeps, EnqueueKeeps, MarkKeeps DEF LoopStep

LEMMA HandlerKeeps == ASSUME ScanInv, HandlerStep PROVE ScanInv'
<1>1. now \in Nat
  BY DEF ScanInv, FileTypes
<1>2. CASE StartLoop /\ loop' = NewThread
  BY <1>2, NoWalkKeeps DEF StartLoop
<1>3. CASE HandlerStep /\ ~(StartLoop /\ loop' = NewThread)
  BY <1>1, <1>3, OthersKeep
  DEF HandlerStep, EnsureSecret, UnregisterWebhooks, RegisterWebhooks, StartLoop, StopLoop,
      HandlerFails, scanVars, NoFault, Fault
<1> QED
  BY <1>2, <1>3

LEMMA ScanStep == ASSUME ScanInv, [Next]_detectVars PROVE ScanInv'
<1>1. now \in Nat
  BY DEF ScanInv, FileTypes
<1>2. CASE UNCHANGED detectVars \/ Tick \/ Enable \/ Disable
           \/ \E n \in notices : OnWebhook(n[1], n[2]) \/ LoseNotice(n[1], n[2])
  <2>1. /\ UNCHANGED <<file, fresh, watermark, loop, passed>>
        /\ now' \in Nat /\ queued \subseteq queued'
    <3>1. CASE UNCHANGED detectVars \/ Tick \/ Enable \/ Disable
      BY <1>1, <3>1 DEF detectVars, Tick, Enable, Disable, scanVars
    <3>2. CASE \E n \in notices : OnWebhook(n[1], n[2]) \/ LoseNotice(n[1], n[2])
      BY <1>1, <3>2 DEF OnWebhook, LoseNotice, scanVars
    <3> QED
      BY <1>2, <3>1, <3>2
  <2> QED
    BY <2>1, OthersKeep
<1>3. CASE Restart
  BY <1>3, NoWalkKeeps DEF Restart
<1> QED
  BY <1>2, <1>3, UploadKeeps, LoopKeeps, HandlerKeeps DEF Next

\* Whatever is uploaded while a scan walks, whatever call fails and whenever the
\* thread dies, no watermark of _scan_user passes a file that was the newest on
\* arrival before a scan has looked at it or a webhook queued it.
THEOREM NoFileIsPassed == Spec => []FreshFilesStayVisible
<1>1. ScanInv => FreshFilesStayVisible
  BY DEF ScanInv
<1>2. ScanInv /\ [Next]_detectVars => ScanInv'
  BY ScanStep
<1> QED
  BY <1>1, <1>2, ScanStart, PTL DEF Spec

-----------------------------------------------------------------------------
LEMMA HookStart == Init => HookInv
BY DEF Init, HookInv, HookAccepted, NoCall

LEMMA HookStep == ASSUME HookInv, [Next]_detectVars PROVE HookInv'
<1> USE DEF HookInv, HookAccepted, Secret
<1>1. CASE UNCHANGED <<hooks, config, cache, handler>>
  BY <1>1
<1>2. CASE \E n \in notices : OnWebhook(n[1], n[2])
  BY <1>2 DEF OnWebhook
<1>3. CASE Enable
  BY <1>3 DEF Enable
<1>4. CASE EnsureSecret
  BY <1>4 DEF EnsureSecret
<1>5. CASE UnregisterWebhooks
  BY <1>5 DEF UnregisterWebhooks
<1>6. CASE RegisterWebhooks
  BY <1>6 DEF RegisterWebhooks
<1>7. CASE StartLoop \/ StopLoop \/ HandlerFails \/ Disable \/ Restart
  BY <1>7 DEF StartLoop, StopLoop, HandlerFails, Disable, Restart, NoCall
<1>8. CASE UNCHANGED detectVars \/ Tick \/ LoopStep
           \/ (\E f \in Files, t \in Times : Upload(f, t))
           \/ \E n \in notices : LoseNotice(n[1], n[2])
  BY <1>1, <1>8
  DEF detectVars, Tick, Upload, LoseNotice, LoopStep, Settle, LoopDies, SeedWatermark,
      RecentNodes, EnqueueNode, SetWatermark, ScanFails, EndLoop, Goes, hookVars
<1> QED
  BY <1>2, <1>3, <1>4, <1>5, <1>6, <1>7, <1>8 DEF Next, HandlerStep

\* Whatever fails to be saved, dropped or registered, the receiver accepts the
\* webhook that has the saved secret, before and after a restart.
THEOREM SavedSecretIsAccepted == Spec => []HookAccepted
<1>1. HookInv => HookAccepted
  BY DEF HookInv
<1>2. HookInv /\ [Next]_detectVars => HookInv'
  BY HookStep
<1> QED
  BY <1>1, <1>2, HookStart, PTL DEF Spec
=============================================================================
