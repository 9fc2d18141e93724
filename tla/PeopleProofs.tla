---------------------------- MODULE PeopleProofs ----------------------------
(***************************************************************************)
(* What People promises, for any photos, looks, names and tables and any   *)
(* number of workers, re-clusterings and edits of the review page.  Four   *)
(* inductive invariants, each in parts of its own: Fresh (no name of a     *)
(* person is at or above the next id), Issued (where a re-clustering's     *)
(* ids come from), Repairing and Editing (what an actor that nothing has   *)
(* interfered with has achieved so far).                                   *)
(***************************************************************************)
EXTENDS People, FiniteSetTheorems, TLAPS

---------------------------------------------------------------------------
(* Lemmas about the operators.                                             *)

\* A table stays a table when a row is put, dropped or recomputed.
LEMMA PersonInRow ==
    ASSUME NEW name \in Names \cup {NoName}, NEW tag \in 0..MaxTag,
           NEW ignored \in BOOLEAN, NEW look \in SUBSET Looks
    PROVE  Person(name, tag, ignored, look) \in Row
BY DEF Person, Row

LEMMA RowFields ==
    ASSUME NEW r \in Row
    PROVE  /\ r.name \in Names \cup {NoName} /\ r.tag \in 0..MaxTag
           /\ r.ignored \in BOOLEAN /\ r.look \in SUBSET Looks
BY DEF Row

LEMMA NewInRow ==
    ASSUME NEW tag \in 0..MaxTag
    PROVE  NewPerson(tag) \in Row
BY PersonInRow DEF NewPerson

LEMMA PutTable ==
    ASSUME NEW t, IsTable(t), NEW p \in Ids, NEW r \in Row
    PROVE  IsTable(Put(t, p, r)) /\ DOMAIN Put(t, p, r) = DOMAIN t \cup {p}
BY DEF IsTable, Put

LEMMA RestrictTable ==
    ASSUME NEW t, IsTable(t), NEW S, S \subseteq DOMAIN t
    PROVE  IsTable(Restrict(t, S)) /\ DOMAIN Restrict(t, S) = S
BY DEF IsTable, Restrict

LEMMA LooksOfMembers == \A p : LooksOf(Members(p)) \in SUBSET Looks
BY DEF LooksOf, Members, Faces

LEMMA RecomputedTable ==
    ASSUME NEW t, IsTable(t), NEW p
    PROVE  IsTable(Recomputed(t, p)) /\ DOMAIN Recomputed(t, p) = DOMAIN t
<1>1. DOMAIN Recomputed(t, p) = DOMAIN t
  BY DEF Recomputed
<1>2. ASSUME NEW q \in DOMAIN t
      PROVE  Recomputed(t, p)[q] \in Row
  <2>1. t[q] \in Row
    BY DEF IsTable
  <2>2. Person(t[q].name, t[q].tag, t[q].ignored, LooksOf(Members(q))) \in Row
    BY <2>1, RowFields, PersonInRow, LooksOfMembers
  <2> QED BY <2>1, <2>2 DEF Recomputed
<1>3. Recomputed(t, p) \in [DOMAIN t -> Row]
  BY <1>2 DEF Recomputed
<1> QED BY <1>1, <1>3 DEF IsTable

---------------------------------------------------------------------------
(* The type invariant, in four parts.                                      *)

TablesOK ==
    /\ cluster \in [Faces -> {Unstored, Free} \cup Ids]
    /\ IsTable(persons) /\ nextPerson \in 1..MaxPerson + 1
TagsOK ==
    /\ DOMAIN tags \subseteq 1..nextTag - 1 /\ tags \in [DOMAIN tags -> Names \cup Ids]
    /\ nextTag \in 1..MaxTag + 1 /\ tagged \subseteq Files \X DOMAIN tags
RunsOK ==
    /\ DOMAIN run = Clusterers /\ \A c \in Clusterers : RunOK(run[c])
    /\ loaded \in [Clusterers -> SUBSET Faces]
MatchesOK == DOMAIN match = Workers /\ \A w \in Workers : MatchOK(match[w])

LEMMA Parts ==
    TypeOK <=> /\ TablesOK /\ TagsOK /\ EditOK /\ RunsOK /\ MatchesOK
               /\ calm \in Clusterers \cup {"ui", Nobody}
BY DEF TypeOK, TablesOK, TagsOK, RunsOK, MatchesOK

\* Parts whose variables do not change.
LEMMA Kept ==
    /\ TablesOK /\ UNCHANGED tables => TablesOK'
    /\ TagsOK /\ UNCHANGED <<tagVars, tagged>> => TagsOK'
    /\ EditOK /\ UNCHANGED ui => EditOK'
    /\ RunsOK /\ UNCHANGED runVars => RunsOK'
    /\ MatchesOK /\ UNCHANGED match => MatchesOK'
BY DEF TablesOK, TagsOK, EditOK, RunsOK, MatchesOK, tables, tagVars, runVars, Rows, IsTable

LEMMA CalmKept ==
    ASSUME calm \in Clusterers \cup {"ui", Nobody}, NEW a \in Clusterers \cup {"ui", Nobody}, NEW ok,
           Begins(a, ok) \/ GoesOn(a)
    PROVE  calm' \in Clusterers \cup {"ui", Nobody}
BY DEF Begins, GoesOn

\* What _ensure_person_tag does to the tags: the tag it returns is live, none
\* is deleted, and the ids stay issued.
LEMMA EnsuredTag ==
    ASSUME TagsOK, NEW p \in Ids, NEW name \in Names \cup {NoName}, NEW t, NEW u \in 0..MaxTag,
           EnsurePersonTag(p, name, t, u)
    PROVE  /\ DOMAIN tags' \subseteq 1..nextTag' - 1 /\ tags' \in [DOMAIN tags' -> Names \cup Ids]
           /\ nextTag' \in 1..MaxTag + 1 /\ nextTag <= nextTag'
           /\ DOMAIN tags \subseteq DOMAIN tags' /\ u \in DOMAIN tags'
<1> DEFINE want == Label(p, name)
<1>0. want \in Names \cup Ids
  BY DEF Label
<1>1. CASE u \in DOMAIN tags /\ tags[u] = want /\ UNCHANGED tagVars
  BY <1>1 DEF TagsOK, tagVars
<1>2. CASE /\ t \in DOMAIN tags /\ u = t
           /\ tags' = [tags EXCEPT ![t] = want] /\ UNCHANGED nextTag
  BY <1>0, <1>2 DEF TagsOK
<1>3. CASE /\ t \notin DOMAIN tags /\ u = nextTag /\ nextTag <= MaxTag
           /\ tags' = Put(tags, u, want) /\ nextTag' = nextTag + 1
  <2>1. DOMAIN tags' = DOMAIN tags \cup {u}
    BY <1>3 DEF Put
  <2>2. tags' \in [DOMAIN tags' -> Names \cup Ids]
    BY <1>0, <1>3, <2>1 DEF Put, TagsOK
  <2>3. nextTag' \in 1..MaxTag + 1 /\ nextTag <= nextTag'
    BY <1>3, BoundsNat DEF TagsOK
  <2>4. DOMAIN tags' \subseteq 1..nextTag' - 1
    BY <1>3, <2>1, BoundsNat DEF TagsOK
  <2> QED BY <2>1, <2>2, <2>3, <2>4
<1> QED BY <1>1, <1>2, <1>3 DEF EnsurePersonTag

LEMMA RunKept ==
    ASSUME RunsOK, NEW c \in Clusterers, NEW r, RunOK(r), run' = [run EXCEPT ![c] = r],
           loaded' \in [Clusterers -> SUBSET Faces]
    PROVE  RunsOK'
<1>1. DOMAIN run' = Clusterers
  BY DEF RunsOK
<1>2. ASSUME NEW d \in Clusterers
      PROVE  RunOK(run'[d])
  BY DEF RunsOK
<1> QED BY <1>1, <1>2 DEF RunsOK, RunOK, IsTable

LEMMA MatchKept ==
    ASSUME MatchesOK, NEW w \in Workers, NEW r, MatchOK(r), match' = [match EXCEPT ![w] = r]
    PROVE  MatchesOK'
<1>1. DOMAIN match' = Workers
  BY DEF MatchesOK
<1>2. ASSUME NEW d \in Workers
      PROVE  MatchOK(match'[d])
  BY DEF MatchesOK
<1> QED BY <1>1, <1>2 DEF MatchesOK, MatchOK, IsTable

---------------------------------------------------------------------------
(* Every action keeps the types.                                           *)

USE DEF Ids

LEMMA ExtractTypes ==
    ASSUME TypeOK, NEW w \in Workers, Extract(w)
    PROVE  TypeOK'
<1> USE DEF Faces
<1>0. TablesOK /\ TagsOK /\ EditOK /\ RunsOK /\ MatchesOK /\ calm \in Clusterers \cup {"ui", Nobody}
  BY Parts
<1>1. calm' \in Clusterers \cup {"ui", Nobody}
  BY <1>0, CalmKept DEF Extract, ExtractRows, LoadPersonCentroids, WriteMatches, TagMatches,
     Begins, GoesOn
<1>2. ASSUME NEW x \in Files, NEW looks \in SUBSET Looks, ExtractRows(w, x, looks)
      PROVE  TypeOK'
  <2>1. TablesOK'
    BY <1>0, <1>2 DEF ExtractRows, TablesOK, Rows, IsTable
  <2>2. TagsOK' /\ EditOK'
    BY <1>0, <1>2, Kept DEF ExtractRows
  <2>3. RunsOK'
    BY <1>0, <1>2 DEF ExtractRows, RunsOK
  <2>4. MatchOK(IdleRun) /\ MatchOK([pc |-> "load", file |-> x])
    BY DEF MatchOK, IdleRun
  <2>5. MatchesOK'
    BY <1>0, <1>2, <2>4, MatchKept DEF ExtractRows
  <2> QED BY <1>1, <2>1, <2>2, <2>3, <2>5 DEF TypeOK, TablesOK, TagsOK, RunsOK, MatchesOK
<1>3. CASE LoadPersonCentroids(w)
  <2> DEFINE seen == [p \in {q \in Rows : ~persons[q].ignored /\ persons[q].look # {}} |-> persons[p]]
  <2>1. IsTable(seen)
    BY <1>0 DEF TablesOK, IsTable, Rows
  <2>2. match[w].file \in Files
    BY <1>0, <1>3 DEF MatchesOK, MatchOK, LoadPersonCentroids
  <2>3. MatchOK(IdleRun) /\ MatchOK([pc |-> "write", file |-> match[w].file, seen |-> seen])
    BY <2>1, <2>2 DEF MatchOK, IdleRun
  <2>4. MatchesOK'
    BY <1>0, <1>3, <2>3, MatchKept DEF LoadPersonCentroids
  <2>5. TablesOK' /\ TagsOK' /\ EditOK' /\ RunsOK'
    BY <1>0, <1>3, Kept DEF LoadPersonCentroids
  <2> QED BY <1>1, <2>4, <2>5 DEF TypeOK, TablesOK, TagsOK, RunsOK, MatchesOK
<1>4. CASE WriteMatches(w)
  <2>1. match[w].file \in Files /\ IsTable(match[w].seen)
    BY <1>0, <1>4 DEF MatchesOK, MatchOK, WriteMatches
  <2>2. PICK hit \in [Looks -> DOMAIN match[w].seen \cup {Free}] :
          /\ cluster' = [f \in Faces |->
                 IF f \in Stored /\ f[1] = match[w].file /\ hit[f[2]] # Free THEN hit[f[2]] ELSE cluster[f]]
          /\ match' = [match EXCEPT ![w] =
                 [pc |-> "tag", file |-> match[w].file,
                  hits |-> {match[w].seen[p].tag : p \in Range(hit) \ {Free}}]]
    BY <1>4 DEF WriteMatches
  <2>3. cluster' \in [Faces -> {Unstored, Free} \cup Ids]
    <3>1. \A k \in Looks : hit[k] \in {Free} \cup Ids
      BY <2>1 DEF IsTable
    <3> QED BY <1>0, <2>2, <3>1 DEF TablesOK
  <2>4. {match[w].seen[p].tag : p \in Range(hit) \ {Free}} \subseteq 0..MaxTag
    <3>1. \A p \in Range(hit) \ {Free} : match[w].seen[p] \in Row
      BY <2>1 DEF Range, IsTable
    <3> QED BY <3>1, RowFields
  <2>5. MatchesOK'
    BY <1>0, <2>1, <2>2, <2>4, MatchKept DEF MatchOK
  <2>6. TablesOK'
    BY <1>0, <1>4, <2>3 DEF WriteMatches, TablesOK, IsTable, Rows
  <2>7. TagsOK' /\ EditOK' /\ RunsOK'
    BY <1>0, <1>4, Kept DEF WriteMatches
  <2> QED BY <1>1, <2>5, <2>6, <2>7 DEF TypeOK, TablesOK, TagsOK, RunsOK, MatchesOK
<1>5. CASE TagMatches(w)
  <2>1. match[w].file \in Files
    BY <1>0, <1>5 DEF MatchesOK, MatchOK, TagMatches
  <2>2. tagged' \subseteq Files \X DOMAIN tags
    BY <1>0, <1>5, <2>1 DEF TagMatches, TagsOK, Assign
  <2>3. TagsOK'
    BY <1>0, <1>5, <2>2 DEF TagMatches, TagsOK, tagVars
  <2>4. MatchOK(IdleRun)
    BY DEF MatchOK, IdleRun
  <2>5. MatchesOK'
    BY <1>0, <1>5, <2>4, MatchKept DEF TagMatches
  <2>6. TablesOK' /\ EditOK' /\ RunsOK'
    BY <1>0, <1>5, Kept DEF TagMatches
  <2> QED BY <1>1, <2>3, <2>5, <2>6 DEF TypeOK, TablesOK, TagsOK, RunsOK, MatchesOK
<1> QED BY <1>2, <1>3, <1>4, <1>5 DEF Extract

\* The counter after a re-clustering drew its ids: one more than the last of them.
LEMMA Drawn ==
    ASSUME NEW raw \in SUBSET Looks, NEW new \in SUBSET raw, NEW pid \in [raw -> Ids],
           nextPerson \in 1..MaxPerson + 1,
           {pid[k] : k \in new} = nextPerson..(nextPerson + Cardinality(new) - 1)
    PROVE  /\ nextPerson + Cardinality(new) \in 1..MaxPerson + 1
           /\ nextPerson <= nextPerson + Cardinality(new)
           /\ \A k \in new : pid[k] >= nextPerson /\ pid[k] < nextPerson + Cardinality(new)
<1> DEFINE n == Cardinality(new)
<1>1. n \in Nat
  BY LooksFinite, FS_Subset, FS_CardinalityType
<1> HIDE DEF n
<1>2. {pid[k] : k \in new} = nextPerson..(nextPerson + n - 1)
  BY DEF n
<1>3. \A k \in new : pid[k] \in nextPerson..(nextPerson + n - 1)
  BY <1>2
<1>4. nextPerson + n \in 1..MaxPerson + 1
  <2>1. CASE n = 0
    BY <2>1, BoundsNat
  <2>2. CASE n > 0
    <3>1. nextPerson + n - 1 \in nextPerson..(nextPerson + n - 1)
      BY <1>1, <2>2
    <3>2. PICK k \in new : pid[k] = nextPerson + n - 1
      BY <1>2, <3>1
    <3>3. nextPerson + n - 1 \in 1..MaxPerson
      BY <3>2
    <3> QED BY <1>1, <3>3, BoundsNat
  <2> QED BY <1>1, <2>1, <2>2
<1> QED BY <1>1, <1>3, <1>4, BoundsNat DEF n

LEMMA PhaseOK ==
    ASSUME NEW c, RunOK(run[c]), run[c].pc # "idle", NEW pc \in {"write", "tag", "upsert", "prune"},
           NEW seen, IsTable(seen), NEW pid \in [DOMAIN run[c].files -> Ids],
           NEW todo \in SUBSET DOMAIN run[c].files, NEW hand \in SUBSET DOMAIN run[c].files,
           NEW tag \in 0..MaxTag
    PROVE  RunOK(Phase(c, pc, seen, pid, todo, hand, tag))
BY DEF RunOK, Phase

LEMMA GoesToOK ==
    ASSUME RunsOK, NEW c \in Clusterers, run[c].pc \notin {"idle", "reconcile"},
           NEW pc \in {"write", "tag", "upsert", "prune"},
           NEW todo \in SUBSET DOMAIN run[c].files, NEW hand \in SUBSET DOMAIN run[c].files,
           NEW tag \in 0..MaxTag, GoesTo(c, pc, todo, hand, tag),
           loaded' \in [Clusterers -> SUBSET Faces]
    PROVE  RunsOK'
<1>1. RunOK(run[c])
  BY DEF RunsOK
<1>2. RunOK(Phase(c, pc, run[c].seen, run[c].pid, todo, hand, tag))
  BY <1>1, PhaseOK DEF RunOK
<1> QED BY <1>2, RunKept DEF GoesTo

LEMMA PairsTyped ==
    ASSUME NEW S \in SUBSET Files, NEW D, NEW t \in D
    PROVE  S \X {t} \subseteq Files \X D
OBVIOUS

LEMMA LoadTypes ==
    ASSUME TypeOK, NEW c \in Clusterers, LoadEmbeddings(c)
    PROVE  TypeOK'
<1>0. TablesOK /\ TagsOK /\ EditOK /\ RunsOK /\ MatchesOK /\ calm \in Clusterers \cup {"ui", Nobody}
  BY Parts
<1>1. calm' \in Clusterers \cup {"ui", Nobody}
  BY <1>0, CalmKept DEF LoadEmbeddings
<1> DEFINE raw == {k \in Looks : Cardinality({f \in Stored : f[2] = k}) >= MinSamples}
           files == [k \in raw |-> FilesOf({f \in Stored : f[2] = k})]
<1>2. RunOK([pc |-> "reconcile", files |-> files])
  <2>1. \A k : FilesOf({f \in Stored : f[2] = k}) \in SUBSET Files
    BY DEF FilesOf, Stored, Faces
  <2> QED BY <2>1 DEF RunOK
<1>3. RunsOK'
  <2>1. Stored \in SUBSET Faces
    BY DEF Stored
  <2> QED BY <1>0, <1>2, <2>1, RunKept DEF LoadEmbeddings, RunsOK
<1>4. TablesOK' /\ TagsOK' /\ EditOK' /\ MatchesOK'
  BY <1>0, Kept DEF LoadEmbeddings
<1> QED BY <1>1, <1>3, <1>4 DEF TypeOK, TablesOK, TagsOK, RunsOK, MatchesOK

LEMMA ReconcileTypes ==
    ASSUME TypeOK, NEW c \in Clusterers, Reconcile(c)
    PROVE  TypeOK'
<1>0. TablesOK /\ TagsOK /\ EditOK /\ RunsOK /\ MatchesOK /\ calm \in Clusterers \cup {"ui", Nobody}
  BY Parts
<1>1. calm' \in Clusterers \cup {"ui", Nobody}
  BY <1>0, CalmKept DEF Reconcile
<1> DEFINE raw == DOMAIN run[c].files
<1>2. PICK old \in [raw -> Rows \cup {Free}], pid \in [raw -> Ids] :
        LET new == {k \in raw : old[k] = Free}
            last == nextPerson + Cardinality(new) - 1 IN
        /\ {pid[k] : k \in new} = nextPerson..last
        /\ nextPerson' = last + 1
        /\ run' = [run EXCEPT ![c] = Phase(c, "write", persons, pid, raw, {}, None)]
  BY DEF Reconcile
<1>3. RunOK(run[c]) /\ raw \in SUBSET Looks /\ run[c].pc = "reconcile"
  BY <1>0 DEF RunsOK, RunOK, Reconcile
<1>4. RunOK(Phase(c, "write", persons, pid, raw, {}, None))
  BY <1>0, <1>3, PhaseOK, BoundsNat DEF TablesOK, None
<1>5. RunsOK'
  BY <1>0, <1>2, <1>4, RunKept DEF Reconcile, RunsOK
<1>6. nextPerson' \in 1..MaxPerson + 1
  <2> DEFINE new == {k \in raw : old[k] = Free}
  <2>1. nextPerson + Cardinality(new) \in 1..MaxPerson + 1
    BY <1>0, <1>2, <1>3, Drawn DEF TablesOK
  <2>2. Cardinality(new) \in Nat
    BY <1>3, LooksFinite, FS_Subset, FS_CardinalityType
  <2>3. nextPerson' = nextPerson + Cardinality(new) - 1 + 1
    BY <1>2
  <2> QED BY <1>0, <2>1, <2>2, <2>3 DEF TablesOK
<1>7. TablesOK'
  BY <1>0, <1>6 DEF Reconcile, TablesOK, IsTable, Rows
<1>8. TagsOK' /\ EditOK' /\ MatchesOK'
  BY <1>0, Kept DEF Reconcile
<1> QED BY <1>1, <1>5, <1>7, <1>8 DEF TypeOK, TablesOK, TagsOK, RunsOK, MatchesOK

LEMMA WriteTypes ==
    ASSUME TypeOK, NEW c \in Clusterers, WriteClusters(c)
    PROVE  TypeOK'
<1>0. TablesOK /\ TagsOK /\ EditOK /\ RunsOK /\ MatchesOK /\ calm \in Clusterers \cup {"ui", Nobody}
  BY Parts
<1>1. calm' \in Clusterers \cup {"ui", Nobody}
  BY <1>0, CalmKept DEF WriteClusters
<1>2. RunOK(run[c])
  BY <1>0 DEF RunsOK
<1>3. RunsOK'
  <2>1. run[c].todo \in SUBSET DOMAIN run[c].files /\ run[c].pc \notin {"idle", "reconcile"}
    BY <1>2 DEF WriteClusters, RunOK
  <2>2. loaded' \in [Clusterers -> SUBSET Faces]
    BY <1>0 DEF WriteClusters, RunsOK
  <2> QED BY <1>0, <2>1, <2>2, GoesToOK, BoundsNat DEF WriteClusters, None
<1>4. TablesOK'
  <2>1. \A f \in Faces : Clustered(c, f) \in {Free} \cup Ids
    BY <1>2 DEF RunOK, Clustered, WriteClusters
  <2>2. cluster' \in [Faces -> {Unstored, Free} \cup Ids]
    BY <2>1 DEF WriteClusters
  <2> QED BY <1>0, <2>2 DEF WriteClusters, TablesOK, IsTable, Rows
<1>5. TagsOK' /\ EditOK' /\ MatchesOK'
  BY <1>0, Kept DEF WriteClusters
<1> QED BY <1>1, <1>3, <1>4, <1>5 DEF TypeOK, TablesOK, TagsOK, RunsOK, MatchesOK

\* What a re-clustering believes of a person is a row.
LEMMA KnownType ==
    ASSUME NEW c \in Clusterers, RunOK(run[c]), run[c].pc \notin {"idle", "reconcile"}, NEW p
    PROVE  Known(c, p) \in Row
<1>1. NewPerson(None) \in Row
  BY NewInRow, BoundsNat DEF None
<1> QED BY <1>1 DEF Known, RunOK, IsTable

LEMMA TagTypes ==
    ASSUME TypeOK, NEW c \in Clusterers, NEW k \in Looks, TagCluster(c, k)
    PROVE  TypeOK'
<1>0. TablesOK /\ TagsOK /\ EditOK /\ RunsOK /\ MatchesOK /\ calm \in Clusterers \cup {"ui", Nobody}
  BY Parts
<1>1. calm' \in Clusterers \cup {"ui", Nobody}
  BY <1>0, CalmKept DEF TagCluster
<1> DEFINE p == run[c].pid[k]
           was == Known(c, p)
<1>2. /\ RunOK(run[c]) /\ run[c].pc = "tag" /\ k \in DOMAIN run[c].files
      /\ run[c].todo \ {k} \in SUBSET DOMAIN run[c].files
  BY <1>0 DEF RunsOK, TagCluster, RunOK
<1>3. p \in Ids /\ run[c].files[k] \in SUBSET Files /\ was \in Row
  BY <1>2, KnownType DEF RunOK
<1>4. PICK u \in 0..MaxTag :
        /\ IF was.ignored THEN u = None /\ UNCHANGED <<tagVars, tagged>>
           ELSE /\ EnsurePersonTag(p, was.name, was.tag, u)
                /\ tagged' = tagged \cup (run[c].files[k] \X {u})
        /\ GoesTo(c, "upsert", run[c].todo \ {k}, {k}, u)
  BY DEF TagCluster
<1>5. TagsOK'
  <2>1. CASE was.ignored
    BY <1>0, <1>4, <2>1, Kept
  <2>2. CASE ~was.ignored
    <3>1. was.name \in Names \cup {NoName}
      BY <1>3, RowFields
    <3>2. EnsurePersonTag(p, was.name, was.tag, u) /\ tagged' = tagged \cup (run[c].files[k] \X {u})
      BY <1>4, <2>2
    <3>3. /\ DOMAIN tags' \subseteq 1..nextTag' - 1 /\ tags' \in [DOMAIN tags' -> Names \cup Ids]
          /\ nextTag' \in 1..MaxTag + 1
          /\ DOMAIN tags \subseteq DOMAIN tags' /\ u \in DOMAIN tags'
      BY <1>0, <1>3, <3>1, <3>2, EnsuredTag
    <3>4. tagged' \subseteq Files \X DOMAIN tags'
      BY <1>0, <1>3, <3>2, <3>3, PairsTyped DEF TagsOK
    <3> QED BY <3>3, <3>4 DEF TagsOK
  <2> QED BY <2>1, <2>2
<1>6. RunsOK'
  <2>1. loaded' \in [Clusterers -> SUBSET Faces]
    BY <1>0 DEF TagCluster, RunsOK
  <2> QED BY <1>0, <1>2, <1>4, <2>1, GoesToOK
<1>7. TablesOK' /\ EditOK' /\ MatchesOK'
  BY <1>0, Kept DEF TagCluster
<1> QED BY <1>1, <1>5, <1>6, <1>7 DEF TypeOK, TablesOK, TagsOK, RunsOK, MatchesOK

LEMMA UpsertTypes ==
    ASSUME TypeOK, NEW c \in Clusterers, NEW k \in Looks, UpsertPerson(c, k)
    PROVE  TypeOK'
<1>0. TablesOK /\ TagsOK /\ EditOK /\ RunsOK /\ MatchesOK /\ calm \in Clusterers \cup {"ui", Nobody}
  BY Parts
<1>1. calm' \in Clusterers \cup {"ui", Nobody}
  BY <1>0, CalmKept DEF UpsertPerson
<1> DEFINE p == run[c].pid[k]
           was == Known(c, p)
           row == Person(was.name, run[c].tag, was.ignored, {k})
<1>2. /\ RunOK(run[c]) /\ run[c].pc = "upsert" /\ k \in DOMAIN run[c].files
      /\ run[c].todo \in SUBSET DOMAIN run[c].files /\ run[c].tag \in 0..MaxTag
  BY <1>0 DEF RunsOK, UpsertPerson, RunOK
<1>3. p \in Ids /\ was \in Row
  BY <1>2, KnownType DEF RunOK
<1>4. row \in Row
  BY <1>2, <1>3, RowFields, PersonInRow
<1>5. persons' = Put(persons, p, row)
  BY DEF UpsertPerson
<1>6. IsTable(persons')
  BY <1>0, <1>3, <1>4, <1>5, PutTable DEF TablesOK
<1>7. TablesOK'
  BY <1>0, <1>6 DEF UpsertPerson, TablesOK, IsTable
<1>8. RunsOK'
  <2>1. loaded' \in [Clusterers -> SUBSET Faces]
    BY <1>0 DEF UpsertPerson, RunsOK
  <2>2. PICK pc \in {"prune", "tag"} : GoesTo(c, pc, run[c].todo, {}, None)
    BY DEF UpsertPerson
  <2> QED BY <1>0, <1>2, <2>1, <2>2, GoesToOK, BoundsNat DEF None
<1>9. TagsOK' /\ EditOK' /\ MatchesOK'
  BY <1>0, Kept DEF UpsertPerson
<1> QED BY <1>1, <1>7, <1>8, <1>9 DEF TypeOK, TablesOK, TagsOK, RunsOK, MatchesOK

LEMMA PruneTypes ==
    ASSUME TypeOK, NEW c \in Clusterers, PruneEmptyPersons(c)
    PROVE  TypeOK'
<1>0. TablesOK /\ TagsOK /\ EditOK /\ RunsOK /\ MatchesOK /\ calm \in Clusterers \cup {"ui", Nobody}
  BY Parts
<1>1. calm' \in Clusterers \cup {"ui", Nobody}
  BY <1>0, CalmKept DEF PruneEmptyPersons
<1>2. IsTable(persons')
  BY <1>0, RestrictTable DEF PruneEmptyPersons, TablesOK, Rows
<1>3. TablesOK'
  BY <1>0, <1>2 DEF PruneEmptyPersons, TablesOK, IsTable
<1>4. RunsOK'
  <2>1. RunOK(IdleRun)
    BY DEF RunOK, IdleRun
  <2>2. loaded' \in [Clusterers -> SUBSET Faces]
    BY <1>0 DEF PruneEmptyPersons, RunsOK
  <2> QED BY <1>0, <2>1, <2>2, RunKept DEF PruneEmptyPersons
<1>5. TagsOK' /\ EditOK' /\ MatchesOK'
  BY <1>0, Kept DEF PruneEmptyPersons
<1> QED BY <1>1, <1>3, <1>4, <1>5 DEF TypeOK, TablesOK, TagsOK, RunsOK, MatchesOK

\* The persons of a table of rows of which one is rewritten.
LEMMA RewrittenTable ==
    ASSUME IsTable(persons), NEW x, NEW r,
           x \in Rows => r \in Row
    PROVE  IsTable([p \in Rows |-> IF p = x THEN r ELSE persons[p]])
BY DEF IsTable, Rows

LEMMA NameTypes ==
    ASSUME TypeOK, NEW p \in Ids, NEW name \in Names \cup {NoName}, StartName(p, name)
    PROVE  TypeOK'
<1>0. TablesOK /\ TagsOK /\ EditOK /\ RunsOK /\ MatchesOK /\ calm \in Clusterers \cup {"ui", Nobody}
  BY Parts
<1>1. calm' \in Clusterers \cup {"ui", Nobody}
  BY <1>0, CalmKept DEF StartName
<1>2. PICK u \in 1..MaxTag :
        /\ EnsurePersonTag(p, name, persons[p].tag, u)
        /\ ui' = [op |-> "name", p |-> p, name |-> name, old |-> persons[p].tag, tag |-> u]
  BY DEF StartName
<1>3. TagsOK'
  <2>1. /\ DOMAIN tags' \subseteq 1..nextTag' - 1 /\ tags' \in [DOMAIN tags' -> Names \cup Ids]
        /\ nextTag' \in 1..MaxTag + 1 /\ DOMAIN tags \subseteq DOMAIN tags'
    BY <1>0, <1>2, EnsuredTag, BoundsNat
  <2> QED BY <1>0, <2>1 DEF StartName, TagsOK
<1>4. EditOK'
  <2>1. persons[p] \in Row
    BY <1>0 DEF TablesOK, IsTable, StartName, Rows
  <2> QED BY <1>2, <2>1, RowFields DEF EditOK
<1>5. TablesOK' /\ RunsOK' /\ MatchesOK'
  BY <1>0, Kept DEF StartName
<1> QED BY <1>1, <1>3, <1>4, <1>5 DEF TypeOK, TablesOK, TagsOK, RunsOK, MatchesOK

LEMMA MoveTypes ==
    ASSUME TypeOK, MoveToNamedTag
    PROVE  TypeOK'
<1>0. TablesOK /\ TagsOK /\ EditOK /\ RunsOK /\ MatchesOK /\ calm \in Clusterers \cup {"ui", Nobody}
  BY Parts
<1>1. calm' \in Clusterers \cup {"ui", Nobody}
  BY <1>0, CalmKept DEF MoveToNamedTag
<1>2. \A S \in SUBSET Files : Assign(S, ui.tag) \subseteq Files \X DOMAIN tags
  BY DEF Assign
<1>3. FilesOf(Members(ui.p)) \in SUBSET Files
  BY DEF FilesOf, Members, Faces
<1>4. TagsOK'
  <2>1. CASE ui.tag = ui.old
    BY <1>0, <2>1, Kept DEF MoveToNamedTag, tagVars
  <2> DEFINE moved == tagged \cup Assign(FilesOf(Members(ui.p)), ui.tag)
  <2>2. CASE tagged' = moved /\ tags' = tags /\ nextTag' = nextTag
    BY <1>0, <1>2, <1>3, <2>2 DEF TagsOK
  <2>3. CASE /\ tagged' = moved \ OfTag(ui.old) /\ nextTag' = nextTag
             /\ tags' = Restrict(tags, DOMAIN tags \ {ui.old})
    <3>1. moved \subseteq Files \X DOMAIN tags
      BY <1>0, <1>2, <1>3 DEF TagsOK
    <3>2. DOMAIN tags' = DOMAIN tags \ {ui.old} /\ tags' \in [DOMAIN tags' -> Names \cup Ids]
      BY <1>0, <2>3 DEF Restrict, TagsOK
    <3>3. tagged' \subseteq Files \X DOMAIN tags'
      BY <2>3, <3>1, <3>2 DEF OfTag
    <3> QED BY <1>0, <2>3, <3>2, <3>3 DEF TagsOK
  <2> QED BY <2>1, <2>2, <2>3 DEF MoveToNamedTag
<1>5. EditOK'
  BY <1>0 DEF MoveToNamedTag, EditOK
<1>6. TablesOK' /\ RunsOK' /\ MatchesOK'
  BY <1>0, Kept DEF MoveToNamedTag
<1> QED BY <1>1, <1>4, <1>5, <1>6 DEF TypeOK, TablesOK, TagsOK, RunsOK, MatchesOK

LEMMA SetNameTypes ==
    ASSUME TypeOK, SetPersonName
    PROVE  TypeOK'
<1>0. TablesOK /\ TagsOK /\ EditOK /\ RunsOK /\ MatchesOK /\ calm \in Clusterers \cup {"ui", Nobody}
  BY Parts
<1>1. calm' \in Clusterers \cup {"ui", Nobody}
  BY <1>0, CalmKept DEF SetPersonName
<1>2. ui.name \in Names \cup {NoName} /\ ui.tag \in 0..MaxTag
  BY <1>0, BoundsNat DEF EditOK, SetPersonName
<1>3. \A p \in Rows : persons[p] \in Row
  BY <1>0 DEF TablesOK, IsTable, Rows
<1>4. \A p \in Rows : Person(ui.name, ui.tag, persons[p].ignored, persons[p].look) \in Row
  BY <1>2, <1>3, RowFields, PersonInRow
<1>5. IsTable(persons')
  BY <1>3, <1>4, <1>0 DEF SetPersonName, TablesOK, IsTable, Rows
<1>6. TablesOK'
  BY <1>0, <1>5 DEF SetPersonName, TablesOK, IsTable
<1>7. EditOK'
  BY DEF SetPersonName, EditOK, Idle
<1>8. TagsOK' /\ RunsOK' /\ MatchesOK'
  BY <1>0, Kept DEF SetPersonName
<1> QED BY <1>1, <1>6, <1>7, <1>8 DEF TypeOK, TablesOK, TagsOK, RunsOK, MatchesOK

LEMMA StartMergeTypes ==
    ASSUME TypeOK, NEW p \in Ids, NEW q \in Ids, StartMerge(p, q)
    PROVE  TypeOK'
<1>0. TablesOK /\ TagsOK /\ EditOK /\ RunsOK /\ MatchesOK /\ calm \in Clusterers \cup {"ui", Nobody}
  BY Parts
<1>1. calm' \in Clusterers \cup {"ui", Nobody}
  BY <1>0, CalmKept DEF StartMerge
<1>2. TablesOK'
  BY <1>0 DEF StartMerge, TablesOK, IsTable, Rows
<1>3. EditOK'
  <2>1. FilesOf(Members(p)) \in SUBSET Files
    BY DEF FilesOf, Members, Faces
  <2>2. persons[p] \in Row /\ persons[q] \in Row
    BY <1>0 DEF TablesOK, IsTable, StartMerge, Rows
  <2> QED BY <2>1, <2>2, RowFields DEF StartMerge, EditOK
<1>4. TagsOK' /\ RunsOK' /\ MatchesOK'
  BY <1>0, Kept DEF StartMerge
<1> QED BY <1>1, <1>2, <1>3, <1>4 DEF TypeOK, TablesOK, TagsOK, RunsOK, MatchesOK

LEMMA MergeTagsTypes ==
    ASSUME TypeOK, MergeTags
    PROVE  TypeOK'
<1>0. TablesOK /\ TagsOK /\ EditOK /\ RunsOK /\ MatchesOK /\ calm \in Clusterers \cup {"ui", Nobody}
  BY Parts
<1>1. calm' \in Clusterers \cup {"ui", Nobody}
  BY <1>0, CalmKept DEF MergeTags
<1>2. TagsOK'
  <2>1. ui.files \in SUBSET Files
    BY <1>0 DEF EditOK, MergeTags
  <2>2. tagged \cup Assign(ui.files, ui.tag) \subseteq Files \X DOMAIN tags
    BY <1>0, <2>1 DEF Assign, TagsOK
  <2>3. DOMAIN tags' = DOMAIN tags \ {ui.old} /\ tags' \in [DOMAIN tags' -> Names \cup Ids]
    BY <1>0 DEF MergeTags, Restrict, TagsOK
  <2>4. tagged' \subseteq Files \X DOMAIN tags'
    BY <2>2, <2>3 DEF MergeTags, OfTag
  <2> QED BY <1>0, <2>3, <2>4 DEF TagsOK, MergeTags
<1>3. EditOK'
  BY <1>0 DEF MergeTags, EditOK
<1>4. TablesOK' /\ RunsOK' /\ MatchesOK'
  BY <1>0, Kept DEF MergeTags
<1> QED BY <1>1, <1>2, <1>3, <1>4 DEF TypeOK, TablesOK, TagsOK, RunsOK, MatchesOK

LEMMA MergeRowsTypes ==
    ASSUME TypeOK, MergeRows
    PROVE  TypeOK'
<1>0. TablesOK /\ TagsOK /\ EditOK /\ RunsOK /\ MatchesOK /\ calm \in Clusterers \cup {"ui", Nobody}
  BY Parts
<1>1. calm' \in Clusterers \cup {"ui", Nobody}
  BY <1>0, CalmKept DEF MergeRows
<1>2. IsTable(Restrict(persons, Rows \ {ui.p}))
  BY <1>0, RestrictTable DEF TablesOK, Rows
<1>3. IsTable(persons')
  BY <1>2, RecomputedTable DEF MergeRows
<1>4. TablesOK'
  BY <1>0, <1>3 DEF MergeRows, TablesOK, IsTable
<1>5. EditOK'
  BY DEF MergeRows, EditOK, Idle
<1>6. TagsOK' /\ RunsOK' /\ MatchesOK'
  BY <1>0, Kept DEF MergeRows
<1> QED BY <1>1, <1>4, <1>5, <1>6 DEF TypeOK, TablesOK, TagsOK, RunsOK, MatchesOK

LEMMA StartSplitTypes ==
    ASSUME TypeOK, NEW p \in Ids, NEW faces \in SUBSET Members(p), StartSplit(p, faces)
    PROVE  TypeOK'
<1>0. TablesOK /\ TagsOK /\ EditOK /\ RunsOK /\ MatchesOK /\ calm \in Clusterers \cup {"ui", Nobody}
  BY Parts
<1>1. calm' \in Clusterers \cup {"ui", Nobody}
  BY <1>0, CalmKept DEF StartSplit
<1>2. nextPerson \in Ids
  BY <1>0, BoundsNat DEF StartSplit, TablesOK
<1>3. TablesOK'
  <2>1. cluster' \in [Faces -> {Unstored, Free} \cup Ids]
    BY <1>0, <1>2 DEF StartSplit, TablesOK
  <2>2. nextPerson' \in 1..MaxPerson + 1
    BY <1>2, BoundsNat DEF StartSplit
  <2> QED BY <1>0, <2>1, <2>2 DEF StartSplit, TablesOK, IsTable
<1>4. EditOK'
  <2>1. FilesOf(faces) \in SUBSET Files
    BY DEF FilesOf, Members, Faces
  <2>2. persons[p] \in Row
    BY <1>0 DEF TablesOK, IsTable, StartSplit, Rows
  <2> QED BY <1>2, <2>1, <2>2, RowFields DEF StartSplit, EditOK
<1>5. TagsOK' /\ RunsOK' /\ MatchesOK'
  BY <1>0, Kept DEF StartSplit
<1> QED BY <1>1, <1>3, <1>4, <1>5 DEF TypeOK, TablesOK, TagsOK, RunsOK, MatchesOK

LEMMA SplitTagsTypes ==
    ASSUME TypeOK, SplitTags
    PROVE  TypeOK'
<1>0. TablesOK /\ TagsOK /\ EditOK /\ RunsOK /\ MatchesOK /\ calm \in Clusterers \cup {"ui", Nobody}
  BY Parts
<1>1. calm' \in Clusterers \cup {"ui", Nobody}
  BY <1>0, CalmKept DEF SplitTags
<1>2. ui.files \in SUBSET Files /\ ui.q \in Ids /\ ui.p \in Ids
  BY <1>0 DEF EditOK, SplitTags
<1>3. PICK u \in 1..MaxTag :
        /\ EnsurePersonTag(ui.q, NoName, None, u)
        /\ tagged' \subseteq tagged \cup (ui.files \X {u})
        /\ ui' = [op |-> "splitted", p |-> ui.p, q |-> ui.q, tag |-> u]
  BY DEF SplitTags
<1>4. TagsOK'
  <2>1. /\ DOMAIN tags' \subseteq 1..nextTag' - 1 /\ tags' \in [DOMAIN tags' -> Names \cup Ids]
        /\ nextTag' \in 1..MaxTag + 1 /\ DOMAIN tags \subseteq DOMAIN tags' /\ u \in DOMAIN tags'
    <3>1. NoName \in Names \cup {NoName} /\ u \in 0..MaxTag
      BY BoundsNat
    <3> QED BY <1>0, <1>2, <1>3, <3>1, EnsuredTag
  <2>2. ui.files \X {u} \subseteq Files \X DOMAIN tags'
    BY <1>2, <2>1, PairsTyped
  <2>3. tagged \subseteq Files \X DOMAIN tags'
    BY <1>0, <2>1 DEF TagsOK
  <2>4. tagged' \subseteq Files \X DOMAIN tags'
    BY <1>3, <2>2, <2>3
  <2> QED BY <2>1, <2>4 DEF TagsOK
<1>5. EditOK'
  BY <1>2, <1>3 DEF EditOK
<1>6. TablesOK' /\ RunsOK' /\ MatchesOK'
  BY <1>0, Kept DEF SplitTags
<1> QED BY <1>1, <1>4, <1>5, <1>6 DEF TypeOK, TablesOK, TagsOK, RunsOK, MatchesOK

LEMMA SplitRowsTypes ==
    ASSUME TypeOK, SplitRows
    PROVE  TypeOK'
<1>0. TablesOK /\ TagsOK /\ EditOK /\ RunsOK /\ MatchesOK /\ calm \in Clusterers \cup {"ui", Nobody}
  BY Parts
<1>1. calm' \in Clusterers \cup {"ui", Nobody}
  BY <1>0, CalmKept DEF SplitRows
<1>2. ui.tag \in 0..MaxTag /\ ui.q \in Ids
  BY <1>0, BoundsNat DEF EditOK, SplitRows
<1>3. NewPerson(ui.tag) \in Row
  BY <1>2, NewInRow
<1>4. IsTable(Put(persons, ui.q, NewPerson(ui.tag)))
  BY <1>0, <1>2, <1>3, PutTable DEF TablesOK
<1>5. IsTable(persons')
  BY <1>4, RecomputedTable DEF SplitRows
<1>6. TablesOK'
  BY <1>0, <1>5 DEF SplitRows, TablesOK, IsTable
<1>7. EditOK'
  BY DEF SplitRows, EditOK, Idle
<1>8. TagsOK' /\ RunsOK' /\ MatchesOK'
  BY <1>0, Kept DEF SplitRows
<1> QED BY <1>1, <1>6, <1>7, <1>8 DEF TypeOK, TablesOK, TagsOK, RunsOK, MatchesOK

LEMMA StartIgnoreTypes ==
    ASSUME TypeOK, NEW p \in Ids, NEW b \in BOOLEAN, StartIgnore(p, b)
    PROVE  TypeOK'
<1>0. TablesOK /\ TagsOK /\ EditOK /\ RunsOK /\ MatchesOK /\ calm \in Clusterers \cup {"ui", Nobody}
  BY Parts
<1>1. calm' \in Clusterers \cup {"ui", Nobody}
  BY <1>0, CalmKept DEF StartIgnore
<1>2. TagsOK'
  <2>1. tagged' \subseteq tagged
    BY DEF StartIgnore
  <2> QED BY <1>0, <2>1 DEF StartIgnore, TagsOK, tagVars
<1>3. EditOK'
  BY DEF StartIgnore, EditOK
<1>4. TablesOK' /\ RunsOK' /\ MatchesOK'
  BY <1>0, Kept DEF StartIgnore
<1> QED BY <1>1, <1>2, <1>3, <1>4 DEF TypeOK, TablesOK, TagsOK, RunsOK, MatchesOK

LEMMA SetIgnoredTypes ==
    ASSUME TypeOK, SetIgnored
    PROVE  TypeOK'
<1>0. TablesOK /\ TagsOK /\ EditOK /\ RunsOK /\ MatchesOK /\ calm \in Clusterers \cup {"ui", Nobody}
  BY Parts
<1>1. calm' \in Clusterers \cup {"ui", Nobody}
  BY <1>0, CalmKept DEF SetIgnored
<1>2. ui.ignored \in BOOLEAN
  BY <1>0 DEF EditOK, SetIgnored
<1>3. \A p \in Rows : persons[p] \in Row
  BY <1>0 DEF TablesOK, IsTable, Rows
<1>4. \A p \in Rows : Person(persons[p].name, persons[p].tag, ui.ignored, persons[p].look) \in Row
  BY <1>2, <1>3, RowFields, PersonInRow
<1>5. IsTable(persons')
  BY <1>3, <1>4, <1>0 DEF SetIgnored, TablesOK, IsTable, Rows
<1>6. TablesOK'
  BY <1>0, <1>5 DEF SetIgnored, TablesOK, IsTable
<1>7. EditOK'
  BY DEF SetIgnored, EditOK, Idle
<1>8. TagsOK' /\ RunsOK' /\ MatchesOK'
  BY <1>0, Kept DEF SetIgnored
<1> QED BY <1>1, <1>6, <1>7, <1>8 DEF TypeOK, TablesOK, TagsOK, RunsOK, MatchesOK

LEMMA InitTypes == Init => TypeOK
<1> SUFFICES ASSUME Init PROVE TypeOK
  OBVIOUS
<1>1. IsTable(persons) /\ DOMAIN tags = {} /\ tags \in [DOMAIN tags -> Names \cup Ids]
  BY DEF Init, IsTable, Empty
<1>2. RunOK(IdleRun) /\ MatchOK(IdleRun)
  BY DEF RunOK, MatchOK, IdleRun
<1>3. EditOK
  BY DEF Init, EditOK, Idle
<1> QED BY <1>1, <1>2, <1>3, BoundsNat DEF Init, TypeOK

LEMMA NextTypes == TypeOK /\ [Next]_vars => TypeOK'
<1> SUFFICES ASSUME TypeOK, [Next]_vars PROVE TypeOK'
  OBVIOUS
<1>1. CASE Review
  BY <1>1, NameTypes, MoveTypes, SetNameTypes, StartMergeTypes, MergeTagsTypes, MergeRowsTypes,
     StartSplitTypes, SplitTagsTypes, SplitRowsTypes, StartIgnoreTypes, SetIgnoredTypes DEF Review
<1>2. CASE \E c \in Clusterers : Recluster(c)
  BY <1>2, LoadTypes, ReconcileTypes, WriteTypes, TagTypes, UpsertTypes, PruneTypes DEF Recluster
<1>3. CASE \E w \in Workers : Extract(w)
  BY <1>3, ExtractTypes
<1>4. CASE UNCHANGED vars
  <2>1. TablesOK' /\ TagsOK' /\ EditOK' /\ RunsOK' /\ MatchesOK' /\ calm' = calm
    BY <1>4, Kept, Parts DEF vars, tables, tagVars, runVars
  <2> QED BY <2>1, Parts DEF TypeOK, TablesOK, TagsOK, RunsOK, MatchesOK
<1> QED BY <1>1, <1>2, <1>3, <1>4 DEF Next

\* extract_faces, cluster_and_tag and the edits keep the tables, the tags and
\* their own locals in shape.
THEOREM TypeCorrect == Spec => []TypeOK
BY InitTypes, NextTypes, PTL DEF Spec

---------------------------------------------------------------------------
(* Where ids come from.  Five kinds of user: rows, faces, re-clusterings,    *)
(* workers and the edit in progress.                                        *)

RowsIn(S) == Rows \subseteq S
FacesIn(S) == \A f \in Faces : cluster[f] \in S \cup {Unstored, Free}
RunIn(r, S) == r.pc \notin {"idle", "reconcile"} =>
    /\ \A k \in DOMAIN r.pid : r.pid[k] \in S
    /\ DOMAIN r.seen \subseteq S
RunsIn(S) == \A c \in Clusterers : RunIn(run[c], S)
MatchesIn(S) == \A w \in Workers : match[w].pc = "write" => DOMAIN match[w].seen \subseteq S
EditIn(S) ==
    /\ ui.op # "idle" => ui.p \in S
    /\ ui.op \in {"merge", "merged", "split", "splitted"} => ui.q \in S
UsedIn(S) == RowsIn(S) /\ FacesIn(S) /\ RunsIn(S) /\ MatchesIn(S) /\ EditIn(S)

UsedAreIn == \A S : UsedIn(S) <=> UsedIds \subseteq S

LEMMA UsedParts == TypeOK => UsedAreIn
<1> SUFFICES ASSUME TypeOK, NEW S PROVE UsedIn(S) <=> UsedIds \subseteq S
  BY DEF UsedAreIn
<1>1. FacesIn(S) <=> Range(cluster) \ {Unstored, Free} \subseteq S
  BY DEF FacesIn, Range, TypeOK, Unstored, Free
<1>2. EditIn(S) <=> EditIds \subseteq S
  BY DEF EditIn, EditIds
<1> DEFINE byRuns == UNION {RunIds(run[c]) : c \in Clusterers}
           byMatches == UNION {MatchIds(match[w]) : w \in Workers}
<1>3. RunsIn(S) <=> byRuns \subseteq S
  BY DEF RunsIn, RunIn, RunIds, Range
<1>4. MatchesIn(S) <=> byMatches \subseteq S
  BY DEF MatchesIn, MatchIds
<1>5. UsedIds = Rows \cup (Range(cluster) \ {Unstored, Free}) \cup EditIds \cup byRuns \cup byMatches
  BY DEF UsedIds
<1> HIDE DEF byRuns, byMatches
<1>6. UsedIds \subseteq S <=> /\ Rows \subseteq S
                            /\ Range(cluster) \ {Unstored, Free} \subseteq S
                            /\ EditIds \subseteq S
                            /\ byRuns \subseteq S
                            /\ byMatches \subseteq S
  BY <1>5
<1> QED BY <1>1, <1>2, <1>3, <1>4, <1>6 DEF UsedIn, RowsIn

\* Users that do not change, or only become fewer.
LEMMA UsedKept ==
    ASSUME NEW S, NEW T, S \subseteq T
    PROVE  /\ RowsIn(S) /\ Rows' \subseteq Rows => RowsIn(T)'
           /\ FacesIn(S) /\ UNCHANGED cluster => FacesIn(T)'
           /\ RunsIn(S) /\ UNCHANGED run => RunsIn(T)'
           /\ MatchesIn(S) /\ UNCHANGED match => MatchesIn(T)'
           /\ EditIn(S) /\ UNCHANGED ui => EditIn(T)'
<1>1. RowsIn(S) /\ Rows' \subseteq Rows => RowsIn(T)'
  BY DEF RowsIn
<1>2. FacesIn(S) /\ UNCHANGED cluster => FacesIn(T)'
  BY DEF FacesIn
<1>3. RunsIn(S) /\ UNCHANGED run => RunsIn(T)'
  BY DEF RunsIn, RunIn
<1>4. MatchesIn(S) /\ UNCHANGED match => MatchesIn(T)'
  BY DEF MatchesIn
<1>5. EditIn(S) /\ UNCHANGED ui => EditIn(T)'
  BY DEF EditIn
<1> QED BY <1>1, <1>2, <1>3, <1>4, <1>5

LEMMA RecomputedRows == \A t, p : DOMAIN Recomputed(t, p) = DOMAIN t
BY DEF Recomputed

LEMMA UsedExtract ==
    ASSUME TypeOK, NEW S, NEW T, S \subseteq T, UsedIn(S), NEW w \in Workers, Extract(w)
    PROVE  UsedIn(T)' /\ nextPerson' = nextPerson
<1>1. nextPerson' = nextPerson /\ persons' = persons /\ ui' = ui /\ run' = run
  BY DEF Extract, ExtractRows, LoadPersonCentroids, WriteMatches, TagMatches, tables, runVars
<1>3. RowsIn(T)' /\ RunsIn(T)' /\ EditIn(T)'
  BY <1>1, UsedKept DEF UsedIn, Rows
<1>4. FacesIn(T)' /\ MatchesIn(T)'
  <2>1. ASSUME NEW x \in Files, NEW looks \in SUBSET Looks, ExtractRows(w, x, looks)
        PROVE  FacesIn(T)' /\ MatchesIn(T)'
    <3>1. FacesIn(T)'
      BY <2>1 DEF ExtractRows, FacesIn, UsedIn
    <3>2. MatchesIn(T)'
      BY <2>1 DEF ExtractRows, MatchesIn, UsedIn, TypeOK, IdleRun
    <3> QED BY <3>1, <3>2
  <2>2. CASE LoadPersonCentroids(w)
    <3>1. cluster' = cluster
      BY <2>2 DEF LoadPersonCentroids, tables
    <3> DEFINE seen == [p \in {q \in Rows : ~persons[q].ignored /\ persons[q].look # {}} |-> persons[p]]
    <3>2. DOMAIN seen \subseteq Rows
      OBVIOUS
    <3> HIDE DEF seen
    <3>3. match' = [match EXCEPT ![w] = IF DOMAIN seen = {} THEN IdleRun
                       ELSE [pc |-> "write", file |-> match[w].file, seen |-> seen]]
      BY <2>2 DEF LoadPersonCentroids, seen
    <3>4. MatchesIn(T)'
      BY <3>2, <3>3 DEF MatchesIn, RowsIn, UsedIn, TypeOK, IdleRun
    <3> QED BY <3>1, <3>4, UsedKept DEF UsedIn
  <2>3. CASE WriteMatches(w)
    <3>1. PICK hit \in [Looks -> DOMAIN match[w].seen \cup {Free}] :
            /\ cluster' = [f \in Faces |->
                 IF f \in Stored /\ f[1] = match[w].file /\ hit[f[2]] # Free THEN hit[f[2]] ELSE cluster[f]]
            /\ match' = [match EXCEPT ![w] =
                 [pc |-> "tag", file |-> match[w].file,
                  hits |-> {match[w].seen[p].tag : p \in Range(hit) \ {Free}}]]
      BY <2>3 DEF WriteMatches
    <3>2. \A f \in Faces : hit[f[2]] \in DOMAIN match[w].seen \cup {Free}
      BY DEF Faces
    <3>3. DOMAIN match[w].seen \subseteq S
      BY <2>3 DEF UsedIn, MatchesIn, WriteMatches
    <3>4. FacesIn(T)'
      BY <3>1, <3>2, <3>3 DEF FacesIn, UsedIn
    <3>5. MatchesIn(T)'
      BY <3>1 DEF MatchesIn, UsedIn, TypeOK
    <3> QED BY <3>4, <3>5
  <2>4. CASE TagMatches(w)
    <3>1. cluster' = cluster
      BY <2>4 DEF TagMatches, tables
    <3>2. MatchesIn(T)'
      BY <2>4 DEF TagMatches, MatchesIn, UsedIn, TypeOK, IdleRun
    <3> QED BY <3>1, <3>2, UsedKept DEF UsedIn
  <2> QED BY <2>1, <2>2, <2>3, <2>4 DEF Extract
<1> QED BY <1>1, <1>3, <1>4 DEF UsedIn

\* A run that goes on with the ids and the persons it has.
LEMMA UsedRunGoesOn ==
    ASSUME TypeOK, NEW S, NEW T, S \subseteq T, UsedIn(S), NEW c \in Clusterers,
           run[c].pc \notin {"idle", "reconcile"}, NEW pc, NEW todo, NEW hand, NEW tag,
           GoesTo(c, pc, todo, hand, tag)
    PROVE  RunsIn(T)'
BY DEF GoesTo, Phase, RunsIn, RunIn, UsedIn, TypeOK

LEMMA UsedRecluster ==
    ASSUME TypeOK, TypeOK', NEW S, NEW T, S \subseteq T, nextPerson..nextPerson' - 1 \subseteq T,
           UsedIn(S), NEW c \in Clusterers, Recluster(c)
    PROVE  UsedIn(T)' /\ nextPerson <= nextPerson'
<1>0. match' = match /\ ui' = ui
  BY DEF Recluster, LoadEmbeddings, Reconcile, WriteClusters, TagCluster, UpsertPerson, PruneEmptyPersons
<1>7. nextPerson' = nextPerson => nextPerson <= nextPerson'
  BY BoundsNat DEF TypeOK
<1>1. CASE LoadEmbeddings(c)
  <2>1. nextPerson' = nextPerson /\ Rows' = Rows /\ cluster' = cluster
    BY <1>1 DEF LoadEmbeddings, tables, Rows
  <2>2. RunsIn(T)'
    BY <1>1 DEF LoadEmbeddings, RunsIn, RunIn, UsedIn, TypeOK
  <2> QED BY <1>0, <1>7, <2>1, <2>2, UsedKept DEF UsedIn
<1>2. CASE Reconcile(c)
  <2> DEFINE raw == DOMAIN run[c].files
  <2>1. PICK old \in [raw -> Rows \cup {Free}], pid \in [raw -> Ids] :
          LET new == {k \in raw : old[k] = Free}
              last == nextPerson + Cardinality(new) - 1 IN
          /\ \A k \in raw \ new : pid[k] = old[k]
          /\ {pid[k] : k \in new} = nextPerson..last
          /\ nextPerson' = last + 1
          /\ run' = [run EXCEPT ![c] = Phase(c, "write", persons, pid, raw, {}, None)]
    BY <1>2 DEF Reconcile
  <2> DEFINE new == {k \in raw : old[k] = Free}
  <2>2. raw \in SUBSET Looks /\ new \in SUBSET raw /\ nextPerson \in 1..MaxPerson + 1
    BY <1>2 DEF TypeOK, RunOK, Reconcile
  <2>3. Cardinality(new) \in Nat
    BY <2>2, LooksFinite, FS_Subset, FS_CardinalityType
  <2>4. nextPerson' = nextPerson + Cardinality(new)
    BY <2>1, <2>2, <2>3
  <2>5. nextPerson <= nextPerson' /\ \A k \in new : nextPerson <= pid[k] /\ pid[k] < nextPerson'
    BY <2>1, <2>2, <2>4, Drawn
  <2>6. \A k \in new : pid[k] \in T
    <3>1. \A k \in new : pid[k] \in nextPerson..nextPerson' - 1
      BY <2>1, <2>2, <2>3, <2>4, <2>5 DEF Ids
    <3> QED BY <3>1
  <2>7. \A k \in raw : pid[k] \in T
    BY <2>1, <2>6 DEF UsedIn, RowsIn
  <2>8. RunsIn(T)'
    <3>2. ASSUME NEW d \in Clusterers, d # c
          PROVE  RunIn(run[d], T)'
      <4>1. run'[d] = run[d] /\ RunIn(run[d], S)
        BY <2>1, <3>2 DEF TypeOK, UsedIn, RunsIn
      <4> QED BY <4>1 DEF RunIn
    <3>3. run'[c] = Phase(c, "write", persons, pid, raw, {}, None)
      BY <2>1 DEF TypeOK
    <3>4. RunIn(run[c], T)'
      BY <2>7, <3>3 DEF RunIn, Phase, Rows, UsedIn, RowsIn
    <3> QED BY <3>2, <3>4 DEF RunsIn
  <2>9. Rows' = Rows /\ cluster' = cluster
    BY <1>2 DEF Reconcile, Rows
  <2> QED BY <1>0, <2>5, <2>8, <2>9, UsedKept DEF UsedIn
<1>3. CASE WriteClusters(c)
  <2>1. nextPerson' = nextPerson /\ Rows' = Rows
    BY <1>3 DEF WriteClusters, Rows
  <2>2. RunsIn(T)'
    BY <1>3, UsedRunGoesOn DEF WriteClusters
  <2>3. FacesIn(T)'
    <3>1. \A f \in Faces : Clustered(c, f) \in S \cup {Free}
      BY <1>3 DEF Clustered, UsedIn, RunsIn, RunIn, TypeOK, WriteClusters
    <3> QED BY <1>3, <3>1 DEF WriteClusters, FacesIn
  <2> QED BY <1>0, <1>7, <2>1, <2>2, <2>3, UsedKept DEF UsedIn
<1>4. ASSUME NEW k \in Looks, TagCluster(c, k)
      PROVE  UsedIn(T)' /\ nextPerson <= nextPerson'
  <2>1. nextPerson' = nextPerson /\ Rows' = Rows /\ cluster' = cluster
    BY <1>4 DEF TagCluster, tables, Rows
  <2>2. RunsIn(T)'
    BY <1>4, UsedRunGoesOn DEF TagCluster
  <2> QED BY <1>0, <1>7, <2>1, <2>2, UsedKept DEF UsedIn
<1>5. ASSUME NEW k \in Looks, UpsertPerson(c, k)
      PROVE  UsedIn(T)' /\ nextPerson <= nextPerson'
  <2>1. nextPerson' = nextPerson /\ cluster' = cluster
    BY <1>5 DEF UpsertPerson
  <2>2. RunsIn(T)'
    BY <1>5, UsedRunGoesOn DEF UpsertPerson
  <2>3. Rows' = Rows \cup {run[c].pid[k]}
    BY <1>5 DEF UpsertPerson, Put, Rows
  <2>4. run[c].pid[k] \in S
    BY <1>5 DEF UpsertPerson, UsedIn, RunsIn, RunIn, TypeOK, RunOK
  <2>5. RowsIn(T)'
    BY <2>3, <2>4 DEF RowsIn, UsedIn
  <2> QED BY <1>0, <1>7, <2>1, <2>2, <2>5, UsedKept DEF UsedIn
<1>6. CASE PruneEmptyPersons(c)
  <2>1. nextPerson' = nextPerson /\ cluster' = cluster
    BY <1>6 DEF PruneEmptyPersons
  <2>2. RunsIn(T)'
    BY <1>6 DEF PruneEmptyPersons, RunsIn, RunIn, UsedIn, TypeOK, IdleRun
  <2>3. Rows' \subseteq Rows
    BY <1>6 DEF PruneEmptyPersons, Restrict, Rows
  <2> QED BY <1>0, <1>7, <2>1, <2>2, <2>3, UsedKept DEF UsedIn
<1> QED BY <1>1, <1>2, <1>3, <1>4, <1>5, <1>6 DEF Recluster

LEMMA UsedReview ==
    ASSUME TypeOK, NEW S, NEW T, S \subseteq T, nextPerson..nextPerson' - 1 \subseteq T,
           UsedIn(S), Review
    PROVE  UsedIn(T)' /\ nextPerson <= nextPerson'
<1>0. match' = match /\ run' = run
  BY DEF Review, StartName, MoveToNamedTag, SetPersonName, StartMerge, MergeTags, MergeRows,
     StartSplit, SplitTags, SplitRows, StartIgnore, SetIgnored, runVars
<1>1. ASSUME NEW p \in Ids, NEW faces \in SUBSET Members(p), StartSplit(p, faces)
      PROVE  UsedIn(T)' /\ nextPerson <= nextPerson'
  <2>1. nextPerson' = nextPerson + 1 /\ Rows' = Rows
    BY <1>1 DEF StartSplit, Rows
  <2>2. nextPerson \in T /\ nextPerson <= nextPerson'
    BY <2>1, BoundsNat DEF TypeOK
  <2>3. FacesIn(T)'
    BY <1>1, <2>2 DEF StartSplit, FacesIn, UsedIn
  <2>4. EditIn(T)'
    BY <1>1, <2>2 DEF StartSplit, EditIn, UsedIn, RowsIn
  <2> QED BY <1>0, <2>1, <2>2, <2>3, <2>4, UsedKept DEF UsedIn
<1>2. ASSUME nextPerson' = nextPerson, RowsIn(T)', FacesIn(T)', EditIn(T)'
      PROVE  UsedIn(T)' /\ nextPerson <= nextPerson'
  <2>1. nextPerson <= nextPerson'
    BY <1>2, BoundsNat DEF TypeOK
  <2> QED BY <1>0, <1>2, <2>1, UsedKept DEF UsedIn
<1>3. /\ Rows' \subseteq Rows => RowsIn(T)'
      /\ UNCHANGED cluster => FacesIn(T)'
  BY UsedKept DEF UsedIn
<1>4. ASSUME NEW p \in Ids, NEW name \in Names \cup {NoName}, StartName(p, name)
      PROVE  UsedIn(T)' /\ nextPerson <= nextPerson'
  <2>1. EditIn(T)'
    BY <1>4 DEF StartName, EditIn, UsedIn, RowsIn
  <2> QED BY <1>2, <1>3, <1>4, <2>1 DEF StartName, tables, Rows
<1>5. CASE MoveToNamedTag
  <2>1. EditIn(T)'
    BY <1>5 DEF MoveToNamedTag, EditIn, UsedIn
  <2> QED BY <1>2, <1>3, <1>5, <2>1 DEF MoveToNamedTag, tables, Rows
<1>6. CASE SetPersonName \/ SetIgnored
  <2>1. EditIn(T)'
    BY <1>6 DEF SetPersonName, SetIgnored, EditIn, Idle
  <2> QED BY <1>2, <1>3, <1>6, <2>1 DEF SetPersonName, SetIgnored, Rows
<1>7. ASSUME NEW p \in Ids, NEW q \in Ids, StartMerge(p, q)
      PROVE  UsedIn(T)' /\ nextPerson <= nextPerson'
  <2>1. EditIn(T)'
    BY <1>7 DEF StartMerge, EditIn, UsedIn, RowsIn
  <2>2. FacesIn(T)'
    BY <1>7 DEF StartMerge, FacesIn, UsedIn, RowsIn
  <2> QED BY <1>2, <1>3, <1>7, <2>1, <2>2 DEF StartMerge, Rows
<1>8. CASE MergeTags
  <2>1. EditIn(T)'
    BY <1>8 DEF MergeTags, EditIn, UsedIn
  <2> QED BY <1>2, <1>3, <1>8, <2>1 DEF MergeTags, tables, Rows
<1>9. CASE MergeRows
  <2>1. EditIn(T)'
    BY <1>9 DEF MergeRows, EditIn, Idle
  <2>2. Rows' = Rows \ {ui.p}
    BY <1>9, RecomputedRows DEF MergeRows, Restrict, Rows
  <2> QED BY <1>2, <1>3, <1>9, <2>1, <2>2 DEF MergeRows
<1>10. CASE SplitTags
  <2>1. EditIn(T)'
    BY <1>10 DEF SplitTags, EditIn, UsedIn
  <2> QED BY <1>2, <1>3, <1>10, <2>1 DEF SplitTags, tables, Rows
<1>11. CASE SplitRows
  <2>1. Rows' = Rows \cup {ui.q}
    BY <1>11, RecomputedRows DEF SplitRows, Put, Rows
  <2>2. ui.q \in S /\ nextPerson' = nextPerson /\ cluster' = cluster
    BY <1>11 DEF SplitRows, UsedIn, EditIn
  <2>3. RowsIn(T)'
    BY <2>1, <2>2 DEF UsedIn, RowsIn
  <2>4. EditIn(T)'
    BY <1>11 DEF SplitRows, EditIn, Idle
  <2> QED BY <1>2, <1>3, <2>2, <2>3, <2>4
<1>12. ASSUME NEW p \in Ids, NEW b \in BOOLEAN, StartIgnore(p, b)
       PROVE  UsedIn(T)' /\ nextPerson <= nextPerson'
  <2>1. EditIn(T)'
    BY <1>12 DEF StartIgnore, EditIn, UsedIn, RowsIn
  <2> QED BY <1>2, <1>3, <1>12, <2>1 DEF StartIgnore, tables, Rows
<1> QED BY <1>1, <1>4, <1>5, <1>6, <1>7, <1>8, <1>9, <1>10, <1>11, <1>12 DEF Review

\* What a step brings into use it draws from the counter.
LEMMA UsedNext ==
    ASSUME TypeOK, TypeOK', [Next]_vars
    PROVE  nextPerson <= nextPerson' /\ UsedIds' \subseteq UsedIds \cup (nextPerson..nextPerson' - 1)
<1>1. PICK S : S = UsedIds
  OBVIOUS
<1>2. PICK T : T = S \cup (nextPerson..nextPerson' - 1)
  OBVIOUS
<1>3. UsedIn(S) /\ S \subseteq T /\ nextPerson..nextPerson' - 1 \subseteq T
  BY <1>1, <1>2, UsedParts DEF UsedAreIn
<1>4. UsedIn(T)' /\ nextPerson <= nextPerson'
  <2>1. CASE UNCHANGED vars
    <3>1. nextPerson <= nextPerson'
      BY <2>1, BoundsNat DEF vars, TypeOK
    <3>2. UNCHANGED <<persons, cluster, run, match, ui>>
      BY <2>1 DEF vars
    <3> QED BY <1>3, <3>1, <3>2, UsedKept DEF UsedIn, Rows
  <2>2. ASSUME NEW w \in Workers, Extract(w)
        PROVE  UsedIn(T)' /\ nextPerson <= nextPerson'
    <3>1. UsedIn(T)' /\ nextPerson' = nextPerson
      BY <1>3, <2>2, UsedExtract
    <3>2. nextPerson <= nextPerson
      BY BoundsNat DEF TypeOK
    <3> QED BY <3>1, <3>2
  <2> QED BY <1>3, <2>1, <2>2, UsedRecluster, UsedReview DEF Next
<1>5. UsedIn(T)' => UsedIds' \subseteq T
  <2>1. (TypeOK => UsedAreIn)'
    BY UsedParts, PTL
  <2> QED BY <2>1 DEF UsedAreIn
<1> QED BY <1>1, <1>2, <1>4, <1>5

\* Person ids are never handed out twice, however the review page, the
\* re-clusterings and the workers interleave: an id that comes into use is drawn
\* in that step, and the counter never goes back.
THEOREM IdsNeverReused == Spec => IdsAreNew
<1>1. TypeOK /\ TypeOK' /\ [Next]_vars =>
        [/\ nextPerson <= nextPerson'
         /\ \A p \in UsedIds' \ UsedIds : p \in nextPerson .. nextPerson' - 1]_vars
  BY UsedNext
<1> QED BY <1>1, InitTypes, NextTypes, PTL DEF Spec, IdsAreNew

\* So every id in use was drawn: it is below the counter.
IdsAreFresh == \A p \in UsedIds : p < nextPerson

FreshRows == \A p \in Rows : p < nextPerson
FreshFaces == \A f \in Faces : cluster[f] < nextPerson
FreshRun(r) == r.pc \notin {"idle", "reconcile"} =>
    /\ \A k \in DOMAIN r.pid : r.pid[k] < nextPerson
    /\ \A p \in DOMAIN r.seen : p < nextPerson
FreshRuns == \A c \in Clusterers : FreshRun(run[c])
FreshMatches == \A w \in Workers :
    match[w].pc = "write" => \A p \in DOMAIN match[w].seen : p < nextPerson
FreshEdit ==
    /\ ui.op # "idle" => ui.p < nextPerson
    /\ ui.op \in {"merge", "merged", "split", "splitted"} => ui.q < nextPerson
Fresh == FreshRows /\ FreshFaces /\ FreshRuns /\ FreshMatches /\ FreshEdit

LEMMA FreshParts == TypeOK => (Fresh <=> IdsAreFresh)
<1> SUFFICES ASSUME TypeOK PROVE Fresh <=> IdsAreFresh
  OBVIOUS
<1>1. FreshFaces <=> \A p \in Range(cluster) \ {Unstored, Free} : p < nextPerson
  BY DEF FreshFaces, Range, TypeOK, Unstored, Free
<1>2. FreshEdit <=> \A p \in EditIds : p < nextPerson
  BY DEF FreshEdit, EditIds
<1> DEFINE byRuns == UNION {RunIds(run[c]) : c \in Clusterers}
           byMatches == UNION {MatchIds(match[w]) : w \in Workers}
<1>3. FreshRuns <=> \A p \in byRuns : p < nextPerson
  BY DEF FreshRuns, FreshRun, RunIds, Range
<1>4. FreshMatches <=> \A p \in byMatches : p < nextPerson
  BY DEF FreshMatches, MatchIds
<1>5. UsedIds = Rows \cup (Range(cluster) \ {Unstored, Free}) \cup EditIds \cup byRuns \cup byMatches
  BY DEF UsedIds
<1> HIDE DEF byRuns, byMatches
<1>6. IdsAreFresh <=> /\ \A p \in Rows : p < nextPerson
                      /\ \A p \in Range(cluster) \ {Unstored, Free} : p < nextPerson
                      /\ \A p \in EditIds : p < nextPerson
                      /\ \A p \in byRuns : p < nextPerson
                      /\ \A p \in byMatches : p < nextPerson
  BY <1>5 DEF IdsAreFresh
<1> QED BY <1>1, <1>2, <1>3, <1>4, <1>6 DEF Fresh, FreshRows

LEMMA FreshNext == TypeOK /\ TypeOK' /\ Fresh /\ [Next]_vars => Fresh'
<1> SUFFICES ASSUME TypeOK, TypeOK', Fresh, [Next]_vars PROVE Fresh'
  OBVIOUS
<1>1. nextPerson \in Int /\ nextPerson' \in Int
  BY BoundsNat DEF TypeOK
<1>2. UsedIds \subseteq Int
  <2>1. UsedIn(Int)
    BY DEF UsedIn, RowsIn, FacesIn, RunsIn, RunIn, MatchesIn, EditIn, TypeOK, IsTable, RunOK,
           MatchOK, EditOK, Ids, Rows
  <2> QED BY <2>1, UsedParts DEF UsedAreIn
<1>3. \A p \in UsedIds' : p < nextPerson'
  <2>1. nextPerson <= nextPerson' /\ UsedIds' \subseteq UsedIds \cup (nextPerson..nextPerson' - 1)
    BY UsedNext
  <2>2. \A p \in UsedIds : p < nextPerson
    BY FreshParts DEF IdsAreFresh
  <2>3. \A p \in UsedIds : p < nextPerson'
    BY <1>1, <1>2, <2>1, <2>2
  <2>4. \A p \in nextPerson..nextPerson' - 1 : p < nextPerson'
    <3>1. \A a, b \in Int : \A p \in a..b - 1 : p < b
      OBVIOUS
    <3> QED BY <1>1, <3>1
  <2> QED BY <2>1, <2>3, <2>4
<1>4. (Fresh <=> IdsAreFresh)'
  BY FreshParts, PTL
<1> QED BY <1>3, <1>4 DEF IdsAreFresh

LEMMA InitFresh == Init => Fresh
BY DEF Init, Fresh, FreshRows, FreshFaces, FreshRuns, FreshRun, FreshMatches, FreshEdit,
   Rows, Empty, Unstored, IdleRun, Idle

---------------------------------------------------------------------------
(* Names survive: the ids a re-clustering drew are its own until it writes  *)
(* their rows, so the rows it overwrites are rows it read.                  *)

Active(c) == run[c].pc \notin {"idle", "reconcile"}

\* The clusters of a re-clustering whose row it has not written yet.
Pending(c) == IF Active(c) THEN run[c].todo \cup run[c].hand ELSE {}

\* An id it drew: not an id of a person it read.
Owned(c, k) ==
    LET p == run[c].pid[k] IN
    p \notin DOMAIN run[c].seen =>
       /\ p \notin Rows
       /\ ui.op \in {"split", "splitted"} => ui.q # p
       /\ \A d \in Clusterers \ {c} : Active(d) => p \notin Range(run[d].pid)

DrawnAreOwned == \A c \in Clusterers :
    /\ Active(c) => IsInjective(run[c].pid) /\ run[c].todo \cap run[c].hand = {}
    /\ \A k \in Pending(c) : Owned(c, k)

\* Besides re-clusterings, only a split adds a row, for the id it drew.
LEMMA OthersAddNoRow ==
    ASSUME Review \/ \E w \in Workers : Extract(w)
    PROVE  /\ Rows' \subseteq Rows \cup {ui.q} /\ (ui.op # "splitted" => Rows' \subseteq Rows)
           /\ run' = run
           /\ ui'.op \in {"split", "splitted"} =>
                 \/ ui.op \in {"split", "splitted"} /\ ui'.q = ui.q
                 \/ ui'.q = nextPerson
<1>1. CASE \E w \in Workers : Extract(w)
  BY <1>1 DEF Extract, ExtractRows, LoadPersonCentroids, WriteMatches, TagMatches, tables, runVars, Rows
<1>2. CASE MergeRows
  BY <1>2, RecomputedRows DEF MergeRows, Restrict, Rows, runVars, Idle
<1>3. CASE SplitRows
  BY <1>3, RecomputedRows DEF SplitRows, Put, Rows, runVars, Idle
<1>4. CASE SplitTags
  BY <1>4 DEF SplitTags, tables, Rows, runVars
<1>5. CASE \E p \in Ids : \/ \E q \in Ids : StartMerge(p, q)
                          \/ \E faces \in SUBSET Members(p) : StartSplit(p, faces)
                          \/ \E b \in BOOLEAN : StartIgnore(p, b)
                          \/ \E name \in Names \cup {NoName} : StartName(p, name)
  BY <1>5 DEF StartMerge, StartSplit, StartIgnore, StartName, tables, Rows, runVars
<1>6. CASE MoveToNamedTag \/ SetPersonName \/ MergeTags \/ SetIgnored
  BY <1>6 DEF MoveToNamedTag, SetPersonName, MergeTags, SetIgnored, tables, Rows, runVars, Idle
<1> QED BY <1>1, <1>2, <1>3, <1>4, <1>5, <1>6 DEF Review

LEMMA DrawnOthers ==
    ASSUME TypeOK, Fresh, DrawnAreOwned, Review \/ \E w \in Workers : Extract(w)
    PROVE  DrawnAreOwned'
<1>1. run' = run
  BY OthersAddNoRow
<1>2. ASSUME NEW c \in Clusterers, NEW k \in Pending(c)
      PROVE  Owned(c, k)'
  <2> DEFINE p == run[c].pid[k]
  <2>1. Owned(c, k) /\ p < nextPerson
    BY <1>2 DEF DrawnAreOwned, Pending, Active, Fresh, FreshRuns, FreshRun, TypeOK, RunOK
  <2>2. p \in Int /\ nextPerson \in Int
    BY <1>2 DEF Pending, Active, TypeOK, RunOK, Ids
  <2>3. CASE p \in DOMAIN run[c].seen
    BY <1>1, <2>3 DEF Owned
  <2>4. CASE p \notin DOMAIN run[c].seen
    <3>1. p \notin Rows /\ (ui.op \in {"split", "splitted"} => ui.q # p)
      BY <2>1, <2>4 DEF Owned
    <3>2. p \notin Rows'
      BY <3>1, OthersAddNoRow
    <3>3. ui'.op \in {"split", "splitted"} => ui'.q # p
      BY <2>1, <2>2, <3>1, OthersAddNoRow
    <3> QED BY <1>1, <2>1, <2>4, <3>2, <3>3 DEF Owned, Active
  <2> QED BY <2>3, <2>4
<1>3. \A c \in Clusterers : Pending(c)' = Pending(c) /\ Active(c)' = Active(c)
  BY <1>1 DEF Pending, Active
<1> QED BY <1>1, <1>2, <1>3 DEF DrawnAreOwned

\* A re-clustering that goes on with the ids it has.
LEMMA DrawnGoesOn ==
    ASSUME TypeOK, DrawnAreOwned, NEW c \in Clusterers, Active(c), UNCHANGED ui,
           NEW pc \in {"write", "tag", "upsert", "prune"}, NEW todo, NEW hand, NEW tag,
           GoesTo(c, pc, todo, hand, tag),
           todo \cup hand \subseteq Pending(c), todo \cap hand = {},
           Rows' \subseteq Rows \cup {run[c].pid[k] : k \in Pending(c) \ (todo \cup hand)}
    PROVE  DrawnAreOwned'
<1>1. /\ run'[c].pc = pc /\ run'[c].seen = run[c].seen /\ run'[c].pid = run[c].pid
      /\ run'[c].todo = todo /\ run'[c].hand = hand
      /\ \A d \in Clusterers \ {c} : run'[d] = run[d]
  BY DEF GoesTo, Phase, TypeOK
<1>2. Pending(c)' = todo \cup hand /\ Pending(c)' \subseteq Pending(c)
  BY <1>1 DEF Pending, Active
<1>3. \A d \in Clusterers \ {c} : Pending(d)' = Pending(d)
  BY <1>1 DEF Pending, Active
<1>4. \A d \in Clusterers : Active(d)' <=> Active(d)
  BY <1>1 DEF Active
<1>5. \A d \in Clusterers : Active(d) => run'[d].pid = run[d].pid
  BY <1>1 DEF Active
<1>6. IsInjective(run[c].pid) /\ Pending(c) \subseteq DOMAIN run[c].pid
  BY DEF DrawnAreOwned, Pending, Active, TypeOK, RunOK
<1>7. ASSUME NEW d \in Clusterers, NEW k, k \in Pending(d)'
      PROVE  Owned(d, k)'
  <2> DEFINE p == run[d].pid[k]
  <2>1. k \in Pending(d) /\ Owned(d, k) /\ Active(d)
    BY <1>2, <1>3, <1>7 DEF DrawnAreOwned, Pending
  <2>2. run'[d].pid = run[d].pid /\ run'[d].seen = run[d].seen
    BY <1>1
  <2>3. CASE p \in DOMAIN run[d].seen
    BY <2>2, <2>3 DEF Owned
  <2>4. CASE p \notin DOMAIN run[d].seen
    <3>1. /\ p \notin Rows /\ (ui.op \in {"split", "splitted"} => ui.q # p)
          /\ \A e \in Clusterers \ {d} : Active(e) => p \notin Range(run[e].pid)
      BY <2>1, <2>4 DEF Owned
    <3>2. \A j \in Pending(c) \ (todo \cup hand) : run[c].pid[j] # p
      <4>1. CASE d = c
        BY <1>2, <1>6, <1>7, <2>1, <4>1 DEF IsInjective
      <4>2. CASE d # c
        BY <1>6, <3>1, <4>2 DEF Range
      <4> QED BY <4>1, <4>2
    <3>3. p \notin Rows'
      BY <3>1, <3>2
    <3> QED BY <1>4, <1>5, <2>2, <3>1, <3>3 DEF Owned
  <2> QED BY <2>3, <2>4
<1>8. \A d \in Clusterers : Active(d)' =>
        IsInjective(run'[d].pid) /\ run'[d].todo \cap run'[d].hand = {}
  BY <1>1, <1>4 DEF DrawnAreOwned
<1> QED BY <1>7, <1>8 DEF DrawnAreOwned

\* A re-clustering that is not active afterwards, and adds no row.
LEMMA DrawnEnds ==
    ASSUME DrawnAreOwned, NEW c \in Clusterers, UNCHANGED ui, Active(c)' = FALSE,
           \A d \in Clusterers \ {c} : run'[d] = run[d], Rows' \subseteq Rows
    PROVE  DrawnAreOwned'
<1>2. Pending(c)' = {}
  BY DEF Pending
<1>3. \A d \in Clusterers \ {c} : Pending(d)' = Pending(d) /\ (Active(d)' <=> Active(d))
  BY DEF Pending, Active
<1>4. ASSUME NEW d \in Clusterers \ {c}, NEW k \in Pending(d)
      PROVE  Owned(d, k)'
  <2>1. Owned(d, k)
    BY <1>4 DEF DrawnAreOwned
  <2> QED BY <1>2, <1>3, <2>1 DEF Owned
<1> QED BY <1>2, <1>3, <1>4 DEF DrawnAreOwned

LEMMA DrawnReconcile ==
    ASSUME TypeOK, Fresh, DrawnAreOwned, NEW c \in Clusterers, Reconcile(c)
    PROVE  DrawnAreOwned'
<1> DEFINE raw == DOMAIN run[c].files
<1>1. PICK old \in [raw -> Rows \cup {Free}], pid \in [raw -> Ids] :
        LET new == {k \in raw : old[k] = Free}
            last == nextPerson + Cardinality(new) - 1 IN
        /\ \A k \in raw \ new : pid[k] = old[k]
        /\ {pid[k] : k \in new} = nextPerson..last
        /\ IsInjective(pid)
        /\ run' = [run EXCEPT ![c] = Phase(c, "write", persons, pid, raw, {}, None)]
  BY DEF Reconcile
<1> DEFINE new == {k \in raw : old[k] = Free}
<1>2. raw \in SUBSET Looks /\ new \in SUBSET raw /\ nextPerson \in 1..MaxPerson + 1
  BY DEF TypeOK, RunOK, Reconcile
<1>3. \A k \in new : pid[k] >= nextPerson
  BY <1>1, <1>2, Drawn
<1>4. \A k \in raw : pid[k] \in Rows \/ pid[k] >= nextPerson
  BY <1>1, <1>3
<1>5. /\ run'[c] = Phase(c, "write", persons, pid, raw, {}, None)
      /\ \A d \in Clusterers \ {c} : run'[d] = run[d]
  BY <1>1 DEF TypeOK
<1>6. /\ run'[c].pc = "write" /\ run'[c].seen = persons /\ run'[c].pid = pid
      /\ run'[c].todo = raw /\ run'[c].hand = {}
  BY <1>5 DEF Phase
<1>7. UNCHANGED <<ui, persons>> /\ Rows' = Rows
  BY DEF Reconcile, Rows
<1>8. \A d \in Clusterers \ {c} : Pending(d)' = Pending(d) /\ (Active(d)' <=> Active(d))
  BY <1>5 DEF Pending, Active
<1>9. ASSUME NEW k \in raw, pid[k] \notin Rows
      PROVE  /\ ui.op \in {"split", "splitted"} => ui.q # pid[k]
             /\ \A d \in Clusterers \ {c} : Active(d) => pid[k] \notin Range(run[d].pid)
  <2>1. pid[k] >= nextPerson /\ pid[k] \in Int /\ nextPerson \in Int
    BY <1>2, <1>4, <1>9 DEF Ids
  <2>2. ui.op \in {"split", "splitted"} => ui.q < nextPerson /\ ui.q \in Int
    BY DEF Fresh, FreshEdit, TypeOK, EditOK, Ids
  <2>3. ASSUME NEW d \in Clusterers, Active(d)
        PROVE  \A p \in Range(run[d].pid) : p < nextPerson /\ p \in Int
    BY <2>3 DEF Active, Fresh, FreshRuns, FreshRun, TypeOK, RunOK, Range, Ids
  <2> QED BY <2>1, <2>2, <2>3
<1>10. ASSUME NEW k \in raw
       PROVE  Owned(c, k)'
  BY <1>6, <1>7, <1>8, <1>5, <1>9 DEF Owned, Rows, Active
<1>11. ASSUME NEW d \in Clusterers \ {c}, NEW k \in Pending(d)
       PROVE  Owned(d, k)'
  <2> DEFINE p == run[d].pid[k]
  <2>1. Owned(d, k)
    BY <1>11 DEF DrawnAreOwned
  <2>2. CASE p \in DOMAIN run[d].seen
    BY <1>5, <2>2 DEF Owned
  <2>3. CASE p \notin DOMAIN run[d].seen
    <3>1. p < nextPerson /\ p \in Int /\ nextPerson \in Int
      BY <1>2, <1>11 DEF Pending, Active, Fresh, FreshRuns, FreshRun, TypeOK, RunOK, Ids
    <3>2. p \notin Rows
      BY <2>1, <2>3 DEF Owned
    <3>3. p \notin Range(pid)
      <4>1. \A k1 \in raw : pid[k1] \in Int
        BY DEF Ids
      <4> QED BY <1>4, <3>1, <3>2, <4>1 DEF Range
    <3>4. \A e \in Clusterers \ {d} : Active(e)' => p \notin Range(run'[e].pid)
      BY <1>5, <1>6, <1>8, <2>1, <2>3, <3>3 DEF Owned
    <3> QED BY <1>5, <1>7, <2>1, <2>3, <3>4 DEF Owned
  <2> QED BY <2>2, <2>3
<1>12. Pending(c)' = raw
  BY <1>6 DEF Pending, Active
<1>13. \A d \in Clusterers : Active(d)' =>
         IsInjective(run'[d].pid) /\ run'[d].todo \cap run'[d].hand = {}
  BY <1>1, <1>5, <1>6, <1>8 DEF DrawnAreOwned
<1> QED BY <1>8, <1>10, <1>11, <1>12, <1>13 DEF DrawnAreOwned

LEMMA DrawnRecluster ==
    ASSUME TypeOK, Fresh, DrawnAreOwned, NEW c \in Clusterers, Recluster(c)
    PROVE  DrawnAreOwned'
<1>0. UNCHANGED ui
  BY DEF Recluster, LoadEmbeddings, Reconcile, WriteClusters, TagCluster, UpsertPerson, PruneEmptyPersons
<1>1. CASE LoadEmbeddings(c)
  <2>1. Rows' = Rows
    BY <1>1 DEF LoadEmbeddings, tables, Rows
  <2>2. Active(c)' = FALSE /\ \A d \in Clusterers \ {c} : run'[d] = run[d]
    BY <1>1 DEF LoadEmbeddings, TypeOK, Active
  <2> QED BY <1>0, <2>1, <2>2, DrawnEnds
<1>2. CASE Reconcile(c)
  BY <1>2, DrawnReconcile
<1>3. CASE WriteClusters(c)
  <2>1. Active(c) /\ Rows' = Rows /\ GoesTo(c, "tag", run[c].todo, {}, None)
    BY <1>3 DEF WriteClusters, Active, Rows
  <2>2. run[c].todo \cup {} \subseteq Pending(c)
    BY <2>1 DEF Pending
  <2> QED BY <1>0, <2>1, <2>2, DrawnGoesOn
<1>4. ASSUME NEW k \in Looks, TagCluster(c, k)
      PROVE  DrawnAreOwned'
  <2>1. PICK u \in 0..MaxTag : GoesTo(c, "upsert", run[c].todo \ {k}, {k}, u)
    BY <1>4 DEF TagCluster
  <2>2. Active(c) /\ Rows' = Rows /\ k \in run[c].todo
    BY <1>4 DEF TagCluster, Active, Rows, tables
  <2>3. (run[c].todo \ {k}) \cup {k} \subseteq Pending(c)
    BY <2>2 DEF Pending
  <2> QED BY <1>0, <2>1, <2>2, <2>3, DrawnGoesOn
<1>5. ASSUME NEW k \in Looks, UpsertPerson(c, k)
      PROVE  DrawnAreOwned'
  <2>1. PICK pc \in {"prune", "tag"} : GoesTo(c, pc, run[c].todo, {}, None)
    BY <1>5 DEF UpsertPerson
  <2>2. Active(c) /\ Rows' = Rows \cup {run[c].pid[k]} /\ k \in run[c].hand
    BY <1>5 DEF UpsertPerson, Active, Rows, Put
  <2>3. run[c].todo \cup {} \subseteq Pending(c) /\ k \in Pending(c) \ (run[c].todo \cup {})
    BY <2>2 DEF Pending, DrawnAreOwned
  <2>4. Rows' \subseteq Rows \cup {run[c].pid[j] : j \in Pending(c) \ (run[c].todo \cup {})}
    BY <2>2, <2>3
  <2> QED BY <1>0, <2>1, <2>2, <2>3, <2>4, DrawnGoesOn
<1>6. CASE PruneEmptyPersons(c)
  <2>1. Rows' \subseteq Rows
    BY <1>6 DEF PruneEmptyPersons, Restrict, Rows
  <2>2. Active(c)' = FALSE /\ \A d \in Clusterers \ {c} : run'[d] = run[d]
    BY <1>6 DEF PruneEmptyPersons, TypeOK, Active, IdleRun
  <2> QED BY <1>0, <2>1, <2>2, DrawnEnds
<1> QED BY <1>1, <1>2, <1>3, <1>4, <1>5, <1>6 DEF Recluster

LEMMA DrawnNext == TypeOK /\ Fresh /\ DrawnAreOwned /\ [Next]_vars => DrawnAreOwned'
<1> SUFFICES ASSUME TypeOK, Fresh, DrawnAreOwned, [Next]_vars PROVE DrawnAreOwned'
  OBVIOUS
<1>1. CASE UNCHANGED vars
  BY <1>1 DEF vars, DrawnAreOwned, Pending, Active, Owned, Rows
<1> QED BY <1>1, DrawnOthers, DrawnRecluster DEF Next

LEMMA InitDrawn == Init => DrawnAreOwned
BY DEF Init, DrawnAreOwned, Pending, Active, IdleRun

\* The step that overwrites what the user said.
Overwritten(p) ==
    \E c \in Clusterers :
       /\ run[c].pc = "upsert" /\ p \in DOMAIN run[c].seen
       /\ SaidOf(run[c].seen, p) # SaidOf(persons, p)

LEMMA RowsRewritten ==
    ASSUME TypeOK, DrawnAreOwned, [Next]_vars, UNCHANGED ui, NEW p \in Rows, p \in DOMAIN persons',
           SaidOf(persons', p) # SaidOf(persons, p)
    PROVE  Overwritten(p)
<1>1. ASSUME NEW c \in Clusterers, NEW k \in Looks, UpsertPerson(c, k)
      PROVE  Overwritten(p)
  <2> DEFINE q == run[c].pid[k]
             was == Known(c, q)
  <2>1. /\ persons' = Put(persons, q, Person(was.name, run[c].tag, was.ignored, {k}))
        /\ run[c].pc = "upsert" /\ k \in Pending(c)
    BY <1>1 DEF UpsertPerson, Pending, Active
  <2>2. p = q
    BY <2>1 DEF Put, SaidOf, Rows
  <2>3. SaidOf(persons', p) = <<was.name, was.ignored>>
    BY <2>1, <2>2 DEF Put, SaidOf, Person
  <2>4. p \in DOMAIN run[c].seen
    BY <2>1, <2>2 DEF DrawnAreOwned, Owned
  <2>5. SaidOf(run[c].seen, p) = <<was.name, was.ignored>>
    BY <2>2, <2>4 DEF Known, SaidOf
  <2> QED BY <2>1, <2>3, <2>4, <2>5 DEF Overwritten
<1>2. ASSUME NEW c \in Clusterers, PruneEmptyPersons(c)
      PROVE  FALSE
  BY <1>2 DEF PruneEmptyPersons, Restrict, SaidOf, Rows
<1>3. CASE SetPersonName \/ MergeRows \/ SplitRows \/ SetIgnored
  BY <1>3 DEF SetPersonName, MergeRows, SplitRows, SetIgnored, Idle
<1>4. CASE persons' = persons
  BY <1>4
<1>5. ASSUME NEW c \in Clusterers, Recluster(c)
      PROVE  \/ persons' = persons \/ PruneEmptyPersons(c)
             \/ \E k \in Looks : UpsertPerson(c, k)
  BY <1>5 DEF Recluster, LoadEmbeddings, Reconcile, WriteClusters, TagCluster, tables
<1>6. ASSUME Review
      PROVE  persons' = persons \/ SetPersonName \/ MergeRows \/ SplitRows \/ SetIgnored
  BY <1>6 DEF Review, StartName, MoveToNamedTag, StartMerge, MergeTags, StartSplit, SplitTags,
     StartIgnore, tables
<1>7. ASSUME NEW w \in Workers, Extract(w)
      PROVE  persons' = persons
  BY <1>7 DEF Extract, ExtractRows, LoadPersonCentroids, WriteMatches, TagMatches, tables
<1>8. UNCHANGED vars => persons' = persons
  BY DEF vars
<1> QED BY <1>1, <1>2, <1>3, <1>4, <1>5, <1>6, <1>7, <1>8 DEF Next

\* A re-clustering keeps to the matching: a cluster that persons fit for certain
\* has gone to one of them.
Matched(c) == Active(c) => \A k \in DOMAIN run[c].pid :
    Certain(k, run[c].seen) # {} => run[c].pid[k] \in Certain(k, run[c].seen)
AllMatched == \A c \in Clusterers : Matched(c)

LEMMA MatchedNext == TypeOK /\ AllMatched /\ [Next]_vars => AllMatched'
<1> SUFFICES ASSUME TypeOK, AllMatched, [Next]_vars, NEW d \in Clusterers PROVE Matched(d)'
  BY DEF AllMatched
<1>0. DOMAIN run = Clusterers /\ Matched(d)
  BY DEF TypeOK, AllMatched
<1>1. run' = run => Matched(d)'
  BY <1>0 DEF Matched, Active
<1>2. ASSUME NEW c \in Clusterers, Recluster(c), c # d
      PROVE  run'[d] = run[d]
  BY <1>0, <1>2 DEF Recluster, LoadEmbeddings, Reconcile, WriteClusters, TagCluster, UpsertPerson,
     PruneEmptyPersons, GoesTo
<1>3. CASE LoadEmbeddings(d) \/ PruneEmptyPersons(d)
  <2>1. LoadEmbeddings(d) => \E files : run' = [run EXCEPT ![d] = [pc |-> "reconcile", files |-> files]]
    BY DEF LoadEmbeddings
  <2>2. run'[d].pc \in {"idle", "reconcile"}
    BY <1>0, <1>3, <2>1 DEF PruneEmptyPersons, IdleRun
  <2> QED BY <2>2 DEF Matched, Active
<1>4. CASE Reconcile(d)
  <2> DEFINE raw == DOMAIN run[d].files
  <2>1. PICK old \in [raw -> Rows \cup {Free}], pid \in [raw -> Ids] :
          /\ \A k \in raw : old[k] \in Candidates(k, persons)
          /\ \A k \in raw \ {l \in raw : old[l] = Free} : pid[k] = old[k]
          /\ run' = [run EXCEPT ![d] = Phase(d, "write", persons, pid, raw, {}, None)]
    BY <1>4 DEF Reconcile
  <2>2. run'[d].seen = persons /\ run'[d].pid = pid
    BY <1>0, <2>1 DEF Phase
  <2>3. Free \notin Rows
    BY DEF TypeOK, IsTable, Ids, Free, Rows
  <2>4. ASSUME NEW k \in raw, Certain(k, persons) # {}
        PROVE  pid[k] \in Certain(k, persons)
    <3>1. old[k] \in Certain(k, persons)
      BY <2>1, <2>4 DEF Candidates
    <3>2. old[k] # Free
      BY <2>3, <3>1 DEF Certain, Rows
    <3> QED BY <2>1, <3>1, <3>2
  <2> QED BY <2>1, <2>2, <2>4 DEF Matched
<1>5. ASSUME NEW k \in Looks, WriteClusters(d) \/ TagCluster(d, k) \/ UpsertPerson(d, k)
      PROVE  Matched(d)'
  <2>1. Active(d) /\ run'[d].seen = run[d].seen /\ run'[d].pid = run[d].pid
    BY <1>0, <1>5 DEF WriteClusters, TagCluster, UpsertPerson, GoesTo, Phase, Active
  <2> QED BY <1>0, <2>1 DEF Matched
<1>6. CASE WriteClusters(d)
  <2>1. Active(d) /\ run'[d].seen = run[d].seen /\ run'[d].pid = run[d].pid
    BY <1>0, <1>6 DEF WriteClusters, GoesTo, Phase, Active
  <2> QED BY <1>0, <2>1 DEF Matched
<1>7. ASSUME Review \/ \E w \in Workers : Extract(w) PROVE run' = run
  BY <1>7, OthersAddNoRow
<1>8. UNCHANGED vars => run' = run
  BY DEF vars
<1>9. ASSUME NEW c \in Clusterers, Recluster(c), c # d PROVE Matched(d)'
  BY <1>0, <1>2, <1>9 DEF Matched, Active
<1> QED BY <1>1, <1>3, <1>4, <1>5, <1>6, <1>7, <1>8, <1>9 DEF Next, Recluster

LEMMA InitMatched == Init => AllMatched
BY DEF Init, AllMatched, Matched, Active, IdleRun

\* The step that drops a person's row.
Dropped(p) ==
    \E c \in Clusterers :
       /\ run[c].pc = "prune" /\ run'[c].pc = "idle" /\ p \notin DOMAIN persons'
       /\ Members(p) = {} /\ Displaced(c, p)

LEMMA RowsDropped ==
    ASSUME TypeOK, AllMatched, [Next]_vars, UNCHANGED ui, NEW p \in Rows, p \notin DOMAIN persons'
    PROVE  Dropped(p)
<1>1. ASSUME NEW c \in Clusterers, PruneEmptyPersons(c)
      PROVE  Dropped(p)
  <2>1. /\ run[c].pc = "prune" /\ run'[c].pc = "idle" /\ Members(p) = {}
        /\ p \notin Range(run[c].pid)
    BY <1>1 DEF PruneEmptyPersons, Restrict, Rows, TypeOK, IdleRun
  <2>2. Matched(c) /\ Active(c)
    BY <2>1 DEF AllMatched, Active
  <2>3. Displaced(c, p)
    BY <2>1, <2>2 DEF Displaced, Matched, Range
  <2> QED BY <2>1, <2>3 DEF Dropped
<1>2. ASSUME NEW c \in Clusterers, Recluster(c), ~ PruneEmptyPersons(c)
      PROVE  Rows \subseteq DOMAIN persons'
  BY <1>2 DEF Recluster, LoadEmbeddings, Reconcile, WriteClusters, TagCluster, UpsertPerson, tables,
     Put, Rows
<1>3. ASSUME Review PROVE Rows \subseteq DOMAIN persons'
  <2>1. persons' = persons \/ SetPersonName \/ MergeRows \/ SplitRows \/ SetIgnored
    BY <1>3 DEF Review, StartName, MoveToNamedTag, StartMerge, MergeTags, StartSplit, SplitTags,
       StartIgnore, tables
  <2>2. ~ SetPersonName /\ ~ MergeRows /\ ~ SplitRows /\ ~ SetIgnored
    BY DEF SetPersonName, MergeRows, SplitRows, SetIgnored, Idle
  <2> QED BY <2>1, <2>2 DEF Rows
<1>4. ASSUME NEW w \in Workers, Extract(w) PROVE persons' = persons
  BY <1>4 DEF Extract, ExtractRows, LoadPersonCentroids, WriteMatches, TagMatches, tables
<1>5. UNCHANGED vars => persons' = persons
  BY DEF vars
<1> QED BY <1>1, <1>2, <1>3, <1>4, <1>5 DEF Next, Rows

\* What the user said of a person is lost to a re-clustering in two ways only.  It
\* is overwritten, if he said it after the re-clustering read the persons: a
\* re-clustering never overwrites a row by an id it drew itself.  Or the row is
\* pruned, if the person has no face left, and each cluster it fitted for certain
\* went to another person that fitted as well: the matching gives no cluster away
\* from the persons that fit it.
THEOREM NamesAreKept == Spec => NamesSurvive
<1>1. Spec => [](TypeOK /\ Fresh /\ DrawnAreOwned /\ AllMatched)
  BY InitTypes, NextTypes, InitFresh, FreshNext, InitDrawn, DrawnNext, InitMatched, MatchedNext,
     PTL DEF Spec
<1>2. TypeOK /\ DrawnAreOwned /\ AllMatched /\ [Next]_vars =>
        [\A p \in Rows :
          /\ UNCHANGED ui
          /\ p \in DOMAIN persons' => SaidOf(persons', p) # SaidOf(persons, p)
          => \E c \in Clusterers :
                \/ /\ run[c].pc = "upsert" /\ p \in DOMAIN persons' \cap DOMAIN run[c].seen
                   /\ SaidOf(run[c].seen, p) # SaidOf(persons, p)
                \/ /\ run[c].pc = "prune" /\ run'[c].pc = "idle" /\ p \notin DOMAIN persons'
                   /\ Members(p) = {} /\ Displaced(c, p)]_vars
  <2> SUFFICES ASSUME TypeOK, DrawnAreOwned, AllMatched, [Next]_vars, UNCHANGED ui, NEW p \in Rows,
                      p \in DOMAIN persons' => SaidOf(persons', p) # SaidOf(persons, p)
               PROVE  \/ Overwritten(p) /\ p \in DOMAIN persons'
                      \/ Dropped(p)
    BY DEF Overwritten, Dropped
  <2> QED BY RowsRewritten, RowsDropped
<1> QED BY <1>1, <1>2, PTL DEF Spec, NamesSurvive

---------------------------------------------------------------------------
(* Tag ids in the tables and in the middle of an operation were given out by *)
(* Nextcloud, so a new tag is none of them.                                  *)

IssuedRows == \A p \in Rows : persons[p].tag < nextTag
IssuedRuns == \A c \in Clusterers : Active(c) => run[c].tag < nextTag
IssuedEdit ==
    /\ ui.op \in {"name", "named", "splitted"} => ui.tag < nextTag
    /\ ui.op = "split" => ui.old < nextTag
Issued == IssuedRows /\ IssuedRuns /\ IssuedEdit

LEMMA IssuedKept ==
    ASSUME TypeOK, TypeOK', nextTag <= nextTag'
    PROVE  /\ IssuedRows /\ UNCHANGED persons => IssuedRows'
           /\ IssuedRuns /\ UNCHANGED run => IssuedRuns'
           /\ IssuedEdit /\ UNCHANGED ui => IssuedEdit'
<1>1. \A i \in Int : i < nextTag => i < nextTag'
  BY BoundsNat DEF TypeOK
<1>2. IssuedRows /\ UNCHANGED persons => IssuedRows'
  <2>1. \A p \in Rows : persons[p].tag \in Int
    BY RowFields DEF TypeOK, IsTable, Rows
  <2> QED BY <1>1, <2>1 DEF IssuedRows, Rows
<1>3. IssuedRuns /\ UNCHANGED run => IssuedRuns'
  BY <1>1 DEF IssuedRuns, Active, TypeOK, RunOK
<1>4. IssuedEdit /\ UNCHANGED ui => IssuedEdit'
  BY <1>1 DEF IssuedEdit, TypeOK, EditOK
<1> QED BY <1>2, <1>3, <1>4

LEMMA EnsuredIssued ==
    ASSUME TypeOK, NEW p \in Ids, NEW name \in Names \cup {NoName}, NEW t, NEW u \in 0..MaxTag,
           EnsurePersonTag(p, name, t, u)
    PROVE  u < nextTag' /\ nextTag <= nextTag' /\ u \in DOMAIN tags' /\ DOMAIN tags \subseteq DOMAIN tags'
<1>1. TagsOK
  BY Parts
<1>2. /\ DOMAIN tags' \subseteq 1..nextTag' - 1 /\ nextTag' \in 1..MaxTag + 1 /\ nextTag <= nextTag'
      /\ DOMAIN tags \subseteq DOMAIN tags' /\ u \in DOMAIN tags'
  BY <1>1, EnsuredTag
<1> QED BY <1>2, BoundsNat

LEMMA RowTag == TypeOK => \A p \in Rows : persons[p].tag \in 0..MaxTag /\ persons[p].name \in Names \cup {NoName}
BY RowFields DEF TypeOK, IsTable, Rows

LEMMA IssuedGoesOn ==
    ASSUME TypeOK, Issued, NEW c \in Clusterers, nextTag' = nextTag,
           NEW pc, NEW todo, NEW hand, NEW tag, GoesTo(c, pc, todo, hand, tag), tag < nextTag
    PROVE  IssuedRuns'
BY DEF GoesTo, Phase, IssuedRuns, Issued, Active, TypeOK

LEMMA IssuedRecluster ==
    ASSUME TypeOK, TypeOK', Issued, NEW c \in Clusterers, Recluster(c)
    PROVE  Issued'
<1>0. UNCHANGED ui
  BY DEF Recluster, LoadEmbeddings, Reconcile, WriteClusters, TagCluster, UpsertPerson, PruneEmptyPersons
<1>1. None < nextTag /\ nextTag \in Int
  BY BoundsNat DEF TypeOK, None
<1>2. CASE LoadEmbeddings(c)
  <2>1. UNCHANGED <<persons, nextTag>> /\ nextTag <= nextTag'
    BY <1>1, <1>2 DEF LoadEmbeddings, tables, tagVars
  <2>2. IssuedRuns'
    BY <1>2, <2>1 DEF LoadEmbeddings, IssuedRuns, Issued, Active, TypeOK
  <2> QED BY <1>0, <2>1, <2>2, IssuedKept DEF Issued
<1>3. CASE Reconcile(c)
  <2>1. UNCHANGED <<persons, nextTag>> /\ nextTag <= nextTag'
    BY <1>1, <1>3 DEF Reconcile, tagVars
  <2>2. PICK pid : run' = [run EXCEPT ![c] = Phase(c, "write", persons, pid, DOMAIN run[c].files, {}, None)]
    BY <1>3 DEF Reconcile
  <2>3. IssuedRuns'
    BY <1>1, <2>1, <2>2 DEF IssuedRuns, Issued, Active, TypeOK, Phase
  <2> QED BY <1>0, <2>1, <2>3, IssuedKept DEF Issued
<1>4. CASE WriteClusters(c)
  <2>1. UNCHANGED <<persons, nextTag>> /\ nextTag <= nextTag'
    BY <1>1, <1>4 DEF WriteClusters, tagVars
  <2>2. IssuedRuns'
    BY <1>1, <1>4, <2>1, IssuedGoesOn DEF WriteClusters
  <2> QED BY <1>0, <2>1, <2>2, IssuedKept DEF Issued
<1>5. ASSUME NEW k \in Looks, TagCluster(c, k)
      PROVE  Issued'
  <2> DEFINE p == run[c].pid[k]
             was == Known(c, p)
  <2>1. PICK u \in 0..MaxTag :
          /\ IF was.ignored THEN u = None /\ UNCHANGED <<tagVars, tagged>>
             ELSE EnsurePersonTag(p, was.name, was.tag, u)
          /\ GoesTo(c, "upsert", run[c].todo \ {k}, {k}, u)
    BY <1>5 DEF TagCluster
  <2>2. p \in Ids /\ was \in Row
    BY <1>5, KnownType DEF TypeOK, RunOK, TagCluster
  <2>3. was.name \in Names \cup {NoName}
    BY <2>2, RowFields
  <2>4. u < nextTag' /\ nextTag <= nextTag'
    BY <1>1, <2>1, <2>2, <2>3, EnsuredIssued DEF tagVars
  <2>5. IssuedRuns'
    <3>1. run'[c].tag = u /\ \A d \in Clusterers \ {c} : run'[d] = run[d]
      BY <2>1 DEF GoesTo, Phase, TypeOK
    <3>2. ASSUME NEW d \in Clusterers \ {c}, Active(d)
          PROVE  run[d].tag < nextTag'
      <4>1. run[d].tag < nextTag /\ run[d].tag \in Int /\ nextTag' \in Int
        BY <3>2, BoundsNat DEF Issued, IssuedRuns, TypeOK, RunOK, Active
      <4> QED BY <1>1, <2>4, <4>1
    <3> QED BY <2>4, <3>1, <3>2 DEF IssuedRuns, Active
  <2>6. UNCHANGED persons
    BY <1>5 DEF TagCluster, tables
  <2> QED BY <1>0, <2>4, <2>5, <2>6, IssuedKept DEF Issued
<1>6. ASSUME NEW k \in Looks, UpsertPerson(c, k)
      PROVE  Issued'
  <2> DEFINE p == run[c].pid[k]
             was == Known(c, p)
  <2>1. nextTag' = nextTag /\ nextTag <= nextTag' /\ run[c].tag < nextTag
    BY <1>1, <1>6 DEF UpsertPerson, tagVars, Issued, IssuedRuns, Active
  <2>2. PICK pc : GoesTo(c, pc, run[c].todo, {}, None)
    BY <1>6 DEF UpsertPerson
  <2>3. IssuedRuns'
    BY <1>1, <2>1, <2>2, IssuedGoesOn
  <2>4. persons' = Put(persons, p, Person(was.name, run[c].tag, was.ignored, {k}))
    BY <1>6 DEF UpsertPerson
  <2>5. IssuedRows'
    BY <2>1, <2>4 DEF Issued, IssuedRows, Put, Person, Rows
  <2> QED BY <1>0, <2>1, <2>3, <2>5, IssuedKept DEF Issued
<1>7. CASE PruneEmptyPersons(c)
  <2>1. nextTag' = nextTag /\ nextTag <= nextTag'
    BY <1>1, <1>7 DEF PruneEmptyPersons, tagVars
  <2>2. IssuedRows'
    BY <1>7, <2>1 DEF PruneEmptyPersons, Restrict, Issued, IssuedRows, Rows
  <2>3. IssuedRuns'
    BY <1>7, <2>1 DEF PruneEmptyPersons, IssuedRuns, Issued, Active, TypeOK, IdleRun
  <2> QED BY <1>0, <2>1, <2>2, <2>3, IssuedKept DEF Issued
<1> QED BY <1>2, <1>3, <1>4, <1>5, <1>6, <1>7 DEF Recluster

LEMMA RecomputedTag ==
    ASSUME NEW t, NEW p, NEW q \in DOMAIN t
    PROVE  Recomputed(t, p)[q].tag = t[q].tag /\ Recomputed(t, p)[q].ignored = t[q].ignored
BY DEF Recomputed, Person

LEMMA IssuedReview ==
    ASSUME TypeOK, TypeOK', Issued, Review
    PROVE  Issued'
<1>0. UNCHANGED run
  BY DEF Review, StartName, MoveToNamedTag, SetPersonName, StartMerge, MergeTags, MergeRows,
     StartSplit, SplitTags, SplitRows, StartIgnore, SetIgnored, runVars
<1>1. nextTag \in Int
  BY DEF TypeOK
<1>2. ASSUME nextTag' = nextTag, IssuedRows', IssuedEdit'
      PROVE  Issued'
  <2>1. nextTag <= nextTag'
    BY <1>1, <1>2
  <2> QED BY <1>0, <1>2, <2>1, IssuedKept DEF Issued
<1>3. ASSUME UNCHANGED <<persons, nextTag>>
      PROVE  IssuedRows'
  BY <1>3 DEF Issued, IssuedRows, Rows
<1>4. ASSUME NEW p \in Ids, NEW name \in Names \cup {NoName}, StartName(p, name)
      PROVE  Issued'
  <2>1. PICK u \in 1..MaxTag :
          /\ EnsurePersonTag(p, name, persons[p].tag, u)
          /\ ui' = [op |-> "name", p |-> p, name |-> name, old |-> persons[p].tag, tag |-> u]
    BY <1>4 DEF StartName
  <2>2. u < nextTag' /\ nextTag <= nextTag'
    BY <2>1, EnsuredIssued, BoundsNat
  <2>3. IssuedEdit'
    BY <2>1, <2>2 DEF IssuedEdit
  <2>4. UNCHANGED persons
    BY <1>4 DEF StartName, tables
  <2> QED BY <1>0, <2>2, <2>3, <2>4, IssuedKept DEF Issued
<1>5. CASE SplitTags
  <2>1. PICK u \in 1..MaxTag :
          /\ EnsurePersonTag(ui.q, NoName, None, u)
          /\ ui' = [op |-> "splitted", p |-> ui.p, q |-> ui.q, tag |-> u]
    BY <1>5 DEF SplitTags
  <2>2. ui.q \in Ids
    BY <1>5 DEF SplitTags, TypeOK, EditOK
  <2>3. u < nextTag' /\ nextTag <= nextTag'
    BY <2>1, <2>2, EnsuredIssued, BoundsNat
  <2>4. IssuedEdit'
    BY <2>1, <2>3 DEF IssuedEdit
  <2>5. UNCHANGED persons
    BY <1>5 DEF SplitTags, tables
  <2> QED BY <1>0, <2>3, <2>4, <2>5, IssuedKept DEF Issued
<1>6. CASE MoveToNamedTag \/ MergeTags
  <2>1. UNCHANGED <<persons, nextTag>>
    BY <1>6 DEF MoveToNamedTag, MergeTags, tables
  <2>2. IssuedEdit'
    BY <1>6, <2>1 DEF MoveToNamedTag, MergeTags, IssuedEdit, Issued
  <2> QED BY <1>2, <1>3, <2>1, <2>2
<1>7. ASSUME NEW p \in Ids, NEW faces \in SUBSET Members(p), StartSplit(p, faces)
      PROVE  Issued'
  <2>1. UNCHANGED <<persons, nextTag>> /\ p \in Rows
    BY <1>7 DEF StartSplit, tagVars
  <2>2. IssuedEdit'
    BY <1>7, <2>1 DEF StartSplit, IssuedEdit, Issued, IssuedRows
  <2> QED BY <1>2, <1>3, <2>1, <2>2
<1>8. ASSUME NEW p \in Ids, \/ \E q \in Ids : StartMerge(p, q)
                            \/ \E b \in BOOLEAN : StartIgnore(p, b)
      PROVE  Issued'
  <2>1. UNCHANGED <<persons, nextTag>>
    BY <1>8 DEF StartMerge, StartIgnore, tagVars, tables
  <2>2. IssuedEdit'
    BY <1>8 DEF StartMerge, StartIgnore, IssuedEdit
  <2> QED BY <1>2, <1>3, <2>1, <2>2
<1>9. CASE SetPersonName \/ SetIgnored
  <2>1. nextTag' = nextTag /\ IssuedEdit'
    BY <1>9 DEF SetPersonName, SetIgnored, tagVars, IssuedEdit, Idle
  <2>2. IssuedRows'
    BY <1>9, <2>1 DEF SetPersonName, SetIgnored, Issued, IssuedRows, IssuedEdit, Person, Rows
  <2> QED BY <1>2, <2>1, <2>2
<1>10. CASE MergeRows
  <2>1. nextTag' = nextTag /\ IssuedEdit'
    BY <1>10 DEF MergeRows, tagVars, IssuedEdit, Idle
  <2> DEFINE left == Restrict(persons, Rows \ {ui.p})
  <2>2. \A p \in DOMAIN left : left[p].tag < nextTag
    BY DEF Issued, IssuedRows, Restrict
  <2> HIDE DEF left
  <2>3. persons' = Recomputed(left, ui.q)
    BY <1>10 DEF MergeRows, left
  <2>4. IssuedRows'
    BY <2>1, <2>2, <2>3, RecomputedTag, RecomputedRows DEF IssuedRows, Rows
  <2> QED BY <1>2, <2>1, <2>4
<1>11. CASE SplitRows
  <2>1. nextTag' = nextTag /\ IssuedEdit'
    BY <1>11 DEF SplitRows, tagVars, IssuedEdit, Idle
  <2> DEFINE one == Put(persons, ui.q, NewPerson(ui.tag))
             two == Recomputed(one, ui.q)
  <2>2. \A p \in DOMAIN one : one[p].tag < nextTag
    BY <1>11 DEF SplitRows, Issued, IssuedRows, IssuedEdit, Put, NewPerson, Person, Rows
  <2> HIDE DEF one
  <2>3. \A p \in DOMAIN two : two[p].tag < nextTag
    BY <2>2, RecomputedTag, RecomputedRows
  <2> HIDE DEF two
  <2>4. persons' = Recomputed(two, ui.p)
    BY <1>11 DEF SplitRows, one, two
  <2>5. IssuedRows'
    BY <2>1, <2>3, <2>4, RecomputedTag, RecomputedRows DEF IssuedRows, Rows
  <2> QED BY <1>2, <2>1, <2>5
<1> QED BY <1>4, <1>5, <1>6, <1>7, <1>8, <1>9, <1>10, <1>11 DEF Review

LEMMA IssuedNext == TypeOK /\ TypeOK' /\ Issued /\ [Next]_vars => Issued'
<1> SUFFICES ASSUME TypeOK, TypeOK', Issued, [Next]_vars PROVE Issued'
  OBVIOUS
<1>1. CASE UNCHANGED vars
  BY <1>1 DEF vars, Issued, IssuedRows, IssuedRuns, IssuedEdit, Active, Rows
<1>2. ASSUME NEW w \in Workers, Extract(w)
      PROVE  Issued'
  BY <1>2 DEF Extract, ExtractRows, LoadPersonCentroids, WriteMatches, TagMatches, tables, tagVars, runVars,
     Issued, IssuedRows, IssuedRuns, IssuedEdit, Active, Rows
<1> QED BY <1>1, <1>2, IssuedRecluster, IssuedReview DEF Next

LEMMA InitIssued == Init => Issued
BY DEF Init, Issued, IssuedRows, IssuedRuns, IssuedEdit, Active, IdleRun, Idle, Empty, Rows

---------------------------------------------------------------------------
(* An undisturbed re-clustering repairs the tables.                         *)

OnTag(S, t) == t \in DOMAIN tags /\ S \X {t} \subseteq tagged

\* A person shown has a live tag on all its photos.
Shown(p) == persons[p].ignored \/ OnTag(FilesOf(Members(p)), persons[p].tag)

\* Assigned faces belong to persons of S.
Housed(S) == \A f \in Faces : cluster[f] \in Ids => cluster[f] \in S

LEMMA ConsistentParts == Consistent <=> Housed(Rows) /\ \A p \in Rows : Shown(p)
BY DEF Consistent, Housed, Shown, OnTag

LEMMA ConsistentAfter == Consistent' <=> Housed(Rows)' /\ \A p \in Rows' : Shown(p)'
BY DEF Consistent, Housed, Shown, OnTag

\* Tags that are only added leave photos on their tag.
LEMMA OnTagKept ==
    ASSUME DOMAIN tags \subseteq DOMAIN tags', tagged \subseteq tagged', NEW S, NEW t, OnTag(S, t)
    PROVE  OnTag(S, t)'
BY DEF OnTag

LEMMA OnTagSubset ==
    ASSUME NEW S, NEW T \in SUBSET S, NEW t, OnTag(S, t)
    PROVE  OnTag(T, t)
BY DEF OnTag

FilesOfLook(k) == FilesOf({f \in Stored : f[2] = k})

\* Before the clusters are written: what the re-clustering loaded is all there is.
Read(c) ==
    /\ loaded[c] = Stored
    /\ \A k \in DOMAIN run[c].files : run[c].files[k] = FilesOfLook(k)

\* The row of cluster k is written.
Done(c, k) ==
    LET p == run[c].pid[k] IN
    p \in Rows /\ (persons[p].ignored \/ OnTag(run[c].files[k], persons[p].tag))

\* After that: every face has the person of its cluster, the clusters done have a
\* row whose tag is on their photos, and the one in hand has the tag on them.
Written(c) ==
    /\ \A k \in DOMAIN run[c].files : run[c].files[k] = FilesOfLook(k)
    /\ \A f \in Stored :
          cluster[f] = IF f[2] \in DOMAIN run[c].files THEN run[c].pid[f[2]] ELSE Free
    /\ \A k \in DOMAIN run[c].files \ (run[c].todo \cup run[c].hand) : Done(c, k)
    /\ \A k \in run[c].hand :
          Known(c, run[c].pid[k]).ignored \/ OnTag(run[c].files[k], run[c].tag)
    /\ \A j, k \in run[c].hand : j = k
    /\ run[c].pc = "tag" => run[c].hand = {}
    /\ run[c].pc = "prune" => run[c].todo \cup run[c].hand = {}

Repairing == \A c \in Clusterers : calm = c =>
    /\ run[c].pc = "reconcile" => Read(c)
    /\ run[c].pc = "write" => Read(c) /\ run[c].todo = DOMAIN run[c].files
    /\ run[c].pc \in {"tag", "upsert", "prune"} => Written(c)

\* If a re-clustering is undisturbed after a step, the step was its own.
LEMMA OwnStep ==
    ASSUME TypeOK, Next, NEW c \in Clusterers, calm' = c
    PROVE  LoadEmbeddings(c) \/ (Recluster(c) /\ calm = c)
<1>1. c # "ui" /\ c # Nobody
  BY ActorsDiffer
<1>2. ~Review
  BY <1>1 DEF Review, StartName, MoveToNamedTag, SetPersonName, StartMerge, MergeTags, MergeRows,
     StartSplit, SplitTags, SplitRows, StartIgnore, SetIgnored, Begins, GoesOn
<1>3. ASSUME NEW w \in Workers, Extract(w)
      PROVE  FALSE
  BY <1>1, <1>3 DEF Extract, ExtractRows, LoadPersonCentroids, WriteMatches, TagMatches, Begins, GoesOn
<1>4. ASSUME NEW d \in Clusterers, Recluster(d)
      PROVE  LoadEmbeddings(c) \/ (Recluster(c) /\ calm = c)
  <2>1. CASE LoadEmbeddings(d)
    BY <1>1, <2>1 DEF LoadEmbeddings, Begins
  <2>2. CASE ~ LoadEmbeddings(d)
    <3>1. d = c /\ calm = c
      BY <1>1, <1>4, <2>2 DEF Recluster, Reconcile, WriteClusters, TagCluster, UpsertPerson,
         PruneEmptyPersons, GoesOn
    <3> QED
      BY <1>4, <3>1
  <2> QED
    BY <2>1, <2>2
<1> QED BY <1>2, <1>3, <1>4 DEF Next

LEMMA RepairLoad ==
    ASSUME TypeOK, NEW c \in Clusterers, LoadEmbeddings(c)
    PROVE  run'[c].pc = "reconcile" /\ Read(c)'
<1> DEFINE raw == {k \in Looks : Cardinality({f \in Stored : f[2] = k}) >= MinSamples}
<1>1. run'[c] = [pc |-> "reconcile", files |-> [k \in raw |-> FilesOfLook(k)]]
  BY DEF LoadEmbeddings, TypeOK, FilesOfLook
<1>2. cluster' = cluster /\ loaded'[c] = Stored
  BY DEF LoadEmbeddings, TypeOK, tables
<1>3. Stored' = Stored
  BY <1>2 DEF Stored
<1> HIDE DEF raw
<1>4. run'[c].pc = "reconcile" /\ run'[c].files = [k \in raw |-> FilesOfLook(k)]
  BY <1>1
<1>5. \A k : FilesOfLook(k)' = FilesOfLook(k)
  BY <1>3 DEF FilesOfLook, FilesOf
<1> QED BY <1>2, <1>3, <1>4, <1>5 DEF Read

LEMMA RepairReconcile ==
    ASSUME TypeOK, NEW c \in Clusterers, Reconcile(c), Read(c)
    PROVE  run'[c].pc = "write" /\ Read(c)' /\ run'[c].todo = DOMAIN run'[c].files
<1>1. PICK pid : run' = [run EXCEPT ![c] = Phase(c, "write", persons, pid, DOMAIN run[c].files, {}, None)]
  BY DEF Reconcile
<1>2. /\ run'[c].pc = "write" /\ run'[c].files = run[c].files
      /\ run'[c].todo = DOMAIN run[c].files
  BY <1>1 DEF Phase, TypeOK
<1>3. UNCHANGED <<cluster, loaded>>
  BY DEF Reconcile
<1> QED BY <1>2, <1>3 DEF Read, FilesOfLook, FilesOf, Stored

LEMMA RepairWrite ==
    ASSUME TypeOK, NEW c \in Clusterers, WriteClusters(c), Read(c), run[c].todo = DOMAIN run[c].files
    PROVE  run'[c].pc = "tag" /\ Written(c)'
<1>1. /\ run'[c].pc = "tag" /\ run'[c].files = run[c].files /\ run'[c].pid = run[c].pid
      /\ run'[c].todo = DOMAIN run[c].files /\ run'[c].hand = {}
  BY DEF WriteClusters, GoesTo, Phase, TypeOK
<1>2. DOMAIN run[c].pid = DOMAIN run[c].files /\ \A k \in DOMAIN run[c].files : run[c].pid[k] \in Ids
  BY DEF TypeOK, RunOK, WriteClusters
<1>3. \A f \in Stored : Clustered(c, f) = IF f[2] \in DOMAIN run[c].files THEN run[c].pid[f[2]] ELSE Free
  BY <1>2 DEF Clustered, Read
<1>4. \A f \in Faces : cluster'[f] = IF f \in Stored THEN Clustered(c, f) ELSE Unstored
  BY DEF WriteClusters
<1>5. \A f \in Stored : Clustered(c, f) # Unstored
  BY <1>2, <1>3 DEF Unstored, Free
<1>6. Stored' = Stored
  BY <1>4, <1>5 DEF Stored
<1>7. \A k : FilesOfLook(k)' = FilesOfLook(k)
  BY <1>6 DEF FilesOfLook, FilesOf
<1>8. \A f \in Stored : f \in Faces
  BY DEF Stored
<1>9. \A f \in Stored' : cluster'[f] = IF f[2] \in DOMAIN run'[c].files THEN run'[c].pid[f[2]] ELSE Free
  BY <1>1, <1>3, <1>4, <1>6, <1>8
<1> QED BY <1>1, <1>7, <1>9 DEF Written, Read

LEMMA RepairTag ==
    ASSUME TypeOK, NEW c \in Clusterers, NEW k \in Looks, TagCluster(c, k), Written(c)
    PROVE  run'[c].pc = "upsert" /\ Written(c)'
<1> DEFINE p == run[c].pid[k]
           was == Known(c, p)
<1>1. PICK u \in 0..MaxTag :
        /\ IF was.ignored THEN u = None /\ UNCHANGED <<tagVars, tagged>>
           ELSE /\ EnsurePersonTag(p, was.name, was.tag, u)
                /\ tagged' = tagged \cup (run[c].files[k] \X {u})
        /\ GoesTo(c, "upsert", run[c].todo \ {k}, {k}, u)
  BY DEF TagCluster
<1>2. /\ run'[c].pc = "upsert" /\ run'[c].files = run[c].files /\ run'[c].pid = run[c].pid
      /\ run'[c].seen = run[c].seen
      /\ run'[c].todo = run[c].todo \ {k} /\ run'[c].hand = {k} /\ run'[c].tag = u
  BY <1>1 DEF GoesTo, Phase, TypeOK
<1>3. UNCHANGED <<cluster, persons>> /\ run[c].pc = "tag" /\ k \in run[c].todo
  BY DEF TagCluster, tables
<1>4. p \in Ids /\ was \in Row
  BY <1>3, KnownType DEF TypeOK, RunOK
<1>5. /\ DOMAIN tags \subseteq DOMAIN tags' /\ tagged \subseteq tagged'
      /\ was.ignored \/ OnTag(run[c].files[k], u)'
  <2>1. CASE was.ignored
    BY <1>1, <2>1 DEF tagVars
  <2>2. CASE ~was.ignored
    <3>1. was.name \in Names \cup {NoName}
      BY <1>4, RowFields
    <3>2. u \in DOMAIN tags' /\ DOMAIN tags \subseteq DOMAIN tags'
      BY <1>1, <1>4, <2>2, <3>1, EnsuredIssued
    <3> QED BY <1>1, <1>2, <2>2, <3>2 DEF OnTag
  <2> QED BY <2>1, <2>2
<1>6. Stored' = Stored /\ \A j : FilesOfLook(j)' = FilesOfLook(j)
  BY <1>3 DEF Stored, FilesOfLook, FilesOf
<1>7. ASSUME NEW j \in DOMAIN run[c].files \ ((run[c].todo \ {k}) \cup {k})
      PROVE  Done(c, j)'
  <2>1. Done(c, j)
    BY <1>3, <1>7 DEF Written
  <2>2. \A S, t : OnTag(S, t) => OnTag(S, t)'
    BY <1>5, OnTagKept
  <2> QED BY <1>2, <1>3, <2>1, <2>2 DEF Done, Rows
<1>8. \A q : Known(c, q)' = Known(c, q)
  BY <1>2 DEF Known
<1>9. (\A j \in run[c].hand : Known(c, run[c].pid[j]).ignored \/ OnTag(run[c].files[j], run[c].tag))'
  BY <1>2, <1>5, <1>8
<1>10. \A f \in Stored' :
         cluster'[f] = IF f[2] \in DOMAIN run'[c].files THEN run'[c].pid[f[2]] ELSE Free
  BY <1>2, <1>3, <1>6 DEF Written
<1>11. \A j \in DOMAIN run'[c].files : run'[c].files[j] = FilesOfLook(j)'
  BY <1>2, <1>6 DEF Written
<1> QED BY <1>2, <1>7, <1>9, <1>10, <1>11 DEF Written

LEMMA RepairUpsert ==
    ASSUME TypeOK, DrawnAreOwned, NEW c \in Clusterers, NEW k \in Looks, UpsertPerson(c, k), Written(c)
    PROVE  run'[c].pc \in {"tag", "prune"} /\ Written(c)'
<1> DEFINE p == run[c].pid[k]
           was == Known(c, p)
           row == Person(was.name, run[c].tag, was.ignored, {k})
<1>1. /\ run'[c].pc = (IF run[c].todo = {} THEN "prune" ELSE "tag")
      /\ run'[c].files = run[c].files /\ run'[c].pid = run[c].pid /\ run'[c].seen = run[c].seen
      /\ run'[c].todo = run[c].todo /\ run'[c].hand = {}
  BY DEF UpsertPerson, GoesTo, Phase, TypeOK
<1>2. /\ UNCHANGED <<cluster, tags, tagged>> /\ persons' = Put(persons, p, row)
      /\ run[c].pc = "upsert" /\ k \in run[c].hand
  BY DEF UpsertPerson, tagVars
<1>3. Stored' = Stored /\ \A j : FilesOfLook(j)' = FilesOfLook(j)
  BY <1>2 DEF Stored, FilesOfLook, FilesOf
<1>4. \A S, t : OnTag(S, t)' <=> OnTag(S, t)
  BY <1>2 DEF OnTag
<1>5. /\ Rows' = Rows \cup {p} /\ persons'[p] = row
      /\ \A q \in Rows \ {p} : persons'[q] = persons[q]
  BY <1>2 DEF Put, Rows
<1>6. IsInjective(run[c].pid) /\ DOMAIN run[c].pid = DOMAIN run[c].files /\ k \in DOMAIN run[c].files
  BY <1>2 DEF DrawnAreOwned, Active, TypeOK, RunOK
<1>7. ASSUME NEW j \in DOMAIN run[c].files \ run[c].todo
      PROVE  Done(c, j)'
  <2>1. CASE j = k
    <3>1. was.ignored \/ OnTag(run[c].files[k], run[c].tag)
      BY <1>2 DEF Written
    <3>2. row.ignored = was.ignored /\ row.tag = run[c].tag
      BY DEF Person
    <3> QED BY <1>1, <1>4, <1>5, <2>1, <3>1, <3>2 DEF Done
  <2>2. CASE j # k
    <3>1. Done(c, j)
      BY <1>2, <1>7, <2>2 DEF Written
    <3>2. run[c].pid[j] # p
      BY <1>6, <2>2 DEF IsInjective
    <3> QED BY <1>1, <1>4, <1>5, <3>1, <3>2 DEF Done
  <2> QED BY <2>1, <2>2
<1>8. \A f \in Stored' :
        cluster'[f] = IF f[2] \in DOMAIN run'[c].files THEN run'[c].pid[f[2]] ELSE Free
  BY <1>1, <1>2, <1>3 DEF Written
<1>9. \A j \in DOMAIN run'[c].files : run'[c].files[j] = FilesOfLook(j)'
  BY <1>1, <1>3 DEF Written
<1> QED BY <1>1, <1>7, <1>8, <1>9 DEF Written

\* The last step leaves everything consistent.
LEMMA RepairPrune ==
    ASSUME TypeOK, DrawnAreOwned, NEW c \in Clusterers, PruneEmptyPersons(c), Written(c)
    PROVE  Consistent'
<1> DEFINE kept == {p \in Rows : persons[p].ignored \/ p \in Range(run[c].pid) \/ Members(p) # {}}
<1>1. /\ UNCHANGED <<cluster, tags, tagged>> /\ run[c].pc = "prune"
      /\ Rows' = kept /\ \A p \in kept : persons'[p] = persons[p]
  BY DEF PruneEmptyPersons, tagVars, Restrict, Rows
<1>2. IsInjective(run[c].pid) /\ DOMAIN run[c].pid = DOMAIN run[c].files
  BY <1>1 DEF DrawnAreOwned, Active, TypeOK, RunOK
<1>3. \A k \in DOMAIN run[c].files : Done(c, k)
  BY <1>1 DEF Written
<1>4. ASSUME NEW f \in Faces, cluster[f] \in Ids
      PROVE  f \in Stored /\ f[2] \in DOMAIN run[c].files /\ cluster[f] = run[c].pid[f[2]]
  <2>1. f \in Stored
    BY <1>4 DEF Stored, Unstored
  <2> QED BY <1>4, <2>1 DEF Written, Free
<1>5. Housed(Rows)'
  BY <1>1, <1>2, <1>3, <1>4 DEF Housed, Done, Range
<1>6. ASSUME NEW p \in kept, ~persons[p].ignored
      PROVE  OnTag(FilesOf(Members(p)), persons[p].tag)
  <2>1. p \in Ids
    BY DEF TypeOK, IsTable, Rows
  <2>2. p \in Range(run[c].pid)
    BY <1>2, <1>4, <1>6, <2>1 DEF Members, Range
  <2>3. PICK k \in DOMAIN run[c].files : run[c].pid[k] = p
    BY <1>2, <2>2 DEF Range
  <2>4. OnTag(run[c].files[k], persons[p].tag)
    BY <1>3, <1>6, <2>3 DEF Done
  <2>5. \A f \in Members(p) : f \in Stored /\ f[2] = k
    BY <1>2, <1>4, <2>1, <2>3 DEF Members, IsInjective
  <2>6. FilesOf(Members(p)) \subseteq FilesOfLook(k)
    BY <2>5 DEF FilesOf, FilesOfLook
  <2>7. run[c].files[k] = FilesOfLook(k)
    BY DEF Written
  <2> QED BY <2>4, <2>6, <2>7, OnTagSubset
<1>7. \A p : Members(p)' = Members(p)
  BY <1>1 DEF Members
<1>8. \A S, t : OnTag(S, t)' <=> OnTag(S, t)
  BY <1>1 DEF OnTag
<1>9. \A p \in Rows' : Shown(p)'
  BY <1>1, <1>6, <1>7, <1>8 DEF Shown, FilesOf
<1> QED BY <1>5, <1>9, ConsistentAfter

LEMMA RepairNext == TypeOK /\ DrawnAreOwned /\ Repairing /\ [Next]_vars => Repairing'
<1> SUFFICES ASSUME TypeOK, DrawnAreOwned, Repairing, [Next]_vars PROVE Repairing'
  OBVIOUS
<1>1. CASE UNCHANGED vars
  BY <1>1 DEF vars, Repairing, Read, Written, Done, OnTag, FilesOfLook, Stored, FilesOf, Known, Rows
<1>2. ASSUME Next, NEW c \in Clusterers, calm' = c
      PROVE  /\ run'[c].pc = "reconcile" => Read(c)'
             /\ run'[c].pc = "write" => Read(c)' /\ run'[c].todo = DOMAIN run'[c].files
             /\ run'[c].pc \in {"tag", "upsert", "prune"} => Written(c)'
  <2>1. LoadEmbeddings(c) \/ (Recluster(c) /\ calm = c)
    BY <1>2, OwnStep
  <2>2. CASE LoadEmbeddings(c)
    BY <2>2, RepairLoad
  <2>3. CASE calm = c /\ Reconcile(c)
    <3>1. Read(c)
      BY <2>3 DEF Repairing, Reconcile
    <3> QED BY <2>3, <3>1, RepairReconcile
  <2>4. CASE calm = c /\ WriteClusters(c)
    <3>1. Read(c) /\ run[c].todo = DOMAIN run[c].files
      BY <2>4 DEF Repairing, WriteClusters
    <3> QED BY <2>4, <3>1, RepairWrite
  <2>5. ASSUME calm = c, NEW k \in Looks, TagCluster(c, k)
        PROVE  run'[c].pc = "upsert" /\ Written(c)'
    <3>1. Written(c)
      BY <2>5 DEF Repairing, TagCluster
    <3> QED BY <2>5, <3>1, RepairTag
  <2>6. ASSUME calm = c, NEW k \in Looks, UpsertPerson(c, k)
        PROVE  run'[c].pc \in {"tag", "prune"} /\ Written(c)'
    <3>1. Written(c)
      BY <2>6 DEF Repairing, UpsertPerson
    <3> QED BY <2>6, <3>1, RepairUpsert
  <2>7. CASE PruneEmptyPersons(c)
    BY <2>7 DEF PruneEmptyPersons, TypeOK, IdleRun
  <2> QED BY <2>1, <2>2, <2>3, <2>4, <2>5, <2>6, <2>7 DEF Recluster
<1> QED BY <1>1, <1>2 DEF Repairing

LEMMA InitRepair == Init => Repairing
BY DEF Init, Repairing, IdleRun

LEMMA Repaired ==
    ASSUME TypeOK, DrawnAreOwned, Repairing, Next, NEW c \in Clusterers,
           run[c].pc = "prune", run'[c].pc = "idle", calm' = c
    PROVE  Consistent'
<1>1. LoadEmbeddings(c) \/ (Recluster(c) /\ calm = c)
  BY OwnStep
<1>2. ~LoadEmbeddings(c) /\ ~Reconcile(c) /\ ~WriteClusters(c)
  BY DEF LoadEmbeddings, Reconcile, WriteClusters
<1>3. \A k \in Looks : ~TagCluster(c, k) /\ ~UpsertPerson(c, k)
  BY DEF TagCluster, UpsertPerson
<1>4. PruneEmptyPersons(c) /\ calm = c
  BY <1>1, <1>2, <1>3 DEF Recluster
<1>5. Written(c)
  BY <1>4 DEF Repairing
<1> QED BY <1>4, <1>5, RepairPrune

\* A re-clustering nobody interferes with leaves every assigned face with a person
\* and every person shown with a live tag on all its photos, whatever rows, tags and
\* assignments earlier failures and interleavings left behind.
THEOREM RepairsEverything == Spec => ReclusterRepairs
<1>1. Spec => [](TypeOK /\ DrawnAreOwned /\ Repairing)
  BY InitTypes, NextTypes, InitFresh, FreshNext, InitDrawn, DrawnNext, InitRepair, RepairNext, PTL
  DEF Spec
<1>2. TypeOK /\ DrawnAreOwned /\ Repairing /\ [Next]_vars =>
        [\A c \in Clusterers :
           run[c].pc = "prune" /\ run'[c].pc = "idle" /\ calm' = c => Consistent']_vars
  BY Repaired
<1> QED BY <1>1, <1>2, PTL DEF Spec, ReclusterRepairs

---------------------------------------------------------------------------
(* An undisturbed edit keeps consistency.  What holds between the steps of   *)
(* each edit:                                                                *)

\* The tag of the new name exists; nothing else happened.
Naming == ui.op = "name" =>
    /\ Housed(Rows) /\ \A p \in Rows : Shown(p)
    /\ ui.tag \in DOMAIN tags /\ ui.p \in Rows /\ ui.old = persons[ui.p].tag

\* The photos are on the new tag, the row still has the old one.
Named == ui.op = "named" =>
    /\ Housed(Rows) /\ \A p \in Rows \ {ui.p} : Shown(p)
    /\ ui.p \in Rows => persons[ui.p].ignored \/ OnTag(FilesOf(Members(ui.p)), ui.tag)

\* The faces are moved, their photos may lack the target's tag.
Merging == ui.op = "merge" =>
    /\ Housed(Rows) /\ Members(ui.p) = {} /\ NoTagShared
    /\ \A p \in Rows \ {ui.p, ui.q} : Shown(p)
    /\ {ui.p, ui.q} \subseteq Rows /\ ui.p # ui.q
    /\ ui.old = persons[ui.p].tag /\ ui.tag = persons[ui.q].tag
    /\ persons[ui.q].ignored \/
          /\ ui.tag \in DOMAIN tags
          /\ \A f \in Members(ui.q) : f[1] \in ui.files \/ <<f[1], ui.tag>> \in tagged

\* The source has lost its tag, not its row.
Merged == ui.op = "merged" =>
    /\ Housed(Rows) /\ Members(ui.p) = {}
    /\ \A p \in Rows \ {ui.p} : Shown(p)

\* The faces belong to an id without row, whose label is no tag yet.
Splitting == ui.op = "split" =>
    /\ Housed(Rows \cup {ui.q}) /\ NoTagShared
    /\ \A p \in Rows : Shown(p)
    /\ ui.p \in Rows /\ ui.q \notin Rows /\ ui.old = persons[ui.p].tag
    /\ FilesOf(Members(ui.q)) \subseteq ui.files
    /\ Label(ui.q, NoName) \notin Range(tags)

\* Their photos are on the tag of that id.
Splitted == ui.op = "splitted" =>
    /\ Housed(Rows \cup {ui.q}) /\ ui.q \notin Rows
    /\ \A p \in Rows : Shown(p)
    /\ OnTag(FilesOf(Members(ui.q)), ui.tag)

\* The photos of the person are off its tag, and its row is about to say so.
Ignoring == ui.op = "ignore" =>
    /\ Housed(Rows) /\ ui.ignored
    /\ \A p \in Rows \ {ui.p} : Shown(p)

Editing ==
    calm = "ui" => Naming /\ Named /\ Merging /\ Merged /\ Splitting /\ Splitted /\ Ignoring

\* If the edit is undisturbed after a step, the step was its own, or its first.
LEMMA OwnEdit ==
    ASSUME Next, calm' = "ui"
    PROVE  /\ Review
           /\ ui.op # "idle" => calm = "ui"
           /\ ui.op = "idle" => Consistent /\ NoTagShared
<1>1. \A c \in Clusterers : c # "ui"
  BY ActorsDiffer
<1>2. Nobody # "ui"
  BY ActorsDiffer
<1>3. ASSUME NEW w \in Workers, Extract(w)
      PROVE  FALSE
  BY <1>2, <1>3 DEF Extract, ExtractRows, LoadPersonCentroids, WriteMatches, TagMatches, Begins, GoesOn
<1>4. ASSUME NEW c \in Clusterers, Recluster(c)
      PROVE  FALSE
  BY <1>1, <1>2, <1>4 DEF Recluster, LoadEmbeddings, Reconcile, WriteClusters, TagCluster, UpsertPerson,
     PruneEmptyPersons, Begins, GoesOn
<1>5. Review
  BY <1>3, <1>4 DEF Next
<1>6. ui.op # "idle" => calm = "ui"
  BY <1>2, <1>5 DEF Review, StartName, MoveToNamedTag, SetPersonName, StartMerge, MergeTags, MergeRows,
     StartSplit, SplitTags, SplitRows, StartIgnore, SetIgnored, GoesOn
<1>7. ui.op = "idle" => Consistent /\ NoTagShared
  BY <1>2, <1>5 DEF Review, StartName, MoveToNamedTag, SetPersonName, StartMerge, MergeTags, MergeRows,
     StartSplit, SplitTags, SplitRows, StartIgnore, SetIgnored, Begins
<1> QED BY <1>5, <1>6, <1>7

\* No other person shown has the tag of p, if no tag is shared.
LEMMA TagIsOwn ==
    ASSUME TypeOK, NoTagShared, NEW p \in Rows, NEW q \in Rows \ {p}, OnTag({}, persons[q].tag)
    PROVE  persons[q].tag # persons[p].tag
<1>1. persons[q].tag # None
  BY DEF TypeOK, OnTag, None
<1> QED BY <1>1 DEF NoTagShared, SharedWithOthers

\* A tag other than the deleted one keeps its photos.
LEMMA OnTagWithout ==
    ASSUME NEW old, DOMAIN tags' = DOMAIN tags \ {old}, tagged \ OfTag(old) \subseteq tagged',
           NEW S \in SUBSET Files, NEW t, t # old, OnTag(S, t)
    PROVE  OnTag(S, t)'
BY DEF OnTag, OfTag

LEMMA FilesOfMembers == \A p : FilesOf(Members(p)) \in SUBSET Files
BY DEF FilesOf, Members, Faces

LEMMA EditNameStarts ==
    ASSUME TypeOK, Consistent, NEW p \in Ids, NEW name \in Names \cup {NoName}, StartName(p, name)
    PROVE  ui'.op = "name" /\ Naming'
<1>1. PICK u \in 1..MaxTag :
        /\ EnsurePersonTag(p, name, persons[p].tag, u)
        /\ ui' = [op |-> "name", p |-> p, name |-> name, old |-> persons[p].tag, tag |-> u]
  BY DEF StartName
<1>2. UNCHANGED <<cluster, persons, tagged>> /\ p \in Rows /\ ui.op = "idle"
  BY DEF StartName, tables
<1>3. u \in DOMAIN tags' /\ DOMAIN tags \subseteq DOMAIN tags'
  BY <1>1, EnsuredIssued, BoundsNat
<1>4. \A S, t : OnTag(S, t) => OnTag(S, t)'
  BY <1>2, <1>3, OnTagKept
<1>5. Housed(Rows) /\ \A q \in Rows : Shown(q)
  BY ConsistentParts
<1>6. \A q \in Rows' : Shown(q)'
  BY <1>2, <1>4, <1>5 DEF Shown, Members, FilesOf, Rows
<1>7. Housed(Rows)'
  BY <1>2, <1>5 DEF Housed, Rows
<1> QED BY <1>1, <1>2, <1>3, <1>6, <1>7 DEF Naming, Rows

LEMMA EditNameMoves ==
    ASSUME TypeOK, Naming, MoveToNamedTag
    PROVE  ui'.op = "named" /\ Named'
<1>0. /\ Housed(Rows) /\ \A p \in Rows : Shown(p)
      /\ ui.tag \in DOMAIN tags /\ ui.p \in Rows /\ ui.old = persons[ui.p].tag
  BY DEF Naming, MoveToNamedTag
<1>1. /\ ui' = [op |-> "named", p |-> ui.p, name |-> ui.name, tag |-> ui.tag]
      /\ UNCHANGED <<cluster, persons>>
  BY DEF MoveToNamedTag, tables
<1>2. \A p : Members(p)' = Members(p)
  BY <1>1 DEF Members
<1>3. Housed(Rows)'
  BY <1>0, <1>1 DEF Housed, Rows
<1>4. SUFFICES /\ \A p \in Rows \ {ui.p} : Shown(p)'
               /\ persons[ui.p].ignored \/ OnTag(FilesOf(Members(ui.p)), ui.tag)'
  BY <1>1, <1>2, <1>3 DEF Named, Rows, FilesOf, OnTag
<1>5. CASE ui.tag = ui.old
  <2>1. UNCHANGED <<tags, tagged>>
    BY <1>5 DEF MoveToNamedTag
  <2>2. \A S, t : OnTag(S, t) <=> OnTag(S, t)'
    BY <2>1 DEF OnTag
  <2> QED BY <1>0, <1>1, <1>2, <1>5, <2>2 DEF Shown, FilesOf
<1>6. CASE ui.tag # ui.old
  <2> DEFINE files == FilesOf(Members(ui.p))
             moved == tagged \cup Assign(files, ui.tag)
             drop == ui.old # None /\ ~SharedWithOthers(ui.p, ui.old)
  <2>1. /\ tagged' = IF drop THEN moved \ OfTag(ui.old) ELSE moved
        /\ tags' = IF drop THEN Restrict(tags, DOMAIN tags \ {ui.old}) ELSE tags
    BY <1>6 DEF MoveToNamedTag
  <2>2. files \X {ui.tag} \subseteq moved /\ tagged \subseteq moved
    BY <1>0 DEF Assign
  <2>3. files \in SUBSET Files
    BY FilesOfMembers
  <2> HIDE DEF files, moved, drop
  <2>4. files \X {ui.tag} \subseteq tagged' /\ ui.tag \in DOMAIN tags'
    BY <1>0, <1>6, <2>1, <2>2, <2>3 DEF OfTag, Restrict
  <2>5. ASSUME NEW p \in Rows \ {ui.p}, ~persons[p].ignored
        PROVE  OnTag(FilesOf(Members(p)), persons[p].tag)'
    <3>1. OnTag(FilesOf(Members(p)), persons[p].tag)
      BY <1>0, <2>5 DEF Shown
    <3>2. CASE ~drop
      BY <1>1, <1>2, <2>1, <2>2, <3>1, <3>2 DEF OnTag, FilesOf
    <3>3. CASE drop
      <4>1. persons[p].tag # ui.old
        BY <3>3 DEF drop, SharedWithOthers
      <4>2. DOMAIN tags' = DOMAIN tags \ {ui.old} /\ tagged \ OfTag(ui.old) \subseteq tagged'
        BY <2>1, <2>2, <3>3 DEF Restrict
      <4>3. \A S \in SUBSET Files : OnTag(S, persons[p].tag) =>
               persons[p].tag \in DOMAIN tags' /\ S \X {persons[p].tag} \subseteq tagged'
        BY <4>1, <4>2 DEF OnTag, OfTag
      <4> QED BY <1>1, <1>2, <3>1, <4>3, FilesOfMembers DEF OnTag, FilesOf
    <3> QED BY <3>2, <3>3
  <2>6. \A p \in Rows \ {ui.p} : Shown(p)'
    BY <1>1, <2>5 DEF Shown
  <2>7. OnTag(FilesOf(Members(ui.p)), ui.tag)'
    BY <1>1, <1>2, <2>4 DEF OnTag, FilesOf, files
  <2> QED BY <2>6, <2>7
<1> QED BY <1>5, <1>6

LEMMA EditNameEnds ==
    ASSUME TypeOK, Named, SetPersonName
    PROVE  Consistent'
<1>0. /\ Housed(Rows) /\ \A p \in Rows \ {ui.p} : Shown(p)
      /\ ui.p \in Rows => persons[ui.p].ignored \/ OnTag(FilesOf(Members(ui.p)), ui.tag)
  BY DEF Named, SetPersonName
<1>1. UNCHANGED <<cluster, tags, tagged>> /\ Rows' = Rows
  BY DEF SetPersonName, tagVars, Rows
<1>2. /\ \A p \in Rows \ {ui.p} : persons'[p] = persons[p]
      /\ ui.p \in Rows => persons'[ui.p].tag = ui.tag /\ persons'[ui.p].ignored = persons[ui.p].ignored
  BY DEF SetPersonName, Person
<1>3. \A S, t : OnTag(S, t)' <=> OnTag(S, t)
  BY <1>1 DEF OnTag
<1>4. \A p : Members(p)' = Members(p)
  BY <1>1 DEF Members
<1>5. \A p \in Rows' : Shown(p)'
  BY <1>0, <1>1, <1>2, <1>3, <1>4 DEF Shown, FilesOf
<1>6. Housed(Rows)'
  BY <1>0, <1>1 DEF Housed
<1> QED BY <1>5, <1>6, ConsistentAfter

LEMMA EditMergeStarts ==
    ASSUME TypeOK, Consistent, NoTagShared, NEW p \in Ids, NEW q \in Ids, StartMerge(p, q)
    PROVE  ui'.op = "merge" /\ Merging'
<1>0. Housed(Rows) /\ \A r \in Rows : Shown(r)
  BY ConsistentParts
<1>1. /\ ui' = [op |-> "merge", p |-> p, q |-> q, files |-> FilesOf(Members(p)),
                old |-> persons[p].tag, tag |-> persons[q].tag]
      /\ \A f \in Faces : cluster'[f] = IF cluster[f] = p THEN q ELSE cluster[f]
      /\ UNCHANGED <<persons, tags, tagged>> /\ {p, q} \subseteq Rows /\ p # q
  BY DEF StartMerge, tagVars
<1>2. /\ ui'.op = "merge" /\ ui'.p = p /\ ui'.q = q /\ ui'.files = FilesOf(Members(p))
      /\ ui'.old = persons[p].tag /\ ui'.tag = persons[q].tag
  BY <1>1
<1>3. Members(p)' = {} /\ Members(q)' = Members(p) \cup Members(q)
  BY <1>1 DEF Members
<1>4. \A r \in Rows \ {p, q} : Members(r)' = Members(r)
  BY <1>1 DEF Members
<1>5. \A S, t : OnTag(S, t)' <=> OnTag(S, t)
  BY <1>1 DEF OnTag
<1>6. \A r \in Rows' \ {p, q} : Shown(r)'
  BY <1>0, <1>1, <1>4, <1>5 DEF Shown, FilesOf, Rows
<1>7. Housed(Rows)' /\ NoTagShared'
  BY <1>0, <1>1 DEF Housed, Rows, NoTagShared, SharedWithOthers
<1>8. persons[q].ignored \/
        /\ persons[q].tag \in DOMAIN tags
        /\ \A f \in Members(q)' : f[1] \in FilesOf(Members(p)) \/ <<f[1], persons[q].tag>> \in tagged
  <2> SUFFICES ASSUME ~persons[q].ignored
               PROVE  /\ persons[q].tag \in DOMAIN tags
                      /\ \A f \in Members(q)' :
                            f[1] \in FilesOf(Members(p)) \/ <<f[1], persons[q].tag>> \in tagged
    OBVIOUS
  <2>1. OnTag(FilesOf(Members(q)), persons[q].tag)
    BY <1>0, <1>1 DEF Shown
  <2> QED BY <1>3, <2>1 DEF OnTag, FilesOf
<1> QED BY <1>1, <1>2, <1>3, <1>6, <1>7, <1>8 DEF Merging, Rows

LEMMA EditMergeTags ==
    ASSUME TypeOK, Merging, MergeTags
    PROVE  ui'.op = "merged" /\ Merged'
<1>0. /\ Housed(Rows) /\ Members(ui.p) = {} /\ NoTagShared
      /\ \A p \in Rows \ {ui.p, ui.q} : Shown(p)
      /\ {ui.p, ui.q} \subseteq Rows /\ ui.p # ui.q
      /\ ui.old = persons[ui.p].tag /\ ui.tag = persons[ui.q].tag
      /\ persons[ui.q].ignored \/
            /\ ui.tag \in DOMAIN tags
            /\ \A f \in Members(ui.q) : f[1] \in ui.files \/ <<f[1], ui.tag>> \in tagged
  BY DEF Merging, MergeTags
<1>1. /\ ui' = [op |-> "merged", p |-> ui.p, q |-> ui.q] /\ UNCHANGED <<cluster, persons>>
      /\ tagged' = (tagged \cup Assign(ui.files, ui.tag)) \ OfTag(ui.old)
      /\ DOMAIN tags' = DOMAIN tags \ {ui.old}
  BY DEF MergeTags, tables, Restrict
<1>2. \A p : Members(p)' = Members(p)
  BY <1>1 DEF Members
<1>3. Housed(Rows)' /\ Members(ui.p)' = {}
  BY <1>0, <1>1, <1>2 DEF Housed, Rows
<1>4. ASSUME NEW p \in Rows \ {ui.p}, ~persons[p].ignored
      PROVE  OnTag(FilesOf(Members(p)), persons[p].tag)'
  <2>1. persons[p].tag \in DOMAIN tags
    BY <1>0, <1>4 DEF Shown, OnTag
  <2>2. persons[p].tag # ui.old
    <3>1. OnTag({}, persons[p].tag)
      BY <2>1 DEF OnTag
    <3> QED BY <1>0, <3>1, TagIsOwn
  <2>3. ASSUME NEW f \in Members(p)
        PROVE  <<f[1], persons[p].tag>> \in tagged \cup Assign(ui.files, ui.tag)
    <3>1. CASE p = ui.q
      BY <1>0, <1>4, <2>1, <3>1 DEF Assign
    <3>2. CASE p # ui.q
      <4>1. OnTag(FilesOf(Members(p)), persons[p].tag)
        BY <1>0, <1>4, <3>2 DEF Shown
      <4> QED BY <4>1 DEF OnTag, FilesOf
    <3> QED BY <3>1, <3>2
  <2>4. \A f \in Members(p) : <<f[1], persons[p].tag>> \in tagged'
    BY <1>1, <2>2, <2>3 DEF OfTag
  <2>5. FilesOf(Members(p)) \X {persons[p].tag} \subseteq tagged'
    BY <2>4 DEF FilesOf
  <2> QED BY <1>1, <1>2, <2>1, <2>2, <2>5 DEF OnTag, FilesOf
<1>5. \A p \in Rows \ {ui.p} : Shown(p)'
  BY <1>1, <1>4 DEF Shown
<1>6. ui'.op = "merged" /\ ui'.p = ui.p /\ Rows' = Rows
  BY <1>1 DEF Rows
<1> QED BY <1>2, <1>3, <1>5, <1>6 DEF Merged

LEMMA EditMergeEnds ==
    ASSUME TypeOK, Merged, MergeRows
    PROVE  Consistent'
<1>0. /\ Housed(Rows) /\ Members(ui.p) = {}
      /\ \A p \in Rows \ {ui.p} : Shown(p)
  BY DEF Merged, MergeRows
<1>1. UNCHANGED <<cluster, tags, tagged>>
  BY DEF MergeRows, tagVars
<1> DEFINE left == Restrict(persons, Rows \ {ui.p})
<1>2. DOMAIN left = Rows \ {ui.p} /\ \A p \in Rows \ {ui.p} : left[p] = persons[p]
  BY DEF Restrict
<1>3. persons' = Recomputed(left, ui.q)
  BY DEF MergeRows
<1> HIDE DEF left
<1>4. Rows' = Rows \ {ui.p}
  BY <1>2, <1>3, RecomputedRows DEF Rows
<1>5. \A p \in Rows' : persons'[p].tag = persons[p].tag /\ persons'[p].ignored = persons[p].ignored
  BY <1>2, <1>3, <1>4, RecomputedTag
<1>6. \A S, t : OnTag(S, t)' <=> OnTag(S, t)
  BY <1>1 DEF OnTag
<1>7. \A p : Members(p)' = Members(p)
  BY <1>1 DEF Members
<1>8. \A p \in Rows' : Shown(p)'
  BY <1>0, <1>4, <1>5, <1>6, <1>7 DEF Shown, FilesOf
<1>9. Housed(Rows)'
  BY <1>0, <1>1, <1>4 DEF Housed, Members
<1> QED BY <1>8, <1>9, ConsistentAfter

LEMMA EditSplitStarts ==
    ASSUME TypeOK, Fresh, Consistent, NoTagShared, NEW p \in Ids, NEW faces \in SUBSET Members(p),
           StartSplit(p, faces), calm' = "ui"
    PROVE  ui'.op = "split" /\ Splitting'
<1>0. Housed(Rows) /\ \A r \in Rows : Shown(r)
  BY ConsistentParts
<1>a. PICK q : q = nextPerson
  OBVIOUS
<1>1. /\ ui' = [op |-> "split", p |-> p, q |-> q, files |-> FilesOf(faces), old |-> persons[p].tag]
      /\ \A f \in Faces : cluster'[f] = IF f \in faces THEN q ELSE cluster[f]
      /\ UNCHANGED <<persons, tags, tagged>> /\ p \in Rows
  BY <1>a DEF StartSplit, tagVars
<1>2. /\ ui'.op = "split" /\ ui'.p = p /\ ui'.q = q /\ ui'.files = FilesOf(faces)
      /\ ui'.old = persons[p].tag
  BY <1>1
<1>3. q \notin Rows /\ \A f \in Faces : cluster[f] # q
  <2>1. q \in Int /\ \A r \in Rows : r \in Int /\ r < q
    BY <1>a DEF TypeOK, IsTable, Rows, Fresh, FreshRows, Ids
  <2>2. \A f \in Faces : cluster[f] \in Int /\ cluster[f] < q
    BY <1>a DEF TypeOK, Fresh, FreshFaces, Unstored, Free, Ids
  <2> QED BY <2>1, <2>2
<1>4. Label(q, NoName) \notin Range(tags)
  BY <1>a, ActorsDiffer DEF StartSplit, Begins
<1>5. Members(q)' = faces
  BY <1>1, <1>3 DEF Members
<1>6. \A r \in Rows : Members(r)' \subseteq Members(r)
  BY <1>1, <1>3 DEF Members
<1>7. ASSUME NEW r \in Rows
      PROVE  Shown(r)'
  <2>1. FilesOf(Members(r))' \subseteq FilesOf(Members(r))
    BY <1>6 DEF FilesOf
  <2> QED BY <1>0, <1>1, <2>1 DEF Shown, OnTag
<1>9. NoTagShared' /\ Rows' = Rows
  BY <1>1 DEF NoTagShared, SharedWithOthers, Rows
<1>11. Housed(Rows \cup {ui.q})' /\ FilesOf(Members(ui.q))' \subseteq ui'.files
  <2>1. \A f \in Faces : cluster'[f] \in Ids => cluster'[f] \in Rows \cup {q}
    BY <1>0, <1>1 DEF Housed
  <2>2. FilesOf(Members(ui.q))' = FilesOf(faces)
    BY <1>2, <1>5 DEF FilesOf, Members
  <2> QED BY <1>2, <1>9, <2>1, <2>2 DEF Housed
<1>12. (Label(ui.q, NoName) \notin Range(tags))'
  BY <1>1, <1>2, <1>4 DEF Label, Range
<1> QED BY <1>1, <1>2, <1>3, <1>7, <1>9, <1>11, <1>12 DEF Splitting

LEMMA EditSplitTags ==
    ASSUME TypeOK, Issued, Splitting, SplitTags
    PROVE  ui'.op = "splitted" /\ Splitted'
<1>0. /\ Housed(Rows \cup {ui.q}) /\ NoTagShared
      /\ \A p \in Rows : Shown(p)
      /\ ui.p \in Rows /\ ui.q \notin Rows /\ ui.old = persons[ui.p].tag
      /\ FilesOf(Members(ui.q)) \subseteq ui.files
      /\ Label(ui.q, NoName) \notin Range(tags)
  BY DEF Splitting, SplitTags
<1> DEFINE left == {x \in ui.files : x \notin FilesOf(Members(ui.p))}
<1>1. PICK u \in 1..MaxTag :
        /\ EnsurePersonTag(ui.q, NoName, None, u)
        /\ tagged' = (tagged \cup (ui.files \X {u})) \ (left \X {ui.old})
        /\ ui' = [op |-> "splitted", p |-> ui.p, q |-> ui.q, tag |-> u]
  BY DEF SplitTags
<1>2. /\ ui'.op = "splitted" /\ ui'.q = ui.q /\ ui'.tag = u
      /\ UNCHANGED <<cluster, persons>> /\ Rows' = Rows
  BY <1>1 DEF SplitTags, tables, Rows
<1>3. ui.q \in Ids /\ u \in 0..MaxTag
  BY BoundsNat DEF TypeOK, EditOK, SplitTags
<1>4. u \in DOMAIN tags' /\ DOMAIN tags \subseteq DOMAIN tags'
  BY <1>1, <1>3, EnsuredIssued
<1>5. u = nextTag
  <2>1. None \notin DOMAIN tags
    BY DEF TypeOK, None
  <2>2. ~(u \in DOMAIN tags /\ tags[u] = Label(ui.q, NoName))
    BY <1>0 DEF Range
  <2> QED BY <1>1, <2>1, <2>2 DEF EnsurePersonTag
<1>6. u # ui.old /\ u \notin DOMAIN tags
  <2>1. ui.old < nextTag /\ ui.old \in Int /\ nextTag \in Int
    BY <1>0 DEF Issued, IssuedEdit, SplitTags, TypeOK, EditOK
  <2>2. nextTag \notin DOMAIN tags
    BY DEF TypeOK
  <2> QED BY <1>5, <2>1, <2>2
<1> HIDE DEF left
<1>7. ASSUME NEW p \in Rows, ~persons[p].ignored
      PROVE  FilesOf(Members(p)) \X {persons[p].tag} \subseteq tagged' /\ persons[p].tag \in DOMAIN tags'
  <2>1. OnTag(FilesOf(Members(p)), persons[p].tag)
    BY <1>0, <1>7 DEF Shown
  <2>2. CASE p = ui.p
    BY <1>1, <1>4, <2>1, <2>2 DEF OnTag, left
  <2>3. CASE p # ui.p
    <3>1. OnTag({}, persons[p].tag)
      BY <2>1 DEF OnTag
    <3>2. persons[p].tag # ui.old
      BY <1>0, <2>3, <3>1, TagIsOwn
    <3> QED BY <1>1, <1>4, <2>1, <3>2 DEF OnTag
  <2> QED BY <2>2, <2>3
<1>8. \A p : Members(p)' = Members(p)
  BY <1>2 DEF Members
<1>9. \A p \in Rows' : Shown(p)'
  BY <1>2, <1>7, <1>8 DEF Shown, OnTag, FilesOf
<1>10. FilesOf(Members(ui.q)) \X {u} \subseteq tagged'
  BY <1>0, <1>1, <1>6
<1>11. OnTag(FilesOf(Members(ui.q)), ui.tag)'
  BY <1>2, <1>4, <1>8, <1>10 DEF OnTag, FilesOf
<1>12. Housed(Rows \cup {ui.q})'
  BY <1>0, <1>2 DEF Housed
<1> QED BY <1>0, <1>2, <1>9, <1>11, <1>12 DEF Splitted

LEMMA EditSplitEnds ==
    ASSUME TypeOK, Splitted, SplitRows
    PROVE  Consistent'
<1>0. /\ Housed(Rows \cup {ui.q}) /\ ui.q \notin Rows
      /\ \A p \in Rows : Shown(p)
      /\ OnTag(FilesOf(Members(ui.q)), ui.tag)
  BY DEF Splitted, SplitRows
<1>1. UNCHANGED <<cluster, tags, tagged>>
  BY DEF SplitRows, tagVars
<1> DEFINE one == Put(persons, ui.q, NewPerson(ui.tag))
           two == Recomputed(one, ui.q)
<1>2. /\ DOMAIN one = Rows \cup {ui.q} /\ one[ui.q].tag = ui.tag
      /\ \A p \in Rows : one[p] = persons[p]
  BY <1>0 DEF Put, NewPerson, Person, Rows
<1> HIDE DEF one
<1>3. /\ DOMAIN two = Rows \cup {ui.q}
      /\ \A p \in DOMAIN two : two[p].tag = one[p].tag /\ two[p].ignored = one[p].ignored
  BY <1>2, RecomputedRows, RecomputedTag
<1> HIDE DEF two
<1>4. persons' = Recomputed(two, ui.p)
  BY DEF SplitRows, one, two
<1>5. /\ Rows' = Rows \cup {ui.q} /\ persons'[ui.q].tag = ui.tag
      /\ \A p \in Rows : persons'[p].tag = persons[p].tag /\ persons'[p].ignored = persons[p].ignored
  BY <1>2, <1>3, <1>4, RecomputedRows, RecomputedTag DEF Rows
<1>6. \A S, t : OnTag(S, t)' <=> OnTag(S, t)
  BY <1>1 DEF OnTag
<1>7. \A p : Members(p)' = Members(p)
  BY <1>1 DEF Members
<1>8. \A p \in Rows' : Shown(p)'
  BY <1>0, <1>5, <1>6, <1>7 DEF Shown, FilesOf
<1>9. Housed(Rows)'
  BY <1>0, <1>1, <1>5 DEF Housed
<1> QED BY <1>8, <1>9, ConsistentAfter

LEMMA EditIgnoreStarts ==
    ASSUME TypeOK, Consistent, NoTagShared, NEW p \in Ids, NEW b \in BOOLEAN, StartIgnore(p, b),
           calm' = "ui"
    PROVE  ui'.op = "ignore" /\ Ignoring'
<1>0. Housed(Rows) /\ \A r \in Rows : Shown(r)
  BY ConsistentParts
<1>1. b = TRUE
  BY ActorsDiffer DEF StartIgnore, Begins
<1>2. /\ ui' = [op |-> "ignore", p |-> p, ignored |-> b] /\ UNCHANGED <<cluster, persons, tags>>
      /\ tagged' = tagged \ (FilesOf(Members(p)) \X {persons[p].tag}) /\ p \in Rows
  BY <1>1 DEF StartIgnore, tables, tagVars
<1>3. ASSUME NEW r \in Rows \ {p}, ~persons[r].ignored
      PROVE  persons[r].tag \in DOMAIN tags /\ FilesOf(Members(r)) \X {persons[r].tag} \subseteq tagged'
  <2>1. OnTag(FilesOf(Members(r)), persons[r].tag)
    BY <1>0, <1>3 DEF Shown
  <2>2. OnTag({}, persons[r].tag)
    BY <2>1 DEF OnTag
  <2>3. persons[r].tag # persons[p].tag
    BY <1>2, <2>2, TagIsOwn
  <2> QED BY <1>2, <2>1, <2>3 DEF OnTag
<1>4. \A r : Members(r)' = Members(r)
  BY <1>2 DEF Members
<1>5. \A r \in Rows \ {p} : Shown(r)'
  BY <1>2, <1>3, <1>4 DEF Shown, OnTag, FilesOf
<1>6. Housed(Rows)' /\ Rows' = Rows
  BY <1>0, <1>2 DEF Housed, Rows
<1>7. ui'.op = "ignore" /\ ui'.p = p /\ ui'.ignored = TRUE
  BY <1>1, <1>2
<1> QED BY <1>5, <1>6, <1>7 DEF Ignoring

LEMMA EditIgnoreEnds ==
    ASSUME TypeOK, Ignoring, SetIgnored
    PROVE  Consistent'
<1>0. /\ Housed(Rows) /\ ui.ignored
      /\ \A p \in Rows \ {ui.p} : Shown(p)
  BY DEF Ignoring, SetIgnored
<1>1. UNCHANGED <<cluster, tags, tagged>> /\ Rows' = Rows
  BY DEF SetIgnored, tagVars, Rows
<1>2. /\ \A p \in Rows \ {ui.p} : persons'[p] = persons[p]
      /\ ui.p \in Rows => persons'[ui.p].ignored
  BY <1>0 DEF SetIgnored, Person
<1>3. \A S, t : OnTag(S, t)' <=> OnTag(S, t)
  BY <1>1 DEF OnTag
<1>4. \A p : Members(p)' = Members(p)
  BY <1>1 DEF Members
<1>5. \A p \in Rows' : Shown(p)'
  BY <1>0, <1>1, <1>2, <1>3, <1>4 DEF Shown, FilesOf
<1>6. Housed(Rows)'
  BY <1>0, <1>1 DEF Housed
<1> QED BY <1>5, <1>6, ConsistentAfter

LEMMA EditNext == TypeOK /\ Fresh /\ Issued /\ Editing /\ [Next]_vars => Editing'
<1> SUFFICES ASSUME TypeOK, Fresh, Issued, Editing, [Next]_vars, calm' = "ui"
             PROVE  /\ Naming' /\ Named' /\ Merging' /\ Merged'
                    /\ Splitting' /\ Splitted' /\ Ignoring'
  BY DEF Editing
<1>1. CASE UNCHANGED vars
  <2>1. calm = "ui"
    BY <1>1 DEF vars
  <2>2. Naming /\ Named /\ Merging /\ Merged /\ Splitting /\ Splitted /\ Ignoring
    BY <2>1 DEF Editing
  <2>3. \A S, t : OnTag(S, t)' <=> OnTag(S, t)
    BY <1>1 DEF vars, OnTag
  <2>4. \A p : Members(p)' = Members(p) /\ (Shown(p)' <=> Shown(p))
    BY <1>1, <2>3 DEF vars, Members, Shown, FilesOf
  <2>5. \A S : Housed(S)' <=> Housed(S)
    BY <1>1 DEF vars, Housed
  <2>6. NoTagShared' <=> NoTagShared
    BY <1>1 DEF vars, NoTagShared, SharedWithOthers, Rows
  <2>7. UNCHANGED <<persons, ui, tags, tagged>> /\ Rows' = Rows
    BY <1>1 DEF vars, Rows
  <2>8. Naming' /\ Named' /\ Merged' /\ Ignoring'
    BY <2>2, <2>3, <2>4, <2>5, <2>7 DEF Naming, Named, Merged, Ignoring, FilesOf
  <2>9. Merging'
    BY <2>2, <2>4, <2>5, <2>6, <2>7 DEF Merging
  <2>10. Splitting' /\ Splitted'
    BY <2>2, <2>3, <2>4, <2>5, <2>6, <2>7 DEF Splitting, Splitted, FilesOf, Label, Range
  <2> QED BY <2>8, <2>9, <2>10
<1>2. CASE Next
  <2>0. /\ Review
        /\ ui.op # "idle" => Naming /\ Named /\ Merging /\ Merged /\ Splitting /\ Splitted /\ Ignoring
        /\ ui.op = "idle" => Consistent /\ NoTagShared
    BY <1>2, OwnEdit DEF Editing
  <2> DEFINE Goal == Naming /\ Named /\ Merging /\ Merged /\ Splitting /\ Splitted /\ Ignoring
  <2>1. /\ ui'.op = "idle" => Goal'
        /\ ui'.op = "name" /\ Naming' => Goal'
        /\ ui'.op = "named" /\ Named' => Goal'
        /\ ui'.op = "merge" /\ Merging' => Goal'
        /\ ui'.op = "merged" /\ Merged' => Goal'
        /\ ui'.op = "split" /\ Splitting' => Goal'
        /\ ui'.op = "splitted" /\ Splitted' => Goal'
        /\ ui'.op = "ignore" /\ Ignoring' => Goal'
    BY DEF Naming, Named, Merging, Merged, Splitting, Splitted, Ignoring
  <2> HIDE DEF Goal
  <2>2. ASSUME NEW p \in Ids, NEW name \in Names \cup {NoName}, StartName(p, name)
        PROVE  Goal'
    BY <2>0, <2>1, <2>2, EditNameStarts DEF StartName
  <2>3. ASSUME NEW p \in Ids, NEW q \in Ids, StartMerge(p, q)
        PROVE  Goal'
    BY <2>0, <2>1, <2>3, EditMergeStarts DEF StartMerge
  <2>4. ASSUME NEW p \in Ids, NEW faces \in SUBSET Members(p), StartSplit(p, faces)
        PROVE  Goal'
    BY <2>0, <2>1, <2>4, EditSplitStarts DEF StartSplit
  <2>5. ASSUME NEW p \in Ids, NEW b \in BOOLEAN, StartIgnore(p, b)
        PROVE  Goal'
    BY <2>0, <2>1, <2>5, EditIgnoreStarts DEF StartIgnore
  <2>6. ASSUME MoveToNamedTag
        PROVE  Goal'
    BY <2>0, <2>1, <2>6, EditNameMoves DEF MoveToNamedTag
  <2>7. ASSUME MergeTags
        PROVE  Goal'
    BY <2>0, <2>1, <2>7, EditMergeTags DEF MergeTags
  <2>8. ASSUME SplitTags
        PROVE  Goal'
    BY <2>0, <2>1, <2>8, EditSplitTags DEF SplitTags
  <2>9. ASSUME SetPersonName \/ MergeRows \/ SplitRows \/ SetIgnored
        PROVE  Goal'
    BY <2>1, <2>9 DEF SetPersonName, MergeRows, SplitRows, SetIgnored, Idle
  <2>10. Goal'
    BY <2>0, <2>2, <2>3, <2>4, <2>5, <2>6, <2>7, <2>8, <2>9 DEF Review
  <2> QED BY <2>10 DEF Goal
<1> QED BY <1>1, <1>2

LEMMA InitEdit == Init => Editing
BY ActorsDiffer DEF Init, Editing

LEMMA Edited ==
    ASSUME TypeOK, Editing, Next, ui.op # "idle", ui'.op = "idle", calm' = "ui"
    PROVE  Consistent'
<1>1. Review /\ calm = "ui"
  BY OwnEdit
<1>2. Named /\ Merged /\ Splitted /\ Ignoring
  BY <1>1 DEF Editing
<1>3. SetPersonName \/ MergeRows \/ SplitRows \/ SetIgnored
  BY <1>1 DEF Review, StartName, MoveToNamedTag, StartMerge, MergeTags, StartSplit, SplitTags, StartIgnore
<1> QED BY <1>2, <1>3, EditNameEnds, EditMergeEnds, EditSplitEnds, EditIgnoreEnds

\* An edit on the review page that nobody interferes with, begun when everything is
\* consistent and no two persons share a tag, leaves everything consistent: naming,
\* merging, splitting and ignoring move the photos to where the rows point.
THEOREM EditsAreConsistent == Spec => EditsKeepConsistency
<1>1. Spec => [](TypeOK /\ Fresh /\ Issued /\ Editing)
  BY InitTypes, NextTypes, InitFresh, FreshNext, InitIssued, IssuedNext, InitEdit, EditNext, PTL
  DEF Spec
<1>2. TypeOK /\ Editing /\ [Next]_vars =>
        [ui.op # "idle" /\ ui'.op = "idle" /\ calm' = "ui" => Consistent']_vars
  BY Edited
<1> QED BY <1>1, <1>2, PTL DEF Spec, EditsKeepConsistency
=============================================================================
