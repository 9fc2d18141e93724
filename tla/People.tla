------------------------------- MODULE People -------------------------------
(***************************************************************************)
(* lib/face_pipeline.py for one user: the faces found in photos, the       *)
(* persons they are grouped into, and the system tags that show a person   *)
(* in Nextcloud.  Three kinds of actor change them: the worker of a photo  *)
(* (extract_faces), a full re-clustering (cluster_and_tag, a background    *)
(* task or the auto-cluster thread), and the review page, whose handlers   *)
(* run one at a time on the event loop.  A step is one transaction on the  *)
(* face tables or one group of calls to Nextcloud.                         *)
(*                                                                         *)
(* Embeddings are abstract: a face is a pair <<photo, look>>, faces of one *)
(* look are near each other and no others are.  A centroid is the set of   *)
(* looks it was averaged from: one look fits for certain, several fit each *)
(* of theirs perhaps.                                                      *)
(***************************************************************************)
EXTENDS Integers, FiniteSets, Functions

CONSTANTS
    Files,          \* photos
    Looks,          \* how a face looks
    Names,          \* names the user gives
    NoName,         \* the empty name
    MinSamples,     \* face_min_samples
    Clusterers,     \* re-clusterings that may run at once
    Workers,        \* queue workers that extract faces
    Nobody,         \* no actor
    MaxPerson,      \* bound on person ids
    MaxTag,         \* bound on tag ids
    MaxBegun        \* bound on operations

ASSUME LooksFinite == IsFiniteSet(Looks)
ASSUME BoundsNat == MaxPerson \in Nat /\ MaxTag \in Nat
ASSUME ActorsDiffer == "ui" \notin Clusterers /\ Nobody \notin Clusterers \cup {"ui"}

VARIABLES
    cluster,        \* face_embeddings.cluster_id
    persons,        \* face_persons, by person id
    nextPerson,     \* face_meta.next_person_id
    tags,           \* system tags of Nextcloud: id to display name
    nextTag,        \* next tag id Nextcloud gives out
    tagged,         \* pairs <<file, tag>>
    ui,             \* the operation of the review page in progress
    run,            \* the re-clusterings
    loaded,         \* the faces each of them read whose rows are still there
    match,          \* the workers in extract_faces
    calm,           \* history: the actor nobody interfered with since it began
    begun           \* how many operations began so far

vars == <<cluster, persons, nextPerson, tags, nextTag, tagged, ui, run, loaded, match, calm, begun>>
tables == <<cluster, persons, nextPerson>>
tagVars == <<tags, nextTag>>
runVars == <<run, loaded>>

Faces == Files \X Looks
Unstored == -1
Free == 0
None == 0                        \* tag_id of a person without tag
Ids == 1..MaxPerson
Row == [name: Names \cup {NoName}, tag: 0..MaxTag, ignored: BOOLEAN, look: SUBSET Looks]

Members(p) == {f \in Faces : cluster[f] = p}
FilesOf(S) == {f[1] : f \in S}
LooksOf(S) == {f[2] : f \in S}
Stored == {f \in Faces : cluster[f] # Unstored}
Rows == DOMAIN persons

Person(name, tag, ignored, look) ==
    [name |-> name, tag |-> tag, ignored |-> ignored, look |-> look]
NewPerson(tag) == Person(NoName, tag, FALSE, {})

Empty == [x \in {} |-> None]
Put(f, x, y) == [z \in DOMAIN f \cup {x} |-> IF z = x THEN y ELSE f[z]]

Idle == [op |-> "idle"]
IdleRun == [pc |-> "idle"]

Init ==
    /\ cluster = [f \in Faces |-> Unstored]
    /\ persons = Empty /\ nextPerson = 1
    /\ tags = Empty /\ nextTag = 1 /\ tagged = {}
    /\ ui = Idle
    /\ run = [c \in Clusterers |-> IdleRun] /\ loaded = [c \in Clusterers |-> {}]
    /\ match = [w \in Workers |-> IdleRun]
    /\ calm = Nobody /\ begun = 0

\* The history variables: a begins, in a state that is ok, or goes on undisturbed.
Begins(a, ok) ==
    /\ begun < MaxBegun /\ begun' = begun + 1
    /\ calm' = IF ok THEN a ELSE Nobody
GoesOn(a) ==
    /\ calm' = IF calm = a THEN a ELSE Nobody
    /\ UNCHANGED begun

---------------------------------------------------------------------------
(* Tags of persons.                                                        *)

Label(p, name) == IF name = NoName THEN p ELSE name

\* The person's tag is u: the tag of that name if there is one, else its old
\* tag t renamed in place, else a new tag.
EnsurePersonTag(p, name, t, u) ==
    LET want == Label(p, name) IN
    \/ u \in DOMAIN tags /\ tags[u] = want /\ UNCHANGED tagVars
    \/ /\ want \notin Range(tags)
       /\ t \in DOMAIN tags /\ u = t
       /\ tags' = [tags EXCEPT ![t] = want]
       /\ UNCHANGED nextTag
    \/ /\ want \notin Range(tags)
       /\ t \notin DOMAIN tags /\ u = nextTag /\ nextTag <= MaxTag
       /\ tags' = Put(tags, u, want)
       /\ nextTag' = nextTag + 1

\* Mutant: an assignment to a tag that is gone counts.
BugAssign(files, t) == files \X {t}

\* Assigning a tag that was deleted fails and is ignored.
Assign(files, t) == {x \in files \X {t} : t \in DOMAIN tags}

OfTag(t) == Files \X {t}

SharedWithOthers(p, t) == \E q \in Rows \ {p} : persons[q].tag = t

\* Centroid, from the members the table has now.
Recomputed(table, p) ==
    [q \in DOMAIN table |->
        IF q = p THEN Person(table[q].name, table[q].tag, table[q].ignored, LooksOf(Members(q)))
        ELSE table[q]]

---------------------------------------------------------------------------
(* extract_faces: rows of the photo replaced, then matched with persons.   *)

ExtractRows(w, x, looks) ==
    /\ match[w].pc = "idle"
    /\ \A v \in {u \in Workers : match[u].pc # "idle"} : match[v].file # x
    /\ cluster' = [f \in Faces |-> IF f[1] # x THEN cluster[f]
                                   ELSE IF f[2] \in looks THEN Free ELSE Unstored]
    \* Row ids are never reused: what a re-clustering knows of x is gone.
    /\ loaded' = [c \in Clusterers |-> loaded[c] \ ({x} \X Looks)]
    /\ match' = [match EXCEPT ![w] = IF looks = {} THEN IdleRun ELSE [pc |-> "load", file |-> x]]
    /\ Begins(w, FALSE)
    /\ UNCHANGED <<persons, nextPerson, tagVars, tagged, ui, run>>

LoadPersonCentroids(w) ==
    /\ match[w].pc = "load"
    /\ LET seen == [p \in {q \in Rows : ~persons[q].ignored /\ persons[q].look # {}} |-> persons[p]]
       IN  match' = [match EXCEPT ![w] =
               IF DOMAIN seen = {} THEN IdleRun
               ELSE [pc |-> "write", file |-> match[w].file, seen |-> seen]]
    /\ GoesOn(Nobody)
    /\ UNCHANGED <<tables, tagVars, tagged, ui, runVars>>

\* The persons a face of that look may be given to: the one it fits for certain
\* if there is one, else perhaps one it partly fits.
Certain(look, table) == {p \in DOMAIN table : table[p].look = {look}}
Candidates(look, table) ==
    IF Certain(look, table) # {} THEN Certain(look, table)
    ELSE {p \in DOMAIN table : look \in table[p].look} \cup {Free}

WriteMatches(w) ==
    /\ match[w].pc = "write"
    /\ \E hit \in [Looks -> DOMAIN match[w].seen \cup {Free}] :
          /\ \A k \in Looks : hit[k] \in IF <<match[w].file, k>> \in Stored
                                          THEN Candidates(k, match[w].seen) ELSE {Free}
          /\ cluster' = [f \in Faces |->
                 IF f \in Stored /\ f[1] = match[w].file /\ hit[f[2]] # Free THEN hit[f[2]] ELSE cluster[f]]
          /\ match' = [match EXCEPT ![w] =
                 [pc |-> "tag", file |-> match[w].file,
                  hits |-> {match[w].seen[p].tag : p \in Range(hit) \ {Free}}]]
    /\ GoesOn(Nobody)
    /\ UNCHANGED <<persons, nextPerson, tagVars, tagged, ui, runVars>>

TagMatches(w) ==
    /\ match[w].pc = "tag"
    /\ tagged' = tagged \cup UNION {Assign({match[w].file}, t) : t \in match[w].hits}
    /\ match' = [match EXCEPT ![w] = IdleRun]
    /\ GoesOn(Nobody)
    /\ UNCHANGED <<tables, tagVars, ui, runVars>>

---------------------------------------------------------------------------
(* cluster_and_tag.                                                        *)

LoadEmbeddings(c) ==
    LET raw == {k \in Looks : Cardinality({f \in Stored : f[2] = k}) >= MinSamples} IN
    /\ run[c].pc = "idle" /\ raw # {}
    /\ run' = [run EXCEPT ![c] =
          [pc |-> "reconcile", files |-> [k \in raw |-> FilesOf({f \in Stored : f[2] = k})]]]
    /\ loaded' = [loaded EXCEPT ![c] = Stored]
    /\ Begins(c, TRUE)
    /\ UNCHANGED <<tables, tagVars, tagged, ui, match>>

\* From the reconciling on: the persons seen, the person of each raw cluster,
\* the clusters still to tag, and the one in hand with its tag.
Phase(c, pc, seen, pid, todo, hand, tag) ==
    [pc |-> pc, files |-> run[c].files, seen |-> seen, pid |-> pid,
     todo |-> todo, hand |-> hand, tag |-> tag]
GoesTo(c, pc, todo, hand, tag) ==
    run' = [run EXCEPT ![c] = Phase(c, pc, run[c].seen, run[c].pid, todo, hand, tag)]

\* Persons are read, and each raw cluster gets the id of a person it fits, no
\* two the same, or a fresh id.
Reconcile(c) ==
    LET raw == DOMAIN run[c].files IN
    /\ run[c].pc = "reconcile"
    /\ \E old \in [raw -> Rows \cup {Free}], pid \in [raw -> Ids] :
          LET new == {k \in raw : old[k] = Free}
              last == nextPerson + Cardinality(new) - 1 IN
          /\ \A k \in raw : old[k] \in Candidates(k, persons)
          /\ \A k \in raw \ new : pid[k] = old[k]
          /\ {pid[k] : k \in new} = nextPerson..last
          /\ IsInjective(pid)
          /\ nextPerson' = last + 1
          /\ run' = [run EXCEPT ![c] = Phase(c, "write", persons, pid, raw, {}, None)]
    /\ GoesOn(c)
    /\ UNCHANGED <<cluster, persons, tagVars, tagged, ui, loaded, match>>

\* Mutant: the faces of no cluster keep their person.
BugKeepOld(c, f) ==
    IF f \in loaded[c] /\ f[2] \in DOMAIN run[c].pid THEN run[c].pid[f[2]] ELSE cluster[f]

\* The person the clustering gives a stored face.
Clustered(c, f) ==
    IF f \in loaded[c] /\ f[2] \in DOMAIN run[c].pid THEN run[c].pid[f[2]] ELSE Free

WriteClusters(c) ==
    /\ run[c].pc = "write"
    /\ cluster' = [f \in Faces |-> IF f \in Stored THEN Clustered(c, f) ELSE Unstored]
    /\ GoesTo(c, "tag", run[c].todo, {}, None)
    /\ loaded' = [loaded EXCEPT ![c] = {}]
    /\ GoesOn(c)
    /\ UNCHANGED <<persons, nextPerson, tagVars, tagged, ui, match>>

\* Mutant: the row as an upsert would insert it.
BugForget(c, p) == NewPerson(None)

\* What the re-clustering believes of person p: its row when Reconcile read it.
Known(c, p) == IF p \in DOMAIN run[c].seen THEN run[c].seen[p] ELSE NewPerson(None)

TagCluster(c, k) ==
    LET p == run[c].pid[k]
        was == Known(c, p) IN
    /\ run[c].pc = "tag" /\ k \in run[c].todo
    /\ \E u \in 0..MaxTag :
          /\ IF was.ignored THEN u = None /\ UNCHANGED <<tagVars, tagged>>
             ELSE /\ EnsurePersonTag(p, was.name, was.tag, u)
                  /\ tagged' = tagged \cup (run[c].files[k] \X {u})
          /\ GoesTo(c, "upsert", run[c].todo \ {k}, {k}, u)
    /\ GoesOn(c)
    /\ UNCHANGED <<tables, ui, loaded, match>>

UpsertPerson(c, k) ==
    LET p == run[c].pid[k]
        was == Known(c, p) IN
    /\ run[c].pc = "upsert" /\ k \in run[c].hand
    /\ persons' = Put(persons, p, Person(was.name, run[c].tag, was.ignored, {k}))
    /\ GoesTo(c, IF run[c].todo = {} THEN "prune" ELSE "tag", run[c].todo, {}, None)
    /\ GoesOn(c)
    /\ UNCHANGED <<cluster, nextPerson, tagVars, tagged, ui, loaded, match>>

PruneEmptyPersons(c) ==
    /\ run[c].pc = "prune"
    /\ persons' = Restrict(persons,
          {p \in Rows : persons[p].ignored \/ p \in Range(run[c].pid) \/ Members(p) # {}})
    /\ run' = [run EXCEPT ![c] = IdleRun]
    /\ GoesOn(c)
    /\ UNCHANGED <<cluster, nextPerson, tagVars, tagged, ui, loaded, match>>

---------------------------------------------------------------------------
(* The review page: set_person_name, merge_persons, split_person and       *)
(* set_ignored, each of several steps.                                     *)

\* Every person shown has a live tag on all its photos, and every assigned face
\* belongs to a person.
Consistent ==
    /\ \A f \in Faces : cluster[f] \in Ids => cluster[f] \in Rows
    /\ \A p \in Rows : ~persons[p].ignored =>
          /\ persons[p].tag \in DOMAIN tags
          /\ FilesOf(Members(p)) \X {persons[p].tag} \subseteq tagged

NoTagShared == \A p \in Rows : persons[p].tag = None \/ ~SharedWithOthers(p, persons[p].tag)

StartName(p, name) ==
    /\ ui.op = "idle" /\ p \in Rows
    /\ \E u \in 1..MaxTag :
          /\ EnsurePersonTag(p, name, persons[p].tag, u)
          /\ ui' = [op |-> "name", p |-> p, name |-> name, old |-> persons[p].tag, tag |-> u]
    /\ Begins("ui", Consistent /\ NoTagShared)
    /\ UNCHANGED <<tables, tagged, runVars, match>>

\* Mutant: the photos stay on the old tag.
BugNotMoved ==
    /\ ui.op = "name"
    /\ ui' = [op |-> "named", p |-> ui.p, name |-> ui.name, tag |-> ui.tag]
    /\ GoesOn("ui")
    /\ UNCHANGED <<tables, tagVars, tagged, runVars, match>>

\* The name led to another tag: the photos move there, and the old tag goes
\* unless another person has it.
MoveToNamedTag ==
    LET moved == tagged \cup Assign(FilesOf(Members(ui.p)), ui.tag)
        drop == ui.old # None /\ ~SharedWithOthers(ui.p, ui.old) IN
    /\ ui.op = "name"
    /\ IF ui.tag = ui.old THEN UNCHANGED <<tags, tagged>>
       ELSE /\ tagged' = IF drop THEN moved \ OfTag(ui.old) ELSE moved
            /\ tags' = IF drop THEN Restrict(tags, DOMAIN tags \ {ui.old}) ELSE tags
    /\ ui' = [op |-> "named", p |-> ui.p, name |-> ui.name, tag |-> ui.tag]
    /\ GoesOn("ui")
    /\ UNCHANGED <<tables, nextTag, runVars, match>>

SetPersonName ==
    /\ ui.op = "named"
    /\ persons' = [p \in Rows |->
           IF p = ui.p THEN Person(ui.name, ui.tag, persons[p].ignored, persons[p].look) ELSE persons[p]]
    /\ ui' = Idle
    /\ GoesOn("ui")
    /\ UNCHANGED <<cluster, nextPerson, tagVars, tagged, runVars, match>>

StartMerge(source, target) ==
    /\ ui.op = "idle" /\ {source, target} \subseteq Rows /\ source # target
    /\ ui' = [op |-> "merge", p |-> source, q |-> target, files |-> FilesOf(Members(source)),
              old |-> persons[source].tag, tag |-> persons[target].tag]
    /\ cluster' = [f \in Faces |-> IF cluster[f] = source THEN target ELSE cluster[f]]
    /\ Begins("ui", Consistent /\ NoTagShared)
    /\ UNCHANGED <<persons, nextPerson, tagVars, tagged, runVars, match>>

\* The source tag is deleted, whoever else has it.
MergeTags ==
    /\ ui.op = "merge"
    /\ tagged' = (tagged \cup Assign(ui.files, ui.tag)) \ OfTag(ui.old)
    /\ tags' = Restrict(tags, DOMAIN tags \ {ui.old})
    /\ ui' = [op |-> "merged", p |-> ui.p, q |-> ui.q]
    /\ GoesOn("ui")
    /\ UNCHANGED <<tables, nextTag, runVars, match>>

MergeRows ==
    /\ ui.op = "merged"
    /\ persons' = Recomputed(Restrict(persons, Rows \ {ui.p}), ui.q)
    /\ ui' = Idle
    /\ GoesOn("ui")
    /\ UNCHANGED <<cluster, nextPerson, tagVars, tagged, runVars, match>>

\* Mutant: the id above all that have a row.
BugAboveRows(p, faces) ==
    \E q \in Ids :
        /\ ui.op = "idle" /\ p \in Rows /\ faces # {} /\ q - 1 \in Rows /\ \A r \in Rows : r < q
        /\ ui' = [op |-> "split", p |-> p, q |-> q, files |-> FilesOf(faces), old |-> persons[p].tag]
        /\ nextPerson' = IF q < nextPerson THEN nextPerson ELSE q + 1
        /\ cluster' = [f \in Faces |-> IF f \in faces THEN q ELSE cluster[f]]
        /\ Begins("ui", Consistent /\ NoTagShared)
        /\ UNCHANGED <<persons, tagVars, tagged, runVars, match>>

\* A person may have been named like the default label of a later id, and then
\* the new id gets that person's tag: no promise is made of such a split.
StartSplit(p, faces) ==
    /\ ui.op = "idle" /\ p \in Rows /\ faces # {} /\ nextPerson <= MaxPerson
    /\ ui' = [op |-> "split", p |-> p, q |-> nextPerson, files |-> FilesOf(faces), old |-> persons[p].tag]
    /\ nextPerson' = nextPerson + 1
    /\ cluster' = [f \in Faces |-> IF f \in faces THEN nextPerson ELSE cluster[f]]
    /\ Begins("ui", Consistent /\ NoTagShared /\ Label(nextPerson, NoName) \notin Range(tags))
    /\ UNCHANGED <<persons, tagVars, tagged, runVars, match>>

\* The old tag stays on a photo that still shows the old person.
SplitTags ==
    LET left == {x \in ui.files : x \notin FilesOf(Members(ui.p))} IN
    /\ ui.op = "split"
    /\ \E u \in 1..MaxTag :
          /\ EnsurePersonTag(ui.q, NoName, None, u)
          /\ tagged' = (tagged \cup (ui.files \X {u})) \ (left \X {ui.old})
          /\ ui' = [op |-> "splitted", p |-> ui.p, q |-> ui.q, tag |-> u]
    /\ GoesOn("ui")
    /\ UNCHANGED <<tables, runVars, match>>

SplitRows ==
    /\ ui.op = "splitted"
    /\ persons' = Recomputed(Recomputed(Put(persons, ui.q, NewPerson(ui.tag)), ui.q), ui.p)
    /\ ui' = Idle
    /\ GoesOn("ui")
    /\ UNCHANGED <<cluster, nextPerson, tagVars, tagged, runVars, match>>

StartIgnore(p, ignored) ==
    /\ ui.op = "idle" /\ p \in Rows
    /\ tagged' = IF ignored THEN tagged \ (FilesOf(Members(p)) \X {persons[p].tag}) ELSE tagged
    /\ ui' = [op |-> "ignore", p |-> p, ignored |-> ignored]
    /\ Begins("ui", Consistent /\ NoTagShared /\ ignored)
    /\ UNCHANGED <<tables, tagVars, runVars, match>>

SetIgnored ==
    /\ ui.op = "ignore"
    /\ persons' = [p \in Rows |->
           IF p = ui.p THEN Person(persons[p].name, persons[p].tag, ui.ignored, persons[p].look)
           ELSE persons[p]]
    /\ ui' = Idle
    /\ GoesOn("ui")
    /\ UNCHANGED <<cluster, nextPerson, tagVars, tagged, runVars, match>>

---------------------------------------------------------------------------

Review ==
    \/ \E p \in Ids :
          \/ \E name \in Names \cup {NoName} : StartName(p, name)
          \/ \E q \in Ids : StartMerge(p, q)
          \/ \E faces \in SUBSET Members(p) : StartSplit(p, faces)
          \/ \E b \in BOOLEAN : StartIgnore(p, b)
    \/ MoveToNamedTag \/ SetPersonName
    \/ MergeTags \/ MergeRows
    \/ SplitTags \/ SplitRows
    \/ SetIgnored

Recluster(c) ==
    \/ LoadEmbeddings(c) \/ Reconcile(c) \/ WriteClusters(c)
    \/ \E k \in Looks : TagCluster(c, k) \/ UpsertPerson(c, k)
    \/ PruneEmptyPersons(c)

Extract(w) ==
    \/ \E x \in Files, looks \in SUBSET Looks : ExtractRows(w, x, looks)
    \/ LoadPersonCentroids(w) \/ WriteMatches(w) \/ TagMatches(w)

Next ==
    \/ Review
    \/ \E c \in Clusterers : Recluster(c)
    \/ \E w \in Workers : Extract(w)

Spec == Init /\ [][Next]_vars

---------------------------------------------------------------------------

IsTable(t) == DOMAIN t \subseteq Ids /\ t \in [DOMAIN t -> Row]

EditOK ==
    /\ ui.op \in {"idle", "name", "named", "merge", "merged", "split", "splitted", "ignore"}
    /\ ui.op # "idle" => ui.p \in Ids
    /\ ui.op \in {"name", "named"} => ui.name \in Names \cup {NoName} /\ ui.tag \in 1..MaxTag
    /\ ui.op \in {"name", "merge", "split"} => ui.old \in 0..MaxTag
    /\ ui.op \in {"merge", "merged", "split", "splitted"} => ui.q \in Ids
    /\ ui.op \in {"merge", "split"} => ui.files \subseteq Files
    /\ ui.op = "merge" => ui.tag \in 0..MaxTag
    /\ ui.op = "splitted" => ui.tag \in 1..MaxTag
    /\ ui.op = "ignore" => ui.ignored \in BOOLEAN

RunOK(r) ==
    /\ r.pc \in {"idle", "reconcile", "write", "tag", "upsert", "prune"}
    /\ r.pc # "idle" => DOMAIN r.files \subseteq Looks /\ r.files \in [DOMAIN r.files -> SUBSET Files]
    /\ r.pc \notin {"idle", "reconcile"} =>
          /\ IsTable(r.seen) /\ r.pid \in [DOMAIN r.files -> Ids]
          /\ r.todo \subseteq DOMAIN r.files /\ r.hand \subseteq DOMAIN r.files
          /\ r.tag \in 0..MaxTag

MatchOK(r) ==
    /\ r.pc \in {"idle", "load", "write", "tag"}
    /\ r.pc # "idle" => r.file \in Files
    /\ r.pc = "write" => IsTable(r.seen)
    /\ r.pc = "tag" => r.hits \subseteq 0..MaxTag

TypeOK ==
    /\ cluster \in [Faces -> {Unstored, Free} \cup Ids]
    /\ IsTable(persons) /\ nextPerson \in 1..MaxPerson + 1
    /\ DOMAIN tags \subseteq 1..nextTag - 1 /\ tags \in [DOMAIN tags -> Names \cup Ids]
    /\ nextTag \in 1..MaxTag + 1 /\ tagged \subseteq Files \X DOMAIN tags
    /\ EditOK
    /\ DOMAIN run = Clusterers /\ \A c \in Clusterers : RunOK(run[c])
    /\ loaded \in [Clusterers -> SUBSET Faces]
    /\ DOMAIN match = Workers /\ \A w \in Workers : MatchOK(match[w])
    /\ calm \in Clusterers \cup {"ui", Nobody}

\* What a row, a face, a re-clustering, a worker or an edit in progress calls a
\* person.
RunIds(r) == IF r.pc \in {"idle", "reconcile"} THEN {} ELSE Range(r.pid) \cup DOMAIN r.seen
EditIds ==
    (IF ui.op = "idle" THEN {} ELSE {ui.p})
    \cup (IF ui.op \in {"merge", "merged", "split", "splitted"} THEN {ui.q} ELSE {})
MatchIds(r) == IF r.pc = "write" THEN DOMAIN r.seen ELSE {}
UsedIds ==
    Rows \cup (Range(cluster) \ {Unstored, Free}) \cup EditIds
    \cup (UNION {RunIds(run[c]) : c \in Clusterers}) \cup (UNION {MatchIds(match[w]) : w \in Workers})

\* "Monotonic per-user person_id allocator so ids are never reused" (init_db): an
\* id that comes into use is drawn in that very step from a counter that only
\* grows.  So it never was in use before, not even for a person that was merged
\* away or pruned since.
IdsAreNew ==
    [][/\ nextPerson <= nextPerson'
       /\ \A p \in UsedIds' \ UsedIds : p \in nextPerson .. nextPerson' - 1]_vars

\* A re-clustering nobody interferes with leaves the tables and the tags
\* consistent, whatever they were before: tags that were deleted under a person,
\* faces of a person that is gone and photos that lost a tag are all repaired.
ReclusterRepairs ==
    [][\A c \in Clusterers :
          run[c].pc = "prune" /\ run'[c].pc = "idle" /\ calm' = c => Consistent']_vars

\* An edit on the review page nobody interferes with keeps that consistency, if
\* no two persons share a tag (and it is not the restoring of an ignored person,
\* which leaves its photos untagged until the next re-clustering, nor a split
\* whose new person has a default label that is a tag already).
EditsKeepConsistency ==
    [][ui.op # "idle" /\ ui'.op = "idle" /\ calm' = "ui" => Consistent']_vars

\* Of the clusters that person p fitted for certain when they were matched, each
\* went to another person that fitted it as well.
Displaced(c, p) ==
    \A k \in DOMAIN run[c].pid : p \in Certain(k, run[c].seen)
                                  => run[c].pid[k] \in Certain(k, run[c].seen) \ {p}

\* "person ids survive re-clustering ..., so names/merges/splits persist"
\* (README:140).  What the user said of a person (its name, whether it is ignored)
\* is lost to a re-clustering in two ways only.  It is overwritten, if he said it
\* after the re-clustering read the persons; or its row is pruned, if the person is
\* left without a face and was displaced by others.
SaidOf(table, p) == <<table[p].name, table[p].ignored>>
NamesSurvive ==
    [][\A p \in Rows :
          /\ UNCHANGED ui
          /\ p \in DOMAIN persons' => SaidOf(persons', p) # SaidOf(persons, p)
          => \E c \in Clusterers :
                \/ /\ run[c].pc = "upsert" /\ p \in DOMAIN persons' \cap DOMAIN run[c].seen
                   /\ SaidOf(run[c].seen, p) # SaidOf(persons, p)
                \/ /\ run[c].pc = "prune" /\ run'[c].pc = "idle" /\ p \notin DOMAIN persons'
                   /\ Members(p) = {} /\ Displaced(c, p)]_vars

\* "Only delete a tag once nobody else references it, or we'd strip it off
\* everyone else's photos" (_tag_shared_with_others).
SharedTagsStay ==
    [][\A t \in DOMAIN tags \ DOMAIN tags' : ~SharedWithOthers(ui.p, t)]_vars
=============================================================================
