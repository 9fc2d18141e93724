------------------------------ MODULE Aliases -------------------------------
(***************************************************************************)
(* lib/tag_consolidation.py: from the merges a language model proposes to  *)
(* the alias map.  Each pair it answers is checked (sanitize_pairs), the   *)
(* pairs are made acyclic and flat (resolve_mapping) and folded into the   *)
(* aliases established before (compose_aliases).  The loops go through     *)
(* dictionaries in the order of the model's answers; here in any order.    *)
(* Names are numbers in the order of the tie-break (length, then letters). *)
(***************************************************************************)
EXTENDS Integers, Sequences, FiniteSets, Functions

CONSTANTS
    Names,          \* tag names
    Vocabulary,     \* those that exist and that filter_vocabulary lets pass: none of Marked
    Marked,         \* those no step may touch (person: and marker tags)
    Twins,          \* pairs <<name, name>> that are mechanical variants
    MaxUsage        \* bound on usage counts

VARIABLES
    stage,          \* "answers", "cycles", "compose", "done"
    usage,          \* photos with the tag, 0 where counting failed
    pairs,          \* the sanitized answers: source to canonical
    m,              \* the mapping in the making
    todo,           \* sources the loop has not come to
    old,            \* the aliases established before
    merged          \* old with the new ones folded in

aliasVars == <<stage, usage, pairs, m, todo, old, merged>>

\* What a walk along map visits from n on: the least set that has n and, with
\* each name, the one it is mapped to.
Closed(map, S) == \A k \in S \cap DOMAIN map : map[k] \in S
Visited(map, n) ==
    {k \in Names : \A S \in SUBSET Names : n \in S /\ Closed(map, S) => k \in S}

Reached(map, n) == IF n \in DOMAIN map THEN Visited(map, map[n]) ELSE {}
Onward(map, n) == n \in Reached(map, n)      \* n is on a cycle

\* Where the walk ends. (On a cycle, which no caller lets happen, anywhere.)
Chase(map, n) == CHOOSE k \in Visited(map, n) : k \notin DOMAIN map \/ Onward(map, k)

Empty == [n \in {} |-> n]
Put(map, n, k) == [s \in DOMAIN map \cup {n} |-> IF s = n THEN k ELSE map[s]]

Flat(map) == DOMAIN map \cap Range(map) = {}
FlatMaps(S) == {map \in UNION {[K -> S] : K \in SUBSET S} : Flat(map)}

Init ==
    /\ stage = "answers" /\ usage = [n \in Vocabulary |-> 0]
    /\ pairs = Empty /\ m = Empty /\ todo = {} /\ old = Empty /\ merged = Empty

---------------------------------------------------------------------------
(* sanitize_pairs and resolve_mapping.                                     *)

Usable(source, canonical) ==
    /\ source # canonical /\ {source, canonical} \cap Marked = {}
    /\ source \in Vocabulary
    /\ canonical \in Vocabulary \/ <<source, canonical>> \in Twins

\* A later batch may answer a source again; the last answer counts.
SanitizePair(source, canonical) ==
    /\ stage = "answers" /\ Usable(source, canonical)
    /\ pairs' = Put(pairs, source, canonical)
    /\ UNCHANGED <<stage, usage, m, todo, old, merged>>

StartResolve ==
    /\ stage = "answers" /\ stage' = "cycles"
    /\ m' = pairs /\ todo' = DOMAIN pairs
    /\ usage' \in [Vocabulary -> 0..MaxUsage]
    /\ UNCHANGED <<pairs, old, merged>>

\* Used most, then first in order.
Usage(n) == IF n \in Vocabulary THEN usage[n] ELSE 0
Winner(S) ==
    CHOOSE n \in S : \A k \in S \ {n} : Usage(n) > Usage(k) \/ (Usage(n) = Usage(k) /\ n < k)

\* The cycle a walk from n runs into.
Cycle(map, n) == {k \in Reached(map, n) : Onward(map, k)}

\* Mutant: the edge that closed the cycle goes.
BugBreakCycle(src) ==
    /\ stage = "cycles" /\ src \in todo
    /\ todo' = todo \ {src}
    /\ m' = IF Cycle(m, src) # {} THEN Restrict(m, DOMAIN m \ {src}) ELSE m
    /\ UNCHANGED <<stage, usage, pairs, old, merged>>

BreakCycle(src) ==
    /\ stage = "cycles" /\ src \in todo
    /\ todo' = todo \ {src}
    /\ m' = IF Cycle(m, src) # {} THEN Restrict(m, DOMAIN m \ {Winner(Cycle(m, src))}) ELSE m
    /\ UNCHANGED <<stage, usage, pairs, old, merged>>

\* Chains are compressed; the result is approved and meets the established map.
Resolve ==
    /\ stage = "cycles" /\ todo = {} /\ stage' = "compose"
    /\ m' = [s \in DOMAIN m |-> Chase(m, s)]
    /\ todo' = DOMAIN m
    /\ old' \in FlatMaps(Names \ Marked) /\ merged' = old'
    /\ UNCHANGED <<usage, pairs>>

---------------------------------------------------------------------------
(* compose_aliases and apply_aliases.                                      *)

\* Mutant: looks one step ahead for a cycle.
BugFoldPair(src) ==
    /\ stage = "compose" /\ src \in todo
    /\ todo' = todo \ {src}
    /\ merged' = IF m[src] \in DOMAIN merged /\ merged[m[src]] = src THEN merged
                 ELSE Put(merged, src, m[src])
    /\ UNCHANGED <<stage, usage, pairs, m, old>>

\* An edge that would close a cycle is skipped.
FoldPair(src) ==
    /\ stage = "compose" /\ src \in todo
    /\ todo' = todo \ {src}
    /\ merged' = IF src \in Visited(merged, m[src]) THEN merged ELSE Put(merged, src, m[src])
    /\ UNCHANGED <<stage, usage, pairs, m, old>>

Compose ==
    /\ stage = "compose" /\ todo = {} /\ stage' = "done"
    /\ merged' = [s \in DOMAIN merged |-> Chase(merged, s)]
    /\ UNCHANGED <<usage, pairs, m, todo, old>>

\* Each tag of a caption, and its canonical right after it.
Canonical(n) == IF n \in DOMAIN merged THEN merged[n] ELSE n

AddNew(out, n) == IF n \in Range(out) THEN out ELSE Append(out, n)

\* Mutant: a canonical that the caption has already is put in again.
BugExpand(out, n) ==
    IF n \in Marked THEN AddNew(out, n) ELSE Append(AddNew(out, n), Canonical(n))

Expand(out, n) ==
    IF n \in Marked THEN AddNew(out, n) ELSE AddNew(AddNew(out, n), Canonical(n))

ApplyAliases(tags) ==
    LET out[i \in 0..Len(tags)] == IF i = 0 THEN << >> ELSE Expand(out[i - 1], tags[i])
    IN  out[Len(tags)]

---------------------------------------------------------------------------

Next ==
    \/ \E s, c \in Names : SanitizePair(s, c)
    \/ StartResolve \/ (\E s \in todo : BreakCycle(s)) \/ Resolve
    \/ (\E s \in todo : FoldPair(s)) \/ Compose

Spec == Init /\ [][Next]_aliasVars

---------------------------------------------------------------------------

TypeOK ==
    /\ stage \in {"answers", "cycles", "compose", "done"}
    /\ \A map \in {pairs, m, old, merged} : DOMAIN map \cup Range(map) \subseteq Names \ Marked
    /\ todo \subseteq DOMAIN pairs

\* What resolve_mapping means: a source leads to the end of its chain, or to
\* the cycle's most used member; that member itself is no source any more.
Meant(n) ==
    IF Cycle(pairs, n) = {} THEN Chase(pairs, n) ELSE Winner(Cycle(pairs, n))

\* However chains and cycles run together and in whatever order the loop takes
\* them, resolve_mapping computes just that, and no canonical is a source.
ResolvesAsMeant ==
    stage = "compose" => m = [s \in {n \in DOMAIN pairs : Meant(n) # n} |-> Meant(s)] /\ Flat(m)

\* The result of compose_aliases is flat ("alias map must be flat"), and keeps
\* together what was meant to be together: the two names of every new pair, used
\* or skipped, and of every established one whose source is not mapped anew.
ComposeKeepsAliases ==
    stage = "done" =>
        /\ Flat(merged)
        /\ \A s \in DOMAIN m : Canonical(s) = Canonical(m[s])
        /\ \A s \in DOMAIN old \ DOMAIN m : Canonical(s) = Canonical(old[s])

\* apply_aliases adds: no tag of the caption is lost, none comes twice, and
\* nothing comes but their canonicals.
Grows(tags) ==
    LET out == ApplyAliases(tags) IN
    /\ Range(tags) \subseteq Range(out) /\ IsInjective(out)
    /\ Range(out) \subseteq Range(tags) \cup {Canonical(n) : n \in Range(tags)}
    /\ \A n \in Range(tags) \ Marked : Canonical(n) \in Range(out)

CaptionsGrow == stage = "done" => \A tags \in [1..2 -> Names] : Grows(tags)
=============================================================================
