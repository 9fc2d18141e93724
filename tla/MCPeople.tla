------------------------------ MODULE MCPeople ------------------------------
(* Small instances of People for TLC. *)
EXTENDS People, TLC

\* No definition tells one photo, or one look, from another.
Symmetry == Permutations(Files) \cup Permutations(Looks)

\* Bounds the run: at most two of the review page, the re-clusterings and the
\* workers are in the middle of something.
TwoAtOnce ==
    \/ ui.op = "idle"
    \/ \A c \in Clusterers : run[c].pc = "idle"
    \/ \A w \in Workers : match[w].pc = "idle"
=============================================================================
