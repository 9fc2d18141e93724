----------------------------- MODULE MCJobQueue -----------------------------
(* Small instances of JobQueue for TLC. *)
EXTENDS JobQueue, TLC

\* Workers are interchangeable: no definition tells one from another.
Symmetry == Permutations(Workers)
=============================================================================
