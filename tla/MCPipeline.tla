----------------------------- MODULE MCPipeline -----------------------------
(* Small instances of Pipeline for TLC. *)
EXTENDS Pipeline, TLC

\* Workers are interchangeable: no definition tells one from another.
Symmetry == Permutations(Workers)
=============================================================================
