----------------------------- MODULE MCTagMerge -----------------------------
(* Small instances of TagMerge for TLC. *)
EXTENDS TagMerge, TLC

\* No definition tells runners, requests, pairs or users from one another.
Symmetry == Permutations(Runners) \cup Permutations(Requests)
            \cup Permutations(Pairs) \cup Permutations(Users)
=============================================================================
