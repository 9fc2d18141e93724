---------------------------- MODULE MCWorkerPool ----------------------------
(* Small instances of WorkerPool for TLC. *)
EXTENDS WorkerPool, TLC

\* Identities of threads are interchangeable.
Symmetry == Permutations(Threads)
=============================================================================
