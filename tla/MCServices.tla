---------------------------- MODULE MCServices ----------------------------
(***************************************************************************)
(* Services on a few users, names, places, readers, threads and polls.     *)
(***************************************************************************)
EXTENDS Services

TwinPairs == {<<1, 4>>}
=============================================================================
