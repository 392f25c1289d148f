--------------------------- MODULE MCOrderRouter ----------------------------
(***************************************************************************)
(* Small instances of OrderRouter for TLC.                                 *)
(***************************************************************************)
EXTENDS OrderRouter, TLC

\* Order ids and kill coroutines are interchangeable.
Symmetry == Permutations(Orders) \cup Permutations(Kills)
=============================================================================
