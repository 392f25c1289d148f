-------------------------- MODULE MCBotSupervisor ---------------------------
(***************************************************************************)
(* Small instances of BotSupervisor for TLC.                               *)
(***************************************************************************)
EXTENDS BotSupervisor, TLC

CONSTANTS b1, b2, u1

\* Both bots belong to one user: kill_all has several targets.
OneUser == b1 :> u1 @@ b2 :> u1

OneBot == b1 :> u1

\* Handle objects and coroutines are interchangeable.
Symmetry == Permutations(Handles) \cup Permutations(Reqs)
=============================================================================
