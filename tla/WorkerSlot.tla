----------------------------- MODULE WorkerSlot -----------------------------
(***************************************************************************)
(* What the supervisor promises about a bot's workers, with nothing of how *)
(* it does it.  A worker is granted the right to trade for one bot, only   *)
(* while no other worker holds that right, and once the right is taken     *)
(* away it never comes back: the next start of the bot is a new worker.    *)
(*                                                                         *)
(* supervisor.py:1-6 ("guarantees no two workers ever run the same bot")   *)
(* and BotState.PAUSED at supervisor.py:38-40 ("will not resume without an *)
(* explicit restart") are the two sentences this module makes precise.     *)
(***************************************************************************)
CONSTANTS Bots, Workers, NoBot

VARIABLES
    status,  \* status[w]: has the worker the right to trade?
    serves   \* serves[w]: the bot it was started for, NoBot before

vars == <<status, serves>>

Init ==
    /\ status = [w \in Workers |-> "fresh"]
    /\ serves = [w \in Workers |-> NoBot]

\* A fresh worker gets the right to trade for b; nobody else may hold it.
Grant(b, w) ==
    /\ status[w] = "fresh"
    /\ \A v \in Workers : serves[v] = b => status[v] # "trading"
    /\ status' = [status EXCEPT ![w] = "trading"]
    /\ serves' = [serves EXCEPT ![w] = b]

\* The right is withdrawn, for good: a stop, a kill, a trip, an error or the
\* end of the bars.
Revoke(w) ==
    /\ status[w] = "trading"
    /\ status' = [status EXCEPT ![w] = "spent"]
    /\ UNCHANGED serves

Next == \E w \in Workers : Revoke(w) \/ \E b \in Bots : Grant(b, w)

Spec == Init /\ [][Next]_vars
=============================================================================
