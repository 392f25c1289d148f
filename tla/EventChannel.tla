---------------------------- MODULE EventChannel ----------------------------
(***************************************************************************)
(* What the gateway's fan-out of xbt.events promises its clients, without  *)
(* Redis, consumer groups or processes: every client connection belongs to *)
(* one user and sees some of that user's events, in the order they were    *)
(* published and none of them twice; an event is fanned out at most once,  *)
(* to all its recipients together.                                         *)
(***************************************************************************)
EXTENDS Naturals, Sequences

CONSTANTS Users, Sockets, NoUser

VARIABLES
    log,      \* the user of every event, in the order of publication
    user,     \* the user a connection was opened for
    fanned,   \* events that have had their one fan-out
    inbox     \* the events a connection was sent

vars == <<log, user, fanned, inbox>>

Init ==
    /\ log = <<>>
    /\ user = [s \in Sockets |-> NoUser]
    /\ fanned = {}
    /\ inbox = [s \in Sockets |-> <<>>]

Publish(u) ==
    /\ log' = Append(log, u)
    /\ UNCHANGED <<user, fanned, inbox>>

Open(s, u) ==
    /\ user[s] = NoUser
    /\ user' = [user EXCEPT ![s] = u]
    /\ UNCHANGED <<log, fanned, inbox>>

\* Event e goes to the connections in to, which may be none of them.
FanOut(e, to) ==
    /\ e \in DOMAIN log \ fanned
    /\ \A s \in to : /\ user[s] = log[e]
                     /\ \A i \in DOMAIN inbox[s] : inbox[s][i] < e
    /\ fanned' = fanned \cup {e}
    /\ inbox' = [s \in Sockets |-> IF s \in to THEN Append(inbox[s], e)
                                               ELSE inbox[s]]
    /\ UNCHANGED <<log, user>>

Next ==
    \/ \E u \in Users : Publish(u)
    \/ \E s \in Sockets, u \in Users : Open(s, u)
    \/ \E e \in DOMAIN log, to \in SUBSET Sockets : FanOut(e, to)

Spec == Init /\ [][Next]_vars
=============================================================================
