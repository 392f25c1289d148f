--------------------------- MODULE EventDelivery ----------------------------
(***************************************************************************)
(* The way of an event from the bot engine's publisher to the WebSockets   *)
(* of its user: the capped stream xbt.events, the consumer group "gateway" *)
(* with its position and pending entries, the consumer loop of a gateway   *)
(* process (ws/consumer.ts) and its registry of sockets.                   *)
(*                                                                         *)
(* A member of Gateways is one gateway process: each runs at most once,    *)
(* one after the other (a restart) or side by side (a rolling restart).    *)
(* An action is what the event loop does between two awaits; Redis, the    *)
(* clients and the operator act in between.                                *)
(*                                                                         *)
(* Abstracted: the payload of an event (an entry is its id and its user);  *)
(* the session lookup's answer is a choice; COUNT is MaxBatch.             *)
(***************************************************************************)
EXTENDS Naturals, Sequences, FiniteSets

CONSTANTS
    Users, NoUser,
    Sockets,     \* WebSocket connections; each is opened at most once
    home,        \* the gateway a socket is opened at
    Gateways,    \* gateway processes, one per start
    MaxLen,      \* the publisher's maxlen
    MaxBatch,    \* COUNT of XREADGROUP
    MaxEvents,   \* bound: events published
    Faults       \* what may fail: "reply", "read", "ack"

ASSUME DeliveryAssumption ==
    /\ NoUser \notin Users
    /\ home \in [Sockets -> Gateways]
    /\ MaxLen \in Nat \ {0} /\ MaxBatch \in Nat \ {0} /\ MaxEvents \in Nat
    /\ Faults \subseteq {"reply", "read", "ack"}

VARIABLES
    log,        \* Redis: the user of every entry ever added; its index is its id
    trimmed,    \* Redis: entries 1..trimmed are no longer in the stream
    grouped,    \* Redis: the consumer group exists
    pos,        \* Redis: last id the group has delivered
    pending,    \* Redis: ids delivered and not acknowledged
    proc,       \* where a gateway's consumer loop is
    stopped,    \* EventStreamConsumer.#stopped
    batch,      \* entries of the last read still to be handled, head first
    registry,   \* ConnectionRegistry.#byUser
    user,       \* the user of a socket's session
    phase,      \* how far the /ws handler of a socket is
    alive,      \* readyState = OPEN
    inbox,      \* history: entries sent to a socket
    handled,    \* history: entries a gateway has handled, in order
    since,      \* history: entries handled before a socket was registered
    base,       \* history: pos at the creation of the group
    skipped     \* history: entries trimmed before the group reached them

redisVars == <<log, trimmed, grouped, pos, pending, base, skipped>>
loopVars  == <<proc, stopped, batch, handled>>
sockVars  == <<registry, user, phase, alive, since>>
vars == <<redisVars, loopVars, sockVars, inbox>>

Up(g) == proc[g] \notin {"unstarted", "exited"}
Elems(seq) == {seq[i] : i \in DOMAIN seq}

Init ==
    /\ log = <<>> /\ trimmed = 0
    /\ grouped = FALSE /\ pos = 0 /\ pending = {}
    /\ proc = [g \in Gateways |-> "unstarted"]
    /\ stopped = [g \in Gateways |-> FALSE]
    /\ batch = [g \in Gateways |-> <<>>]
    /\ registry = [g \in Gateways |-> [u \in Users |-> {}]]
    /\ user = [s \in Sockets |-> NoUser]
    /\ phase = [s \in Sockets |-> "unused"]
    /\ alive = [s \in Sockets |-> FALSE]
    /\ inbox = [s \in Sockets |-> <<>>]
    /\ handled = [g \in Gateways |-> <<>>]
    /\ since = [s \in Sockets |-> 0]
    /\ base = 0 /\ skipped = {}

-----------------------------------------------------------------------------
(* The publisher.                                                          *)

\* EventPublisher.publish: XADD, trimming from the old end.  redis-py asks
\* for MAXLEN ~, so Redis may leave more than maxlen entries but never less.
Publish(u) ==
    /\ Len(log) < MaxEvents
    /\ log' = Append(log, u)
    /\ \E t \in trimmed .. Len(log) :
        /\ t = trimmed \/ Len(log) + 1 - t >= MaxLen
        /\ trimmed' = t
        /\ skipped' = skipped \cup {e \in trimmed + 1 .. t : e > pos}
    /\ UNCHANGED <<grouped, pos, pending, base, loopVars, sockVars, inbox>>

-----------------------------------------------------------------------------
(* The consumer loop.                                                      *)

\* main() calls consumer.start(), which awaits ensureGroup.
Boot(g) ==
    /\ proc[g] = "unstarted"
    /\ proc' = [proc EXCEPT ![g] = "ensuring"]
    /\ UNCHANGED <<redisVars, stopped, batch, handled, sockVars, inbox>>

\* XGROUP CREATE ... $ MKSTREAM: a new group starts behind the last entry;
\* BUSYGROUP leaves an existing one as it is.
EnsureGroup(g) ==
    /\ proc[g] = "ensuring"
    /\ grouped' = TRUE
    /\ IF grouped THEN UNCHANGED <<pos, base>>
                  ELSE pos' = Len(log) /\ base' = Len(log)
    /\ proc' = [proc EXCEPT ![g] = "top"]
    /\ UNCHANGED <<log, trimmed, pending, skipped, stopped, batch, handled,
                   sockVars, inbox>>

\* Mutant: a full batch, whether or not the stream has as many entries.
NewIdsPastEnd ==
    LET from == IF pos > trimmed THEN pos ELSE trimmed
    IN  [i \in 1 .. MaxBatch |-> from + i]

\* The ids a read for ">" would return: the next ones, at most MaxBatch.
NewIds ==
    LET from == IF pos > trimmed THEN pos ELSE trimmed
        to   == IF from + MaxBatch < Len(log) THEN from + MaxBatch ELSE Len(log)
    IN  [i \in 1 .. to - from |-> from + i]

\* The while condition after stop(): start() returns.
LeaveLoop(g) ==
    /\ proc[g] = "top" /\ stopped[g]
    /\ proc' = [proc EXCEPT ![g] = "left"]
    /\ UNCHANGED <<redisVars, stopped, batch, handled, sockVars, inbox>>

\* Mutant: the group is read with NOACK.
PendingNoAck == pending
\* The pending entries after a read.
PendingRead == pending \cup Elems(NewIds)

\* Redis serves XREADGROUP: it moves the group's position, makes the entries
\* pending and answers.  A read that finds nothing blocks, times out and is
\* repeated.  With the fault "reply" the connection breaks before the answer
\* arrives; ioredis reconnects and sends the command again, which is a new
\* read for ">".
Read(g) ==
    /\ proc[g] = "top" /\ ~stopped[g] /\ grouped
    /\ NewIds # <<>>
    /\ pos' = NewIds[Len(NewIds)]
    /\ pending' = PendingRead
    /\ \/ /\ proc' = [proc EXCEPT ![g] = "answered"]
          /\ batch' = [batch EXCEPT ![g] = NewIds]
       \/ /\ "reply" \in Faults
          /\ UNCHANGED <<proc, batch>>
    /\ UNCHANGED <<log, trimmed, grouped, base, skipped, stopped, handled,
                   sockVars, inbox>>

\* ensureGroup or readGroup rejects: start() rejects and main() only logs it.
ReadFails(g) ==
    /\ proc[g] \in {"ensuring", "top"}
    /\ "read" \in Faults
    /\ proc' = [proc EXCEPT ![g] = "left"]
    /\ UNCHANGED <<redisVars, stopped, batch, handled, sockVars, inbox>>

\* Mutant: every socket of the process, whoever's it is.
RecipientsAll(g, u) == {s \in UNION {registry[g][v] : v \in Users} : alive[s]}

\* registry.sendTo: every registered connection of the user that is open.
Recipients(g, u) == {s \in registry[g][u] : alive[s]}

\* Mutant: the loop over the entries is not left after the last one.
NextAwaitOverrun(rest) == IF rest = <<>> THEN "answered" ELSE "acking"
\* The await that handling the entries `rest` leads to.
NextAwait(rest) == IF rest = <<>> THEN "top" ELSE "acking"

\* The for loop over the entries `rest`: handle the first, which ends in the
\* await of its ack, or go back to the top of the while loop.
Dispatch(g, rest) ==
    /\ batch' = [batch EXCEPT ![g] = rest]
    /\ proc' = [proc EXCEPT ![g] = NextAwait(rest)]
    /\ IF rest = <<>>
       THEN UNCHANGED <<handled, inbox>>
       ELSE /\ handled' = [handled EXCEPT ![g] = Append(@, Head(rest))]
            /\ inbox' = [s \in Sockets |->
                            IF s \in Recipients(g, log[Head(rest)])
                            THEN Append(inbox[s], Head(rest)) ELSE inbox[s]]

\* The answer of the read arrives.
BatchArrives(g) ==
    /\ proc[g] = "answered"
    /\ Dispatch(g, batch[g])
    /\ UNCHANGED <<redisVars, stopped, sockVars>>

\* XACK returns, and the loop handles the next entry.
Acked(g) ==
    /\ proc[g] = "acking"
    /\ pending' = pending \ {Head(batch[g])}
    /\ Dispatch(g, Tail(batch[g]))
    /\ UNCHANGED <<log, trimmed, grouped, pos, base, skipped, stopped, sockVars>>

\* Mutant: the entry whose ack failed is handled again.
AckRetried(g) ==
    /\ proc[g] = "acking" /\ "ack" \in Faults
    /\ Dispatch(g, batch[g])
    /\ UNCHANGED <<redisVars, stopped, sockVars>>

\* XACK rejects, with or without its effect: start() rejects, and the rest of
\* the batch is never handled.
AckFails(g) ==
    /\ proc[g] = "acking" /\ "ack" \in Faults
    /\ pending' \in {pending, pending \ {Head(batch[g])}}
    /\ proc' = [proc EXCEPT ![g] = "left"]
    /\ batch' = [batch EXCEPT ![g] = <<>>]
    /\ UNCHANGED <<log, trimmed, grouped, pos, base, skipped, stopped, handled,
                   sockVars, inbox>>

\* SIGTERM: consumer.stop() before the first await of shutdown().  It means
\* nothing to a loop that has ended already.
Stop(g) ==
    /\ Up(g) /\ proc[g] # "left" /\ ~stopped[g]
    /\ stopped' = [stopped EXCEPT ![g] = TRUE]
    /\ UNCHANGED <<redisVars, proc, batch, handled, sockVars, inbox>>

\* process.exit at the end of shutdown(), or a crash: the sockets close and
\* the registry and the batch are gone with the process.
Exit(g) ==
    /\ Up(g)
    /\ proc' = [proc EXCEPT ![g] = "exited"]
    /\ alive' = [s \in Sockets |-> alive[s] /\ home[s] # g]
    /\ phase' = [s \in Sockets |-> IF home[s] = g THEN "ended" ELSE phase[s]]
    /\ registry' = [registry EXCEPT ![g] = [u \in Users |-> {}]]
    /\ batch' = [batch EXCEPT ![g] = <<>>]
    /\ UNCHANGED <<redisVars, stopped, handled, user, since, inbox>>

-----------------------------------------------------------------------------
(* The /ws route.                                                          *)

\* A client of user u connects; the handler awaits resolveUserId.
Connect(s, u) ==
    /\ phase[s] = "unused" /\ Up(home[s])
    /\ phase' = [phase EXCEPT ![s] = "resolving"]
    /\ alive' = [alive EXCEPT ![s] = TRUE]
    /\ user' = [user EXCEPT ![s] = u]
    /\ UNCHANGED <<redisVars, loopVars, registry, since, inbox>>

\* No session: socket.close(4401).
Unauthenticated(s) ==
    /\ phase[s] \in {"resolving", "closeMissed"}
    /\ phase' = [phase EXCEPT ![s] = "ended"]
    /\ alive' = [alive EXCEPT ![s] = FALSE]
    /\ UNCHANGED <<redisVars, loopVars, registry, user, since, inbox>>

\* registry.add, then the listener for "close": a close event that fired
\* during the await is not heard any more.
Register(s) ==
    /\ phase[s] \in {"resolving", "closeMissed"}
    /\ registry' = [registry EXCEPT ![home[s]][user[s]] = @ \cup {s}]
    /\ phase' = [phase EXCEPT
                    ![s] = IF @ = "resolving" THEN "serving" ELSE "leaked"]
    /\ since' = [since EXCEPT ![s] = Len(handled[home[s]])]
    /\ UNCHANGED <<redisVars, loopVars, user, alive, inbox>>

\* The connection goes down: readyState changes before the close event.
Disconnect(s) ==
    /\ alive[s]
    /\ alive' = [alive EXCEPT ![s] = FALSE]
    /\ UNCHANGED <<redisVars, loopVars, registry, user, phase, since, inbox>>

\* Mutant: nothing listens for close.
CloseUnheard(s) ==
    /\ ~alive[s] /\ phase[s] \in {"resolving", "serving"}
    /\ phase' = [phase EXCEPT ![s] = IF @ = "resolving" THEN "closeMissed"
                                                        ELSE "ended"]
    /\ UNCHANGED <<redisVars, loopVars, registry, user, alive, since, inbox>>

\* The close event, with its listener attached or not.
CloseEvent(s) ==
    /\ ~alive[s]
    /\ \/ /\ phase[s] = "resolving"
          /\ phase' = [phase EXCEPT ![s] = "closeMissed"]
          /\ UNCHANGED registry
       \/ /\ phase[s] = "serving"
          /\ phase' = [phase EXCEPT ![s] = "ended"]
          /\ registry' = [registry EXCEPT ![home[s]][user[s]] = @ \ {s}]
    /\ UNCHANGED <<redisVars, loopVars, user, alive, since, inbox>>

-----------------------------------------------------------------------------
\* One resumption of the consumer loop of g.
Loop(g) ==
    \/ EnsureGroup(g) \/ LeaveLoop(g) \/ Read(g) \/ ReadFails(g)
    \/ BatchArrives(g) \/ Acked(g) \/ AckFails(g)

Client(s) ==
    \/ \E u \in Users : Connect(s, u)
    \/ Unauthenticated(s) \/ Register(s) \/ Disconnect(s) \/ CloseEvent(s)

\* Nothing is left to happen: everything published, every process ended.
Over ==
    /\ Len(log) = MaxEvents
    /\ \A g \in Gateways : proc[g] = "exited"

Next ==
    \/ \E u \in Users : Publish(u)
    \/ \E g \in Gateways : Boot(g) \/ Loop(g) \/ Stop(g) \/ Exit(g)
    \/ \E s \in Sockets : Client(s)
    \/ Over /\ UNCHANGED vars

Spec == Init /\ [][Next]_vars

\* The event loop resumes a consumer whose call has an outcome.  Nothing is
\* assumed of publishers, clients and operators.
FairSpec == Spec /\ \A g \in Gateways : WF_vars(Loop(g))

-----------------------------------------------------------------------------
(* Properties.                                                             *)

Ids == 1 .. Len(log)

TypeOK ==
    /\ log \in Seq(Users) /\ Len(log) <= MaxEvents
    /\ trimmed \in 0 .. Len(log) /\ pos \in 0 .. Len(log) /\ base \in 0 .. pos
    /\ grouped \in BOOLEAN
    /\ pending \subseteq Ids /\ skipped \subseteq Ids
    /\ proc \in [Gateways -> {"unstarted", "ensuring", "top", "answered",
                              "acking", "left", "exited"}]
    /\ stopped \in [Gateways -> BOOLEAN]
    /\ batch \in [Gateways -> Seq(Ids)] /\ handled \in [Gateways -> Seq(Ids)]
    /\ registry \in [Gateways -> [Users -> SUBSET Sockets]]
    /\ user \in [Sockets -> Users \cup {NoUser}]
    /\ phase \in [Sockets -> {"unused", "resolving", "closeMissed", "serving",
                              "leaked", "ended"}]
    /\ alive \in [Sockets -> BOOLEAN]
    /\ inbox \in [Sockets -> Seq(Ids)]
    /\ since \in [Sockets -> Nat]

\* An entry that Redis regards as acknowledged (delivered to the group and not
\* pending) has been handed to the sockets of its user: no failure, crash or
\* overlap of gateways acknowledges an event that was not fanned out.
AckedWasHandled ==
    \A e \in base + 1 .. pos :
        e \notin pending \cup skipped => \E g \in Gateways : e \in Elems(handled[g])

\* The entries that a socket's gateway has handled since its registration.
HandledSince(s) ==
    {handled[home[s]][i] : i \in since[s] + 1 .. Len(handled[home[s]])}

\* A socket that is open and registered has been sent exactly the events of
\* its user that its gateway handled since the registration, each once and in
\* the order of their publication.
OpenSocketSeesAll ==
    \A s \in Sockets :
        (phase[s] = "serving" /\ alive[s]) =>
            /\ Elems(inbox[s]) = {e \in HandledSince(s) : log[e] = user[s]}
            /\ \A i, j \in DOMAIN inbox[s] : i < j => inbox[s][i] < inbox[s][j]

\* The registry of a gateway that is up holds a closed socket for good only if
\* its close event fired while its session was looked up; any other registered
\* socket is open or its close event is still to come.
OnlyTheRaceLeaks ==
    \A s \in Sockets, g \in Gateways, u \in Users :
        s \in registry[g][u] =>
            /\ g = home[s] /\ u = user[s] /\ Up(g)
            /\ phase[s] \in {"serving", "leaked"}
            /\ phase[s] = "leaked" => ~alive[s] /\ inbox[s] = <<>>

\* The detailed fan-out implements the abstract channel.
Channel == INSTANCE EventChannel WITH
    fanned <- UNION {Elems(handled[g]) : g \in Gateways}
ChannelSpec == Channel!Spec

\* Nothing stalls.  As long as a gateway's consumer loop runs and keeps
\* running, an entry does not stay unread for ever: it is read or trimmed away.
\* And what a consumer has read it handles, unless its loop breaks first,
\* whether or not there are sockets to send to.
NothingStalls ==
    /\ \A e \in 1 .. MaxEvents :
          (e \in Ids /\ grouped) ~>
              \/ pos >= e \/ trimmed >= e
              \/ \A g \in Gateways : stopped[g] \/ ~Up(g) \/ proc[g] = "left"
    /\ \A g \in Gateways :
          (proc[g] \in {"answered", "acking"}) ~>
              (proc[g] \in {"top", "left", "exited"})
=============================================================================
