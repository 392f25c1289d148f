---------------------------- MODULE OrderRouter -----------------------------
(***************************************************************************)
(* One bot's ExchangeOrderRouter (apps/bot-engine/app/runtime/router.py)   *)
(* between its worker task, the venue, the database and the event stream.  *)
(*                                                                         *)
(* The worker submits orders one at a time and, when its circuit breaker   *)
(* trips, cancels the resting ones; a kill interrupts the worker, waits    *)
(* for it to end and cancels what the router still tracks; several kills   *)
(* may be in flight.  As in BotSupervisor an action runs from one await to *)
(* the next.  A database session is one transaction: its statements take   *)
(* effect together at the commit.                                          *)
(*                                                                         *)
(* An await that breaks raises: because the venue, the database or the     *)
(* stream failed (Faults), or because the worker was cancelled.  A broken  *)
(* call may still have had its effect at the other side.  Whether the      *)
(* breaker trips, the bars end or the bot is stopped is a choice.          *)
(*                                                                         *)
(* Abstracted: prices, quantities and symbols; the fills an order comes    *)
(* back with are one fill or none; the order of a dict's items is any.     *)
(***************************************************************************)
EXTENDS FiniteSets

CONSTANTS
    Orders,    \* exchange_order_ids; a finite pool, one per intent
    Kills,     \* Supervisor.kill coroutines for this bot
    Task,      \* the worker task, which also cancels on a circuit trip
    NoOrder,
    Faults     \* what may fail: "venue", "db", "publish"

ASSUME RouterAssumption ==
    /\ Task \notin Kills
    /\ NoOrder \notin Orders
    /\ Faults \subseteq {"venue", "db", "publish"}

VARIABLES
    venue,       \* the venue's view of an order
    row,         \* orders.status, "none" when there is no row
    audit,       \* audit_log_trade: <<action, order>>
    fillRows,    \* orders with a fills row
    open,        \* _open_orders
    published,   \* events in the stream: <<event_type, order>>
    pc,          \* the await the worker is suspended at
    cur,         \* the order, status and fills of the submit in progress
    cpc,         \* per caller, the await of its cancel_open
    todo,        \* per caller, resting orders still to cancel at the venue
    done,        \* per caller, orders cancelled at the venue
    interrupted, \* a kill has cancelled the worker task
    feed,        \* the order a deliver_fills call is about, and its await
    lost         \* history: orders in hand when an await broke

workVars   == <<pc, cur>>
cancelVars == <<cpc, todo, done>>
dbVars     == <<row, audit, fillRows>>
vars == <<venue, row, audit, fillRows, open, published, pc, cur, cpc, todo,
          done, interrupted, feed, lost>>

Callers == Kills \cup {Task}
Statuses == {"submitted", "partially_filled", "filled", "rejected"}
NoSubmit == [order |-> NoOrder, status |-> "rejected", fill |-> FALSE]
NoFeed == [order |-> NoOrder, at |-> "idle"]

Init ==
    /\ venue = [o \in Orders |-> "none"]
    /\ row = [o \in Orders |-> "none"]
    /\ audit = {}
    /\ fillRows = {}
    /\ open = {}
    /\ published = {}
    /\ pc = "idle"
    /\ cur = NoSubmit
    /\ cpc = [c \in Callers |-> "idle"]
    /\ todo = [c \in Callers |-> {}]
    /\ done = [c \in Callers |-> {}]
    /\ interrupted = FALSE
    /\ feed = NoFeed
    /\ lost = {}

\* An await of the worker breaks, for a fault of that kind or a cancellation.
WorkerBreaks(kind) == interrupted \/ kind \in Faults
\* The same for whoever runs a cancel_open: nobody cancels a kill.
CallerBreaks(c, kind) == (c = Task /\ interrupted) \/ kind \in Faults
\* A caller that is not being cancelled gets the result of its await.
Resumes(c) == c = Task => ~interrupted

-----------------------------------------------------------------------------
(***************************************************************************)
(* The venue.                                                              *)
(***************************************************************************)

\* How an order stands at the venue once place_order has an answer; one that
\* was refused, cancelled or expired, perhaps after it executed in part, does not.
Outcome(status, fill) ==
    CASE status = "rejected"         -> "none"
      [] status = "filled"           -> "filled"
      [] status = "partially_filled" -> "partial"
      [] status = "submitted"        -> IF fill THEN "partial" ELSE "resting"

\* What place_order can answer: fills are read off the answer whatever its
\* status, and an order the venue cancelled or let expire counts as rejected.
Answers == Statuses \X BOOLEAN

\* An order the venue can still execute.
Standing(o) == venue[o] \in {"resting", "partial"}

\* A standing order executes, in part or whole, and the router does not know.
VenueFills(o) ==
    /\ Standing(o)
    /\ \E s \in {"partial", "filled"} : venue' = [venue EXCEPT ![o] = s]
    /\ UNCHANGED <<dbVars, open, published, workVars, cancelVars, interrupted,
                   feed, lost>>

-----------------------------------------------------------------------------
(***************************************************************************)
(* submit, called by the worker for one intent after the other.            *)
(***************************************************************************)

\* place_order is sent.
Submit(o) ==
    /\ pc = "idle" /\ ~interrupted
    /\ venue[o] = "none" /\ row[o] = "none" /\ o \notin lost
    /\ pc' = "place"
    /\ cur' = [NoSubmit EXCEPT !.order = o]
    /\ UNCHANGED <<venue, dbVars, open, published, cancelVars, interrupted,
                   feed, lost>>

\* The venue answers with a status and perhaps a fill.
Placed ==
    /\ pc = "place" /\ ~interrupted
    /\ \E a \in Answers :
          /\ venue' = [venue EXCEPT ![cur.order] = Outcome(a[1], a[2])]
          /\ cur' = [cur EXCEPT !.status = a[1], !.fill = a[2]]
    /\ pc' = "persist"
    /\ UNCHANGED <<dbVars, open, published, cancelVars, interrupted, feed, lost>>

\* The worker ends with the exception, whichever it was.
WorkerEnds ==
    /\ pc' = "over"
    /\ cur' = NoSubmit

\* Mutant: whatever place_order raises, the worker tries again.
PlaceRetried ==
    /\ pc = "place" /\ WorkerBreaks("venue")
    /\ \E a \in Answers :
          venue' = [venue EXCEPT ![cur.order] = Outcome(a[1], a[2])]
    /\ lost' = lost \cup {cur.order}
    /\ UNCHANGED <<dbVars, open, published, workVars, cancelVars, interrupted, feed>>

\* place_order raises; the venue may have accepted the order all the same.
PlaceBreaks ==
    /\ pc = "place" /\ WorkerBreaks("venue")
    /\ \E a \in Answers :
          venue' = [venue EXCEPT ![cur.order] = Outcome(a[1], a[2])]
    /\ lost' = lost \cup {cur.order}
    /\ WorkerEnds
    /\ UNCHANGED <<dbVars, open, published, cancelVars, interrupted, feed>>

\* The transaction of _persist_order: the order, its fills and the audit row.
WriteOrder ==
    /\ row' = [row EXCEPT ![cur.order] = cur.status]
    /\ fillRows' = IF cur.fill THEN fillRows \cup {cur.order} ELSE fillRows
    /\ audit' = audit \cup {<<"order.submitted", cur.order>>}

\* The tracked orders once o is persisted: an acknowledged order that came
\* back without a fill joins them.
Tracks(o) == IF cur.status = "submitted" /\ ~cur.fill THEN open \cup {o} ELSE open

\* Mutant: the router does not remember what it left at the venue.
PersistedUntracked ==
    /\ pc = "persist" /\ ~interrupted
    /\ WriteOrder
    /\ pc' = "pub_order"
    /\ UNCHANGED <<venue, open, published, cur, cancelVars, interrupted, feed, lost>>

\* The transaction is committed; an order that rests without a fill is now
\* tracked, and order_submitted is being published.
Persisted ==
    /\ pc = "persist" /\ ~interrupted
    /\ WriteOrder
    /\ open' = Tracks(cur.order)
    /\ pc' = "pub_order"
    /\ UNCHANGED <<venue, published, cur, cancelVars, interrupted, feed, lost>>

\* The transaction breaks: rolled back, or committed without an answer.
PersistBreaks ==
    /\ pc = "persist" /\ WorkerBreaks("db")
    /\ WriteOrder \/ UNCHANGED dbVars
    /\ lost' = lost \cup {cur.order}
    /\ WorkerEnds
    /\ UNCHANGED <<venue, open, published, cancelVars, interrupted, feed>>

\* order_submitted is out; then the fill, if there is one, then submit returns.
OrderPublished ==
    /\ pc = "pub_order" /\ ~interrupted
    /\ published' = published \cup {<<"order_submitted", cur.order>>}
    /\ IF cur.fill THEN pc' = "pub_fill" /\ UNCHANGED cur
                   ELSE pc' = "idle" /\ cur' = NoSubmit
    /\ UNCHANGED <<venue, dbVars, open, cancelVars, interrupted, feed, lost>>

FillPublished ==
    /\ pc = "pub_fill" /\ ~interrupted
    /\ published' = published \cup {<<"fill", cur.order>>}
    /\ pc' = "idle"
    /\ cur' = NoSubmit
    /\ UNCHANGED <<venue, dbVars, open, cancelVars, interrupted, feed, lost>>

\* A publish raises, with the event in the stream or not.
PublishBreaks ==
    /\ pc \in {"pub_order", "pub_fill"} /\ WorkerBreaks("publish")
    /\ LET event == IF pc = "pub_order" THEN "order_submitted" ELSE "fill"
       IN  published' \in {published, published \cup {<<event, cur.order>>}}
    /\ WorkerEnds
    /\ UNCHANGED <<venue, dbVars, open, cancelVars, interrupted, feed, lost>>

\* Between two submits the worker is at another await: it is interrupted
\* there, or the bars end, or something outside the router raises.  What rests
\* at the venue stays there.
WorkerLeaves ==
    /\ pc = "idle"
    /\ WorkerEnds
    /\ UNCHANGED <<venue, dbVars, open, published, cancelVars, interrupted,
                   feed, lost>>

\* What the worker does once the call it is suspended at has an outcome.
WorkerGoesOn ==
    \/ Placed \/ PlaceBreaks \/ Persisted \/ PersistBreaks \/ OrderPublished
    \/ FillPublished \/ PublishBreaks \/ (interrupted /\ WorkerLeaves)

-----------------------------------------------------------------------------
(***************************************************************************)
(* cancel_open, called by the worker on a circuit trip and by kills.       *)
(***************************************************************************)

\* The breaker trips: the worker publishes bot_circuit_tripped, on its way to
\* cancel its orders.
Trip ==
    /\ pc = "idle" /\ ~interrupted
    /\ pc' = "trip"
    /\ cpc' = [cpc EXCEPT ![Task] = "begin"]
    /\ UNCHANGED <<venue, dbVars, open, published, cur, todo, done, interrupted,
                   feed, lost>>

\* Supervisor.stop cancels the worker task and leaves its orders alone.
Stop ==
    /\ ~interrupted
    /\ interrupted' = TRUE
    /\ UNCHANGED <<venue, dbVars, open, published, workVars, cancelVars, feed, lost>>

\* A kill cancels the worker task.
Kill(k) ==
    /\ cpc[k] = "idle"
    /\ interrupted' = TRUE
    /\ cpc' = [cpc EXCEPT ![k] = "begin"]
    /\ UNCHANGED <<venue, dbVars, open, published, workVars, todo, done, feed, lost>>

\* cancel_open returns or raises; _cancel_open swallows the exception.
CallerEnds(c) ==
    /\ cpc' = [cpc EXCEPT ![c] = "over"]
    /\ todo' = [todo EXCEPT ![c] = {}]
    /\ done' = [done EXCEPT ![c] = {}]
    /\ pc' = IF c = Task THEN "over" ELSE pc

\* The publish of bot_circuit_tripped breaks: cancel_open is never called.
TripBreaks ==
    /\ cpc[Task] = "begin" /\ WorkerBreaks("publish")
    /\ CallerEnds(Task)
    /\ UNCHANGED <<venue, dbVars, open, published, cur, interrupted, feed, lost>>

\* Mutant: the orders are forgotten only once they are all cancelled.
BeginCancelLate(c) ==
    /\ cpc[c] = "begin" /\ Resumes(c)
    /\ c # Task => pc = "over"
    /\ \/ open = {} /\ CallerEnds(c) /\ UNCHANGED open
       \/ /\ open # {}
          /\ todo' = [todo EXCEPT ![c] = open]
          /\ cpc' = [cpc EXCEPT ![c] = "venue"]
          /\ UNCHANGED <<open, done, pc>>
    /\ UNCHANGED <<venue, dbVars, published, cur, interrupted, feed, lost>>

\* Up to the first await: the tracked orders move into the caller's hands.  A
\* kill gets here when the task it cancelled has ended.
BeginCancel(c) ==
    /\ cpc[c] = "begin" /\ Resumes(c)
    /\ c # Task => pc = "over"
    /\ \/ open = {} /\ CallerEnds(c) /\ UNCHANGED open
       \/ /\ open # {}
          /\ todo' = [todo EXCEPT ![c] = open]
          /\ open' = {}
          /\ cpc' = [cpc EXCEPT ![c] = "venue"]
          /\ UNCHANGED <<done, pc>>
    /\ UNCHANGED <<venue, dbVars, published, cur, interrupted, feed, lost>>

\* Mutant: a status the rest of the program does not know.
WithdrawnMisspelt(o) ==
    IF Standing(o) THEN [venue EXCEPT ![o] = "canceled"] ELSE venue

\* An order that can still execute is one a cancel withdraws.
Withdrawn(o) ==
    IF Standing(o) THEN [venue EXCEPT ![o] = "cancelled"] ELSE venue

\* Mutant: the audit row has a transaction of its own.
CancelAuditedAtOnce(c, o) ==
    /\ cpc[c] = "venue" /\ Resumes(c)
    /\ o \in todo[c]
    /\ venue' = Withdrawn(o)
    /\ audit' = audit \cup {<<"order.cancelled", o>>}
    /\ todo' = [todo EXCEPT ![c] = @ \ {o}]
    /\ done' = [done EXCEPT ![c] = @ \cup {o}]
    /\ UNCHANGED <<row, fillRows, open, published, workVars, cpc, interrupted,
                   feed, lost>>

\* adapter.cancel_order(o) returns, from a tolerant venue (the paper one) even
\* for an order it no longer holds; the status and the audit row are staged.
CancelAtVenue(c, o) ==
    /\ cpc[c] = "venue" /\ Resumes(c)
    /\ o \in todo[c]
    /\ venue' = Withdrawn(o)
    /\ todo' = [todo EXCEPT ![c] = @ \ {o}]
    /\ done' = [done EXCEPT ![c] = @ \cup {o}]
    /\ UNCHANGED <<dbVars, open, published, workVars, cpc, interrupted, feed, lost>>

\* The venue no longer holds the order and refuses: the exception leaves the
\* loop, and the transaction and the orders not yet visited go with it.
CancelRefused(c, o) ==
    /\ cpc[c] = "venue" /\ Resumes(c)
    /\ o \in todo[c] /\ ~Standing(o)
    /\ lost' = lost \cup todo[c] \cup done[c]
    /\ CallerEnds(c)
    /\ UNCHANGED <<venue, dbVars, open, published, cur, interrupted, feed>>

\* The call to the venue breaks, withdrawing the order or not, or a statement
\* of the transaction does.
CancelBreaks(c) ==
    /\ cpc[c] = "venue" /\ todo[c] # {}
    /\ CallerBreaks(c, "venue") \/ CallerBreaks(c, "db")
    /\ venue' \in {venue} \cup {Withdrawn(o) : o \in todo[c]}
    /\ lost' = lost \cup todo[c] \cup done[c]
    /\ CallerEnds(c)
    /\ UNCHANGED <<dbVars, open, published, cur, interrupted, feed>>

\* The transaction of cancel_open: the status and the audit row of each order.
WriteCancels(c) ==
    /\ row' = [o \in Orders |-> IF o \in done[c] THEN "cancelled" ELSE row[o]]
    /\ audit' = audit \cup {<<"order.cancelled", o>> : o \in done[c]}
    /\ UNCHANGED fillRows

\* Mutant: the status is written for every order the call took, before the
\* venue has been asked about all of them.
CommitEarly(c) ==
    /\ cpc[c] = "venue" /\ Resumes(c)
    /\ row' = [o \in Orders |-> IF o \in done[c] \cup todo[c] THEN "cancelled" ELSE row[o]]
    /\ audit' = audit \cup {<<"order.cancelled", o>> : o \in done[c] \cup todo[c]}
    /\ cpc' = [cpc EXCEPT ![c] = "publish"]
    /\ UNCHANGED <<fillRows, venue, open, published, workVars, todo, done,
                   interrupted, feed, lost>>

\* Every order was cancelled at the venue: one commit for all of them.
Commit(c) ==
    /\ cpc[c] = "venue" /\ Resumes(c)
    /\ todo[c] = {}
    /\ WriteCancels(c)
    /\ cpc' = [cpc EXCEPT ![c] = "publish"]
    /\ UNCHANGED <<venue, open, published, workVars, todo, done, interrupted,
                   feed, lost>>

\* The commit breaks, with or without effect.
CommitBreaks(c) ==
    /\ cpc[c] = "venue" /\ CallerBreaks(c, "db")
    /\ todo[c] = {}
    /\ WriteCancels(c) \/ UNCHANGED dbVars
    /\ CallerEnds(c)
    /\ lost' = lost \cup done[c]
    /\ UNCHANGED <<venue, open, published, cur, interrupted, feed>>

\* order_cancelled is out for one order; after the last one the call returns.
CancelPublished(c, o) ==
    /\ cpc[c] = "publish" /\ Resumes(c)
    /\ o \in done[c]
    /\ published' = published \cup {<<"order_cancelled", o>>}
    /\ IF done[c] = {o} THEN CallerEnds(c)
       ELSE done' = [done EXCEPT ![c] = @ \ {o}] /\ UNCHANGED <<cpc, todo, pc>>
    /\ UNCHANGED <<venue, dbVars, open, cur, interrupted, feed, lost>>

CancelPublishBreaks(c) ==
    /\ cpc[c] = "publish" /\ CallerBreaks(c, "publish")
    /\ published' \in {published} \cup
          {published \cup {<<"order_cancelled", o>>} : o \in done[c]}
    /\ CallerEnds(c)
    /\ UNCHANGED <<venue, dbVars, open, cur, interrupted, feed, lost>>

Caller(c) ==
    \/ c = Task /\ TripBreaks
    \/ BeginCancel(c) \/ CancelBreaks(c) \/ Commit(c) \/ CommitBreaks(c)
    \/ CancelPublishBreaks(c)
    \/ \E o \in Orders : CancelAtVenue(c, o) \/ CancelRefused(c, o) \/ CancelPublished(c, o)

-----------------------------------------------------------------------------
(***************************************************************************)
(* deliver_fills, for a fill that did not come back with place_order.      *)
(***************************************************************************)

\* The order leaves the tracked ones at once; its fills row is being written.
\* The fill may be one the router has heard of, or not have an order row yet.
DeliverFill(o) ==
    /\ feed = NoFeed
    /\ venue[o] \in {"partial", "filled"}
    /\ open' = open \ {o}
    /\ feed' = [order |-> o, at |-> "commit"]
    /\ UNCHANGED <<venue, dbVars, published, workVars, cancelVars, interrupted, lost>>

\* Mutant: the event goes out while the transaction is still open.
FillCommittedLate ==
    /\ feed.at = "commit"
    /\ published' = published \cup {<<"fill", feed.order>>}
    /\ feed' = NoFeed
    /\ UNCHANGED <<venue, dbVars, open, workVars, cancelVars, interrupted, lost>>

FillCommitted ==
    /\ feed.at = "commit"
    /\ fillRows' = fillRows \cup {feed.order}
    /\ feed' = [feed EXCEPT !.at = "publish"]
    /\ UNCHANGED <<venue, row, audit, open, published, workVars, cancelVars,
                   interrupted, lost>>

LateFillPublished ==
    /\ feed.at = "publish"
    /\ published' = published \cup {<<"fill", feed.order>>}
    /\ feed' = NoFeed
    /\ UNCHANGED <<venue, dbVars, open, workVars, cancelVars, interrupted, lost>>

\* The transaction or the publish raises: the caller has only the exception.
DeliveryBreaks ==
    /\ \/ feed.at = "commit" /\ "db" \in Faults
       \/ feed.at = "publish" /\ "publish" \in Faults
    /\ feed' = NoFeed
    /\ UNCHANGED <<venue, dbVars, open, published, workVars, cancelVars,
                   interrupted, lost>>

Feed == (\E o \in Orders : DeliverFill(o)) \/ FillCommitted \/ LateFillPublished
            \/ DeliveryBreaks

-----------------------------------------------------------------------------
\* The worker has ended and no call is in progress.
Quiet == pc = "over" /\ feed = NoFeed /\ \A c \in Callers : cpc[c] \in {"idle", "over"}

Next ==
    \/ WorkerGoesOn \/ WorkerLeaves \/ Trip \/ Stop \/ Feed
    \/ \E o \in Orders : Submit(o) \/ VenueFills(o)
    \/ \E k \in Kills : Kill(k)
    \/ \E c \in Callers : Caller(c)
    \/ Quiet /\ UNCHANGED vars

Spec == Init /\ [][Next]_vars

\* The event loop resumes what can go on, and the calls to the venue, the
\* database and the stream have an outcome: their clients time out.
FairSpec ==
    /\ Spec
    /\ WF_vars(WorkerGoesOn)
    /\ \A c \in Callers : WF_vars(Caller(c))

-----------------------------------------------------------------------------
TypeOK ==
    /\ venue \in [Orders -> {"none", "resting", "partial", "filled", "cancelled"}]
    /\ row \in [Orders -> Statuses \cup {"none", "cancelled"}]
    /\ audit \subseteq {"order.submitted", "order.cancelled"} \X Orders
    /\ fillRows \subseteq Orders
    /\ open \subseteq Orders
    /\ published \subseteq {"order_submitted", "fill", "order_cancelled"} \X Orders
    /\ pc \in {"idle", "place", "persist", "pub_order", "pub_fill", "trip", "over"}
    /\ cur \in [order : Orders \cup {NoOrder}, status : Statuses, fill : BOOLEAN]
    /\ cpc \in [Callers -> {"idle", "begin", "venue", "publish", "over"}]
    /\ todo \in [Callers -> SUBSET Orders]
    /\ done \in [Callers -> SUBSET Orders]
    /\ interrupted \in BOOLEAN
    /\ feed \in [order : Orders \cup {NoOrder}, at : {"idle", "commit", "publish"}]
    /\ lost \subseteq Orders

Held(c) == todo[c] \cup done[c]

\* "a downstream consumer can never see an event without a paper trail"
\* (router.py:11-12): whatever breaks, an event in the stream has its rows.
PaperTrail ==
    \A o \in Orders :
        /\ <<"order_submitted", o>> \in published =>
              row[o] # "none" /\ <<"order.submitted", o>> \in audit
        /\ <<"order_cancelled", o>> \in published =>
              row[o] = "cancelled" /\ <<"order.cancelled", o>> \in audit
        /\ <<"fill", o>> \in published => o \in fillRows

\* A row and the audit trail tell the same story of an order.
AuditAgrees ==
    \A o \in Orders :
        /\ row[o] # "none" <=> <<"order.submitted", o>> \in audit
        /\ row[o] = "cancelled" <=> <<"order.cancelled", o>> \in audit

\* No order is in two hands: two cancel_opens never cancel, write or announce
\* the same order, and what they took is not tracked any more.
OneHandPerOrder ==
    \A c, d \in Callers :
        /\ Held(c) \cap open = {}
        /\ c # d => Held(c) \cap Held(d) = {}

\* A row does not say cancelled while the order can still execute.
CancelledIsWithdrawn ==
    \A o \in Orders : row[o] = "cancelled" => ~Standing(o)

\* An order that rests untouched at the venue is one the kill switch can still
\* reach, is being submitted, or was in hand when an await broke.
RestingIsAccountedFor ==
    \A o \in Orders :
        venue[o] = "resting" =>
            \/ o \in open \/ o = cur.order \/ o \in lost
            \/ \E c \in Callers : o \in todo[c]

\* A kill or a tripped worker gets through cancel_open, and a kill through
\* the wait for the worker it interrupted, wherever that was in submit or in a
\* cancel_open of its own.
CancelOpenReturns ==
    \A c \in Callers : cpc[c] \notin {"idle", "over"} ~> cpc[c] = "over"

(***************************************************************************)
(* What the documentation says and the code does not do, for Faults = {}.  *)
(***************************************************************************)

\* "a venue that rejects a cancel (already filled/gone) ... does not block the
\* others" (router.py:80-82): while nothing fails and nobody interrupts the
\* caller, an order that still stands leaves its hands only by being cancelled.
RejectionDoesNotBlock ==
    [][\A c \in Callers, o \in Orders :
          Resumes(c) /\ o \in todo[c] /\ o \notin todo'[c] /\ Standing(o)
              => o \in done'[c]]_vars

\* "Force-stop a bot NOW and cancel its open orders" (supervisor.py:182): when
\* a kill has returned, no order that subscribers heard of rests at the venue.
KillLeavesNothing ==
    \A k \in Kills, o \in Orders :
        cpc[k] = "over" /\ <<"order_submitted", o>> \in published
            => venue[o] # "resting"
=============================================================================
