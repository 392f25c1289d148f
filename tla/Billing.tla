------------------------------ MODULE Billing --------------------------------
(***************************************************************************)
(* The subscription of one user: apps/gateway/src/billing/routes.ts over   *)
(* the subscriptions table of db/repos.ts, and Stripe as the gateway uses  *)
(* it.  A checkout is a request to /v1/billing/checkout, stepped at its    *)
(* awaits; it also names the Stripe customer it may create and the         *)
(* subscription bought in the session it opens.  Webhooks arrive at least  *)
(* once and in any order.                                                  *)
(***************************************************************************)
EXTENDS Integers, Sequences, SequencesExt

CONSTANTS Checkouts, None

\* What the table may hold for the user, besides no row.
SubscriptionRows ==
    [customer : Checkouts, sub : Checkouts \cup {None}, version : Nat]

ASSUME BillingAssumption == None \notin Checkouts \cup SubscriptionRows

VARIABLES
    row,       \* the user's row of subscriptions: customer, subscription,
               \*   and which of its statuses was written, or None
    chk,       \* per checkout: where it is and the customer it uses
    subs,      \* Stripe: the statuses each subscription has had
    mail,      \* Stripe: webhooks to be delivered (again)
    held,      \* retrieved subscriptions not applied yet
    raced,     \* history: checkouts that found no row, before another made one
    newest,    \* history: the newest status ever applied, per subscription
    late       \* history: subscriptions whose last applied status was not it

billingVars == <<row, chk, subs, mail, held, raced, newest, late>>

ActiveStatuses == {"active", "trialing"}

BillingInit ==
    /\ row = None
    /\ chk = [k \in Checkouts |-> [pc |-> "idle", customer |-> None]]
    /\ subs = [k \in Checkouts |-> <<>>]
    /\ mail = {} /\ held = {} /\ raced = {} /\ late = {}
    /\ newest = [k \in Checkouts |-> 0]

\* subs.isActive.
IsActive ==
    /\ row # None /\ row.sub # None
    /\ subs[row.sub][row.version] \in ActiveStatuses

-----------------------------------------------------------------------------
(* Checkout.                                                               *)

Go(k, pc, customer) == chk' = [chk EXCEPT ![k] = [pc |-> pc, customer |-> customer]]

\* ensureCustomer looks for the user's row.
LookUp(k) ==
    /\ chk[k].pc = "idle"
    /\ IF row # None THEN Go(k, "linked", row.customer) ELSE Go(k, "looked", None)
    /\ UNCHANGED <<row, subs, mail, held, raced, newest, late>>

\* There is none: Stripe creates a customer.
CreateCustomer(k) ==
    /\ chk[k].pc = "looked"
    /\ Go(k, "created", k)
    /\ UNCHANGED <<row, subs, mail, held, raced, newest, late>>

\* Its row is inserted, unless the user has one by now.  The checkout goes on
\* with its own customer either way.
Link(k) ==
    /\ chk[k].pc = "created"
    /\ Go(k, "linked", chk[k].customer)
    /\ IF row = None
       THEN /\ row' = [customer |-> k, sub |-> None, version |-> 0]
            /\ raced' = {j \in Checkouts \ {k} : chk[j].pc \in {"looked", "created"}}
       ELSE UNCHANGED <<row, raced>>
    /\ UNCHANGED <<subs, mail, held, newest, late>>

\* The checkout session is created and its url returned.
OpenSession(k) ==
    /\ chk[k].pc = "linked"
    /\ Go(k, "open", chk[k].customer)
    /\ UNCHANGED <<row, subs, mail, held, raced, newest, late>>

\* The database or Stripe raises at one of these calls.
CheckoutFails(k) ==
    /\ chk[k].pc \in {"looked", "created", "linked"}
    /\ Go(k, "failed", chk[k].customer)
    /\ UNCHANGED <<row, subs, mail, held, raced, newest, late>>

Checkout(k) ==
    \/ LookUp(k) \/ CreateCustomer(k) \/ Link(k) \/ OpenSession(k) \/ CheckoutFails(k)

-----------------------------------------------------------------------------
(* Stripe.                                                                 *)

\* The user pays in an open session.
Pay(k) ==
    /\ chk[k].pc = "open" /\ subs[k] = <<>>
    /\ \E status \in {"active", "trialing", "incomplete"} :
          subs' = [subs EXCEPT ![k] = <<status>>]
    /\ mail' = mail \cup {[type |-> "completed", sub |-> k],
                          [type |-> "created", sub |-> k, version |-> 1]}
    /\ UNCHANGED <<row, chk, held, raced, newest, late>>

\* A renewal, a failed payment or, for good, an end.  The subscriptions have
\* at most most statuses between them.
StatusChanges(k, most) ==
    /\ subs[k] # <<>> /\ Last(subs[k]) # "canceled"
    /\ FoldFunction(LAMBDA history, n : Len(history) + n, 0, subs) < most
    /\ \E status \in {"active", "past_due", "canceled"} \ {Last(subs[k])} :
          /\ subs' = [subs EXCEPT ![k] = Append(@, status)]
          /\ mail' = mail \cup {[type |-> IF status = "canceled" THEN "deleted"
                                                                ELSE "updated",
                                 sub |-> k, version |-> Len(subs[k]) + 1]}
    /\ UNCHANGED <<row, chk, held, raced, newest, late>>

-----------------------------------------------------------------------------
(* The webhook.                                                            *)

\* Mutant: the end of a subscription is one of the ignored events.
SnapshotTypesOpenEnded == {"created", "updated"}
SnapshotTypes == {"created", "updated", "deleted"}

\* applySubscription: whatever the row's customer has had before is overwritten;
\* for a customer that is in no row nothing happens.
Apply(k, version) ==
    /\ row' = IF row # None /\ row.customer = chk[k].customer
              THEN [row EXCEPT !.sub = k, !.version = version] ELSE row
    /\ newest' = [newest EXCEPT ![k] = IF version > @ THEN version ELSE @]
    /\ late' = IF version < newest[k] THEN late \cup {k} ELSE late \ {k}

\* A subscription's own event: the snapshot in it is applied.  Stripe sends it
\* again if the answer is lost.
Snapshot(e) ==
    /\ e \in mail /\ e.type # "completed"
    /\ \E again \in BOOLEAN : mail' = IF again THEN mail ELSE mail \ {e}
    /\ IF e.type \in SnapshotTypes THEN Apply(e.sub, e.version)
       ELSE UNCHANGED <<row, newest, late>>
    /\ UNCHANGED <<chk, subs, held, raced>>

\* A completed session: the subscription is retrieved as it is now ...
Retrieve(e) ==
    /\ e \in mail /\ e.type = "completed"
    /\ \E again \in BOOLEAN : mail' = IF again THEN mail ELSE mail \ {e}
    /\ held' = held \cup {[sub |-> e.sub, version |-> Len(subs[e.sub])]}
    /\ UNCHANGED <<row, chk, subs, raced, newest, late>>

\* ... and then applied.
ApplyRetrieved(h) ==
    /\ h \in held
    /\ held' = held \ {h}
    /\ Apply(h.sub, h.version)
    /\ UNCHANGED <<chk, subs, mail, raced>>

\* The update raises, and Stripe, which is told so, sends the event again.
ApplyFails(h) ==
    /\ h \in held
    /\ held' = held \ {h}
    /\ mail' = mail \cup {[type |-> "completed", sub |-> h.sub]}
    /\ UNCHANGED <<row, chk, subs, raced, newest, late>>

Webhook ==
    \/ \E e \in mail : Snapshot(e) \/ Retrieve(e)
    \/ \E h \in held : ApplyRetrieved(h) \/ ApplyFails(h)

-----------------------------------------------------------------------------
\* No webhook is on its way.
Delivered == mail = {} /\ held = {}
Bought == {k \in Checkouts : subs[k] # <<>>}

\* What the row says once every webhook has arrived.  It is the newest status
\* of the subscription it names, unless an older one of that subscription was
\* applied last.  It names none only if nothing was bought for its customer.  A
\* session is for another customer only if its checkout raced with the one that
\* linked the row.  So who bought one subscription, without such a race and
\* with the newest status applied last, is entitled exactly as Stripe has it.
RowSettles ==
    /\ \A k \in Checkouts :
          (chk[k].pc \in {"linked", "open"} /\ chk[k].customer # row.customer) => k \in raced
    /\ (Delivered /\ row # None) =>
          /\ row.sub # None => row.version = Len(subs[row.sub]) \/ row.sub \in late
          /\ row.sub = None => \A k \in Bought : chk[k].customer # row.customer
          /\ \A k \in Bought \ (raced \cup late) :
                Bought = {k} => (IsActive <=> Last(subs[k]) \in ActiveStatuses)
=============================================================================
