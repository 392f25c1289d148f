------------------------ MODULE StartPipeline_proofs ------------------------
(***************************************************************************)
(* Theorems about StartPipeline: for any requests, activations, keys and   *)
(* checkouts, whatever they do to each other. First the subscription, then *)
(* the rule editor, each on its own, then the pipeline around them.        *)
(***************************************************************************)
EXTENDS StartPipeline, Recursion_proofs, TLAPS

-----------------------------------------------------------------------------
(* The subscription on its own: any number of checkouts, of statuses of    *)
(* each subscription, and of webhooks delivered again and out of order.    *)
(* What the rest of the pipeline does leaves these variables alone, and a  *)
(* scenario allows some of the steps below.                                *)

BillingNext ==
    \/ \E k \in Checkouts :
          Checkout(k) \/ Pay(k) \/ \E most \in Nat : StatusChanges(k, most)
    \/ Webhook

BillingSpec == BillingInit /\ [][BillingNext]_billingVars

-----------------------------------------------------------------------------
Statuses == {"active", "trialing", "incomplete", "past_due", "canceled"}

BillingTypes ==
    /\ row \in SubscriptionRows \cup {None}
    /\ chk \in [Checkouts -> [pc : {"idle", "looked", "created", "linked", "open", "failed"},
                              customer : Checkouts \cup {None}]]
    /\ subs \in [Checkouts -> Seq(Statuses)]
    /\ newest \in [Checkouts -> Nat]

\* Only an open session is paid for, and what is on its way or applied is a
\* status the subscription has had.
NewsInv ==
    /\ \A k \in Checkouts : subs[k] # <<>> => chk[k].pc = "open"
    /\ \A e \in mail :
          /\ e.sub \in Checkouts /\ subs[e.sub] # <<>>
          /\ e.type # "completed" =>
                e.type \in SnapshotTypes /\ e.version \in 1 .. Len(subs[e.sub])
    /\ \A h \in held : h.sub \in Checkouts /\ h.version \in 1 .. Len(subs[h.sub])
    /\ \A k \in Checkouts : newest[k] <= Len(subs[k])

\* The newest status was applied or is on its way.
NewestInv ==
    \A k \in Checkouts :
        \/ newest[k] = Len(subs[k])
        \/ \E e \in mail : /\ e.type # "completed" /\ e.sub = k
                           /\ e.version = Len(subs[k])

\* A checkout that gets to its session has seen the row, and works for its
\* customer unless it raced.
LinkInv ==
    \A k \in Checkouts :
        /\ chk[k].pc = "created" => chk[k].customer = k
        /\ chk[k].pc \in {"looked", "created"} /\ row # None => k \in raced
        /\ chk[k].pc \in {"linked", "open"} =>
              row # None /\ (chk[k].customer # row.customer => k \in raced)

\* What the row says of its subscription.
RowInv ==
    row # None =>
        /\ row.sub # None => row.version = newest[row.sub] \/ row.sub \in late
        /\ row.sub # None =>
              newest[row.sub] > 0 /\ chk[row.sub].customer = row.customer
        /\ row.sub = None =>
              \A k \in Checkouts : newest[k] > 0 => chk[k].customer # row.customer

BillingInv == BillingTypes /\ NewsInv /\ NewestInv /\ LinkInv /\ RowInv

-----------------------------------------------------------------------------
\* Checkouts.
LEMMA CheckoutKeeps ==
    ASSUME BillingInv, NEW k \in Checkouts, Checkout(k) PROVE BillingInv'
<1>1. /\ UNCHANGED <<subs, mail, held, newest, late>>
      /\ chk[k].pc \in {"idle", "looked", "created", "linked"}
      /\ \E to \in {"looked", "created", "linked", "open", "failed"},
            c \in Checkouts \cup {None} :
            chk' = [chk EXCEPT ![k] = [pc |-> to, customer |-> c]]
  BY DEF BillingInv, BillingTypes, SubscriptionRows, Checkout, LookUp, CreateCustomer, Link,
         OpenSession, CheckoutFails, Go
<1>2. /\ chk' \in [Checkouts -> [pc : {"idle", "looked", "created", "linked", "open", "failed"},
                                 customer : Checkouts \cup {None}]]
      /\ \A j \in Checkouts \ {k} : chk'[j] = chk[j]
  BY <1>1 DEF BillingInv, BillingTypes
<1>3. subs[k] = <<>> /\ newest[k] = 0
  BY <1>1 DEF BillingInv, NewsInv, BillingTypes
<1>4. CASE UNCHANGED <<row, raced>>
  <2>1. BillingTypes'
    BY <1>1, <1>2, <1>4 DEF BillingInv, BillingTypes
  <2>2. NewsInv'
    BY <1>1, <1>2, <1>3 DEF BillingInv, NewsInv
  <2>3. NewestInv'
    BY <1>1 DEF BillingInv, NewestInv
  <2>4. LinkInv'
    <3> SUFFICES ASSUME NEW j \in Checkouts
                 PROVE  /\ chk'[j].pc = "created" => chk'[j].customer = j
                        /\ chk'[j].pc \in {"looked", "created"} /\ row # None => j \in raced
                        /\ chk'[j].pc \in {"linked", "open"} =>
                              /\ row # None
                              /\ chk'[j].customer # row.customer => j \in raced
      BY <1>4 DEF LinkInv
    <3>1. CASE j # k
      BY <3>1, <1>2 DEF BillingInv, LinkInv
    <3>2. CASE j = k
      <4>1. LookUp(k) \/ CreateCustomer(k) \/ Link(k) \/ OpenSession(k) \/ CheckoutFails(k)
        BY DEF Checkout
      <4>2. chk \in [Checkouts -> [pc : {"idle", "looked", "created", "linked", "open", "failed"},
                                   customer : Checkouts \cup {None}]]
        BY DEF BillingInv, BillingTypes
      <4>3. CASE LookUp(k)
        BY <3>2, <4>2, <4>3 DEF LookUp, Go
      <4>4. CASE CreateCustomer(k)
        BY <3>2, <4>2, <4>4 DEF BillingInv, LinkInv, CreateCustomer, Go
      <4>5. CASE Link(k)
        <5>1. row # None
          BY <1>4, <4>5, BillingAssumption DEF Link, SubscriptionRows
        <5> QED BY <3>2, <4>2, <4>5, <5>1 DEF BillingInv, LinkInv, Link, Go
      <4>6. CASE OpenSession(k)
        BY <3>2, <4>2, <4>6 DEF BillingInv, LinkInv, OpenSession, Go
      <4>7. CASE CheckoutFails(k)
        BY <3>2, <4>2, <4>7 DEF CheckoutFails, Go
      <4> QED BY <4>1, <4>3, <4>4, <4>5, <4>6, <4>7
    <3> QED BY <3>1, <3>2
  <2>5. RowInv'
    <3>1. row # None /\ row.sub # None => row.sub \in Checkouts \ {k}
      BY <1>3 DEF BillingInv, RowInv, BillingTypes, SubscriptionRows
    <3> QED BY <1>1, <1>2, <1>3, <1>4, <3>1 DEF BillingInv, RowInv
  <2> QED BY <2>1, <2>2, <2>3, <2>4, <2>5 DEF BillingInv
<1>5. CASE ~UNCHANGED <<row, raced>>
  <2>1. /\ row = None /\ chk[k].pc = "created"
        /\ chk' = [chk EXCEPT ![k] = [pc |-> "linked", customer |-> chk[k].customer]]
        /\ row' = [customer |-> k, sub |-> None, version |-> 0]
        /\ raced' = {j \in Checkouts \ {k} : chk[j].pc \in {"looked", "created"}}
    BY <1>5 DEF Checkout, LookUp, CreateCustomer, Link, OpenSession, CheckoutFails, Go
  <2>2. row' \in SubscriptionRows /\ row' # None
    BY <2>1, BillingAssumption DEF SubscriptionRows
  <2>3. BillingTypes'
    BY <1>1, <1>2, <2>2 DEF BillingInv, BillingTypes
  <2>4. NewsInv'
    BY <1>1, <1>2, <1>3 DEF BillingInv, NewsInv
  <2>5. NewestInv'
    BY <1>1 DEF BillingInv, NewestInv
  <2>6. chk'[k].pc = "linked" /\ chk'[k].customer = k
    BY <2>1 DEF BillingInv, BillingTypes, LinkInv
  <2>7. \A j \in Checkouts : chk[j].pc \notin {"linked", "open"}
    BY <2>1 DEF BillingInv, LinkInv
  <2>8. LinkInv'
    <3> SUFFICES ASSUME NEW j \in Checkouts
                 PROVE  /\ chk'[j].pc = "created" => chk'[j].customer = j
                        /\ chk'[j].pc \in {"looked", "created"} => j \in raced'
                        /\ (chk'[j].pc \in {"linked", "open"} /\ chk'[j].customer # row'.customer)
                              => j \in raced'
      BY <2>2 DEF LinkInv
    <3>1. CASE j = k
      BY <3>1, <2>1, <2>6
    <3>2. CASE j # k
      BY <3>2, <1>2, <2>1, <2>7 DEF BillingInv, LinkInv
    <3> QED BY <3>1, <3>2
  <2>9. RowInv'
    <3>1. \A j \in Checkouts : subs[j] = <<>>
      BY <2>7 DEF BillingInv, NewsInv
    <3>2. \A j \in Checkouts : ~(newest'[j] > 0)
      BY <1>1, <3>1 DEF BillingInv, NewsInv, BillingTypes
    <3>3. row'.sub = None
      BY <2>1
    <3> QED BY <3>2, <3>3 DEF RowInv
  <2> QED BY <2>3, <2>4, <2>5, <2>8, <2>9 DEF BillingInv
<1> QED BY <1>4, <1>5

-----------------------------------------------------------------------------
\* Stripe.
LEMMA PayKeeps == ASSUME BillingInv, NEW k \in Checkouts, Pay(k) PROVE BillingInv'
<1>1. PICK status \in {"active", "trialing", "incomplete"} :
         subs' = [subs EXCEPT ![k] = <<status>>]
  BY DEF Pay
<1>2. /\ chk[k].pc = "open" /\ subs[k] = <<>>
      /\ UNCHANGED <<row, chk, held, raced, newest, late>>
      /\ mail' = mail \cup {[type |-> "completed", sub |-> k],
                            [type |-> "created", sub |-> k, version |-> 1]}
  BY DEF Pay
<1>3. /\ subs \in [Checkouts -> Seq(Statuses)] /\ subs'[k] = <<status>>
      /\ \A j \in Checkouts \ {k} : subs'[j] = subs[j]
  BY <1>1 DEF BillingInv, BillingTypes
<1>4. /\ subs' \in [Checkouts -> Seq(Statuses)] /\ Len(subs'[k]) = 1 /\ subs'[k] # <<>>
      /\ Len(subs[k]) = 0
  BY <1>1, <1>2, <1>3 DEF Statuses
<1>5. BillingTypes'
  BY <1>2, <1>4 DEF BillingInv, BillingTypes
<1>6. NewsInv'
  <2>1. \A j \in Checkouts : subs'[j] # <<>> => chk'[j].pc = "open"
    BY <1>2, <1>3 DEF BillingInv, NewsInv
  <2>2. \A e \in mail' :
           /\ e.sub \in Checkouts /\ subs'[e.sub] # <<>>
           /\ e.type # "completed" =>
                 e.type \in SnapshotTypes /\ e.version \in 1 .. Len(subs'[e.sub])
    <3> TAKE e \in mail'
    <3>1. CASE e \in mail
      BY <3>1, <1>2, <1>3 DEF BillingInv, NewsInv
    <3>2. CASE e \notin mail
      BY <3>2, <1>2, <1>4 DEF SnapshotTypes
    <3> QED BY <3>1, <3>2
  <2>3. \A h \in held' : h.sub \in Checkouts /\ h.version \in 1 .. Len(subs'[h.sub])
    <3> TAKE h \in held'
    <3>1. h.sub # k
      BY <1>2, <1>4 DEF BillingInv, NewsInv
    <3> QED BY <1>2, <1>3, <3>1 DEF BillingInv, NewsInv
  <2>4. \A j \in Checkouts : newest'[j] <= Len(subs'[j])
    <3> TAKE j \in Checkouts
    <3>1. newest[k] = 0
      BY <1>4 DEF BillingInv, NewsInv, BillingTypes
    <3> QED BY <1>2, <1>3, <1>4, <3>1 DEF BillingInv, NewsInv
  <2> QED BY <2>1, <2>2, <2>3, <2>4 DEF NewsInv
<1>7. NewestInv'
  <2> SUFFICES ASSUME NEW j \in Checkouts
               PROVE  \/ newest'[j] = Len(subs'[j])
                      \/ \E e \in mail' : /\ e.type # "completed" /\ e.sub = j
                                          /\ e.version = Len(subs'[j])
    BY DEF NewestInv
  <2>1. CASE j = k
    <3>1. [type |-> "created", sub |-> k, version |-> 1] \in mail'
      BY <1>2
    <3> QED BY <2>1, <3>1, <1>4
  <2>2. CASE j # k
    BY <2>2, <1>2, <1>3 DEF BillingInv, NewestInv
  <2> QED BY <2>1, <2>2
<1>8. LinkInv' /\ RowInv'
  BY <1>2 DEF BillingInv, LinkInv, RowInv
<1> QED BY <1>5, <1>6, <1>7, <1>8 DEF BillingInv

\* A subscription changes status at the provider.
LEMMA StatusChangeKeeps ==
    ASSUME BillingInv, NEW k \in Checkouts, NEW most \in Nat, StatusChanges(k, most) PROVE BillingInv'
<1>1. PICK status \in Statuses :
         /\ subs' = [subs EXCEPT ![k] = Append(@, status)]
         /\ mail' = mail \cup {[type |-> IF status = "canceled" THEN "deleted" ELSE "updated",
                                sub |-> k, version |-> Len(subs[k]) + 1]}
  BY DEF StatusChanges, Statuses
<1>2. subs[k] # <<>> /\ UNCHANGED <<row, chk, held, raced, newest, late>>
  BY DEF StatusChanges
<1>3. /\ subs \in [Checkouts -> Seq(Statuses)] /\ subs'[k] = Append(subs[k], status)
      /\ \A j \in Checkouts \ {k} : subs'[j] = subs[j]
  BY <1>1 DEF BillingInv, BillingTypes
<1>4. /\ subs' \in [Checkouts -> Seq(Statuses)] /\ Len(subs'[k]) = Len(subs[k]) + 1
      /\ subs'[k] # <<>> /\ Len(subs[k]) \in Nat
  <2>1. subs[k] \in Seq(Statuses)
    BY <1>3
  <2>2. /\ Append(subs[k], status) \in Seq(Statuses) /\ Append(subs[k], status) # <<>>
        /\ Len(Append(subs[k], status)) = Len(subs[k]) + 1 /\ Len(subs[k]) \in Nat
    BY <2>1
  <2> QED BY <1>1, <1>3, <2>2
<1>5. BillingTypes'
  BY <1>2, <1>4 DEF BillingInv, BillingTypes
<1>6. \A j \in Checkouts : Len(subs[j]) \in Nat /\ Len(subs[j]) <= Len(subs'[j])
  <2> TAKE j \in Checkouts
  <2>1. Len(subs[j]) \in Nat
    BY <1>3
  <2> QED BY <2>1, <1>3, <1>4
<1>7. NewsInv'
  <2>1. \A j \in Checkouts : subs'[j] # <<>> => chk'[j].pc = "open"
    BY <1>2, <1>3 DEF BillingInv, NewsInv
  <2>2. \A e \in mail' :
           /\ e.sub \in Checkouts /\ subs'[e.sub] # <<>>
           /\ e.type # "completed" =>
                 e.type \in SnapshotTypes /\ e.version \in 1 .. Len(subs'[e.sub])
    <3> TAKE e \in mail'
    <3>1. CASE e \in mail
      <4>1. e.sub \in Checkouts /\ subs'[e.sub] # <<>>
        BY <3>1, <1>3, <1>4 DEF BillingInv, NewsInv
      <4>2. e.type # "completed" =>
               e.type \in SnapshotTypes /\ e.version \in 1 .. Len(subs[e.sub])
        BY <3>1 DEF BillingInv, NewsInv
      <4>3. Len(subs[e.sub]) <= Len(subs'[e.sub]) /\ Len(subs'[e.sub]) \in Nat
        BY <4>1, <1>4, <1>6
      <4> QED BY <4>1, <4>2, <4>3
    <3>2. CASE e \notin mail
      <4>1. e = [type |-> IF status = "canceled" THEN "deleted" ELSE "updated",
                 sub |-> k, version |-> Len(subs[k]) + 1]
        BY <3>2, <1>1
      <4> QED BY <4>1, <1>4 DEF SnapshotTypes
    <3> QED BY <3>1, <3>2
  <2>3. \A h \in held' : h.sub \in Checkouts /\ h.version \in 1 .. Len(subs'[h.sub])
    <3> TAKE h \in held'
    <3>1. h.sub \in Checkouts /\ h.version \in 1 .. Len(subs[h.sub])
      BY <1>2 DEF BillingInv, NewsInv
    <3>2. Len(subs[h.sub]) <= Len(subs'[h.sub]) /\ Len(subs'[h.sub]) \in Nat
      BY <3>1, <1>4, <1>6
    <3> QED BY <3>1, <3>2
  <2>4. \A j \in Checkouts : newest'[j] <= Len(subs'[j])
    <3> TAKE j \in Checkouts
    <3>1. newest[j] \in Nat /\ newest[j] <= Len(subs[j]) /\ newest'[j] = newest[j]
      BY <1>2 DEF BillingInv, NewsInv, BillingTypes
    <3>2. Len(subs[j]) <= Len(subs'[j]) /\ Len(subs'[j]) \in Nat /\ Len(subs[j]) \in Nat
      BY <1>4, <1>6
    <3> QED BY <3>1, <3>2
  <2> QED BY <2>1, <2>2, <2>3, <2>4 DEF NewsInv
<1>8. NewestInv'
  <2> SUFFICES ASSUME NEW j \in Checkouts
               PROVE  \/ newest'[j] = Len(subs'[j])
                      \/ \E e \in mail' : /\ e.type # "completed" /\ e.sub = j
                                          /\ e.version = Len(subs'[j])
    BY DEF NewestInv
  <2>1. CASE j = k
    <3> DEFINE e == [type |-> IF status = "canceled" THEN "deleted" ELSE "updated",
                     sub |-> k, version |-> Len(subs[k]) + 1]
    <3>1. e \in mail' /\ e.type # "completed" /\ e.sub = k /\ e.version = Len(subs[k]) + 1
      BY <1>1
    <3> HIDE DEF e
    <3> QED BY <2>1, <3>1, <1>4
  <2>2. CASE j # k
    BY <2>2, <1>1, <1>2, <1>3 DEF BillingInv, NewestInv
  <2> QED BY <2>1, <2>2
<1>9. LinkInv' /\ RowInv'
  BY <1>2 DEF BillingInv, LinkInv, RowInv
<1> QED BY <1>5, <1>7, <1>8, <1>9 DEF BillingInv

-----------------------------------------------------------------------------
\* The webhook.
LEMMA ApplyKeepsRow ==
    ASSUME BillingInv, NEW k \in Checkouts, NEW version \in 1 .. Len(subs[k]),
           Apply(k, version), UNCHANGED <<chk, subs, raced>>
    PROVE  /\ BillingTypes' /\ LinkInv' /\ RowInv'
           /\ \A j \in Checkouts : newest'[j] <= Len(subs[j])
           /\ \A j \in Checkouts \ {k} : newest'[j] = newest[j]
           /\ newest'[k] >= version /\ newest'[k] >= newest[k] /\ newest'[k] \in Nat
<1>1. /\ newest \in [Checkouts -> Nat] /\ Len(subs[k]) \in Nat /\ version \in Nat
      /\ version > 0 /\ version <= Len(subs[k]) /\ newest[k] <= Len(subs[k])
  BY DEF BillingInv, BillingTypes, NewsInv
<1>2. /\ newest'[k] = (IF version > newest[k] THEN version ELSE newest[k])
      /\ \A j \in Checkouts \ {k} : newest'[j] = newest[j]
      /\ newest' \in [Checkouts -> Nat]
  BY <1>1 DEF Apply
<1>3. newest'[k] >= version /\ newest'[k] >= newest[k] /\ newest'[k] \in Nat
  BY <1>1, <1>2
<1>4. \A j \in Checkouts : newest'[j] <= Len(subs[j])
  BY <1>1, <1>2 DEF BillingInv, NewsInv
<1>5. late' = IF version < newest[k] THEN late \cup {k} ELSE late \ {k}
  BY DEF Apply
<1>6. subs[k] # <<>>
  BY <1>1
<1>7. row # None
  BY <1>6 DEF BillingInv, NewsInv, LinkInv
<1>8. row \in SubscriptionRows
  BY <1>7 DEF BillingInv, BillingTypes
<1>9. CASE row.customer = chk[k].customer
  <2>1. row' = [row EXCEPT !.sub = k, !.version = version]
    BY <1>7, <1>9 DEF Apply
  <2>2. /\ row' \in SubscriptionRows /\ row'.customer = row.customer
        /\ row'.sub = k /\ row'.version = version
    BY <1>1, <1>8, <2>1 DEF SubscriptionRows
  <2>3. k # None /\ row' # None
    BY <2>2, BillingAssumption
  <2>4. version = newest'[k] \/ k \in late'
    BY <1>1, <1>2, <1>5
  <2>5. newest'[k] > 0
    BY <1>1, <1>3
  <2>6. RowInv'
    BY <1>9, <2>2, <2>3, <2>4, <2>5 DEF RowInv
  <2>7. LinkInv'
    BY <1>7, <2>2, <2>3 DEF BillingInv, LinkInv
  <2>8. BillingTypes'
    BY <1>2, <2>2 DEF BillingInv, BillingTypes
  <2> QED BY <1>2, <1>3, <1>4, <2>6, <2>7, <2>8
<1>10. CASE row.customer # chk[k].customer
  <2>1. row' = row
    BY <1>10 DEF Apply
  <2>2. BillingTypes' /\ LinkInv'
    BY <1>2, <2>1 DEF BillingInv, BillingTypes, LinkInv
  <2>3. row.sub # None => row.sub \in Checkouts
    BY <1>8 DEF SubscriptionRows
  <2>4. row.sub # None => newest'[row.sub] > 0 /\ chk[row.sub].customer = row.customer
    BY <1>1, <1>2, <1>3, <1>7, <2>3 DEF BillingInv, RowInv
  <2>5. row.sub # None => row.version = newest'[row.sub] \/ row.sub \in late'
    <3> SUFFICES ASSUME row.sub # None
                 PROVE  row.version = newest'[row.sub] \/ row.sub \in late'
      OBVIOUS
    <3>1. CASE row.sub # k
      BY <3>1, <1>2, <1>5, <1>7, <2>3 DEF BillingInv, RowInv
    <3>2. CASE row.sub = k
      BY <3>2, <1>7, <1>10 DEF BillingInv, RowInv
    <3> QED BY <3>1, <3>2
  <2>6. row.sub = None =>
           \A j \in Checkouts : newest'[j] > 0 => chk[j].customer # row.customer
    BY <1>2, <1>7, <1>10 DEF BillingInv, RowInv
  <2> QED BY <1>2, <1>3, <1>4, <2>1, <2>2, <2>4, <2>5, <2>6 DEF RowInv
<1> QED BY <1>9, <1>10

\* A webhook that writes the snapshot it carries.
LEMMA SnapshotKeeps == ASSUME BillingInv, NEW e \in mail, Snapshot(e) PROVE BillingInv'
<1> DEFINE k == e.sub
           v == e.version
<1>1. /\ e.type # "completed" /\ e.type \in SnapshotTypes
      /\ k \in Checkouts /\ v \in 1 .. Len(subs[k])
  BY DEF Snapshot, BillingInv, NewsInv
<1>2. /\ Apply(k, v) /\ UNCHANGED <<chk, subs, held, raced>>
      /\ mail' = mail \/ mail' = mail \ {e}
  BY <1>1 DEF Snapshot
<1> HIDE DEF k, v
<1>3. /\ BillingTypes' /\ LinkInv' /\ RowInv'
      /\ \A j \in Checkouts : newest'[j] <= Len(subs[j])
      /\ \A j \in Checkouts \ {k} : newest'[j] = newest[j]
      /\ newest'[k] >= v /\ newest'[k] >= newest[k] /\ newest'[k] \in Nat
  BY <1>1, <1>2, ApplyKeepsRow
<1>4. NewsInv'
  BY <1>2, <1>3 DEF BillingInv, NewsInv
<1>5. NewestInv'
  <2> SUFFICES ASSUME NEW j \in Checkouts
               PROVE  \/ newest'[j] = Len(subs[j])
                      \/ \E f \in mail' : /\ f.type # "completed" /\ f.sub = j
                                          /\ f.version = Len(subs[j])
    BY <1>2 DEF NewestInv
  <2>1. Len(subs[k]) \in Nat /\ newest'[k] \in Nat /\ newest[k] \in Nat
    BY <1>1, <1>3 DEF BillingInv, BillingTypes
  <2>2. CASE j # k
    <3>1. e.sub # j
      BY <2>2 DEF k
    <3> QED BY <2>2, <3>1, <1>2, <1>3 DEF BillingInv, NewestInv
  <2>3. CASE j = k /\ newest[k] = Len(subs[k])
    BY <2>1, <2>3, <1>3
  <2>4. CASE j = k /\ v = Len(subs[k])
    BY <2>1, <2>4, <1>1, <1>3
  <2>5. CASE j = k /\ newest[k] # Len(subs[k]) /\ v # Len(subs[k])
    <3>1. PICK f \in mail : /\ f.type # "completed" /\ f.sub = k
                            /\ f.version = Len(subs[k])
      BY <2>5 DEF BillingInv, NewestInv
    <3>2. f # e
      BY <3>1, <2>5 DEF v
    <3> QED BY <2>5, <3>1, <3>2, <1>2
  <2> QED BY <2>2, <2>3, <2>4, <2>5
<1> QED BY <1>3, <1>4, <1>5 DEF BillingInv

\* A webhook that asks for the status: the answer is on its way.
LEMMA RetrieveKeeps == ASSUME BillingInv, NEW e \in mail, Retrieve(e) PROVE BillingInv'
<1>1. /\ e.type = "completed" /\ e.sub \in Checkouts /\ subs[e.sub] # <<>>
      /\ UNCHANGED <<row, chk, subs, raced, newest, late>>
      /\ mail' = mail \/ mail' = mail \ {e}
      /\ held' = held \cup {[sub |-> e.sub, version |-> Len(subs[e.sub])]}
  BY DEF Retrieve, BillingInv, NewsInv
<1>2. BillingTypes' /\ LinkInv' /\ RowInv'
  BY <1>1 DEF BillingInv, BillingTypes, LinkInv, RowInv
<1>3. Len(subs[e.sub]) \in 1 .. Len(subs[e.sub])
  BY <1>1 DEF BillingInv, BillingTypes
<1>4. NewsInv'
  <2>1. \A h \in held' : h.sub \in Checkouts /\ h.version \in 1 .. Len(subs[h.sub])
    BY <1>1, <1>3 DEF BillingInv, NewsInv
  <2> QED BY <1>1, <2>1 DEF BillingInv, NewsInv
<1>5. NewestInv'
  BY <1>1 DEF BillingInv, NewestInv
<1> QED BY <1>2, <1>4, <1>5 DEF BillingInv

\* The answer is written.
LEMMA ApplyRetrievedKeeps == ASSUME BillingInv, NEW h \in held, ApplyRetrieved(h) PROVE BillingInv'
<1> DEFINE k == h.sub
           v == h.version
<1>1. /\ k \in Checkouts /\ v \in 1 .. Len(subs[k]) /\ Apply(k, v)
      /\ UNCHANGED <<chk, subs, mail, raced>> /\ held' \subseteq held
  BY DEF ApplyRetrieved, BillingInv, NewsInv
<1> HIDE DEF k, v
<1>2. /\ BillingTypes' /\ LinkInv' /\ RowInv'
      /\ \A j \in Checkouts : newest'[j] <= Len(subs[j])
      /\ \A j \in Checkouts \ {k} : newest'[j] = newest[j]
      /\ newest'[k] >= newest[k] /\ newest'[k] \in Nat
  BY <1>1, ApplyKeepsRow
<1>3. NewsInv'
  BY <1>1, <1>2 DEF BillingInv, NewsInv
<1>4. NewestInv'
  <2> SUFFICES ASSUME NEW j \in Checkouts
               PROVE  \/ newest'[j] = Len(subs[j])
                      \/ \E f \in mail : /\ f.type # "completed" /\ f.sub = j
                                         /\ f.version = Len(subs[j])
    BY <1>1 DEF NewestInv
  <2>1. Len(subs[k]) \in Nat /\ newest'[k] \in Nat /\ newest[k] \in Nat
    BY <1>1, <1>2 DEF BillingInv, BillingTypes
  <2>2. CASE newest[j] # Len(subs[j])
    BY <2>2 DEF BillingInv, NewestInv
  <2>3. CASE newest[j] = Len(subs[j])
    BY <2>1, <2>3, <1>1, <1>2
  <2> QED BY <2>2, <2>3
<1> QED BY <1>2, <1>3, <1>4 DEF BillingInv

\* Writing the answer fails, and it is delivered again.
LEMMA ApplyFailsKeeps == ASSUME BillingInv, NEW h \in held, ApplyFails(h) PROVE BillingInv'
<1>1. /\ UNCHANGED <<row, chk, subs, raced, newest, late>> /\ held' \subseteq held
      /\ mail' = mail \cup {[type |-> "completed", sub |-> h.sub]}
  BY DEF ApplyFails
<1>2. BillingTypes' /\ LinkInv' /\ RowInv'
  BY <1>1 DEF BillingInv, BillingTypes, LinkInv, RowInv
<1>3. h.sub \in Checkouts /\ subs[h.sub] # <<>>
  BY DEF BillingInv, NewsInv
<1>4. NewsInv'
  BY <1>1, <1>3 DEF BillingInv, NewsInv
<1>5. NewestInv'
  BY <1>1 DEF BillingInv, NewestInv
<1> QED BY <1>2, <1>4, <1>5 DEF BillingInv

-----------------------------------------------------------------------------
\* It holds at first.
LEMMA BillingInitHolds == BillingInit => BillingInv
<1> SUFFICES ASSUME BillingInit PROVE BillingInv
  OBVIOUS
<1> USE DEF BillingInit
<1>1. BillingTypes
  BY DEF BillingTypes
<1>2. NewsInv /\ NewestInv
  BY DEF NewsInv, NewestInv
<1>3. LinkInv /\ RowInv
  BY DEF LinkInv, RowInv
<1> QED BY <1>1, <1>2, <1>3 DEF BillingInv

\* The invariant holds in every state of a user's billing.
THEOREM BillingInductive == BillingSpec => []BillingInv
<1>1. BillingInv /\ [BillingNext]_billingVars => BillingInv'
  <2> SUFFICES ASSUME BillingInv, [BillingNext]_billingVars PROVE BillingInv'
    OBVIOUS
  <2>1. CASE \E k \in Checkouts :
               Checkout(k) \/ Pay(k) \/ \E most \in Nat : StatusChanges(k, most)
    BY <2>1, CheckoutKeeps, PayKeeps, StatusChangeKeeps
  <2>2. CASE Webhook
    BY <2>2, SnapshotKeeps, RetrieveKeeps, ApplyRetrievedKeeps, ApplyFailsKeeps
       DEF Webhook
  <2>3. CASE UNCHANGED billingVars
    BY <2>3 DEF BillingInv, BillingTypes, NewsInv, NewestInv, LinkInv, RowInv, billingVars
  <2> QED BY <2>1, <2>2, <2>3 DEF BillingNext
<1> QED BY BillingInitHolds, <1>1, PTL DEF BillingSpec

\* Once every webhook has arrived, the row is right but for checkouts that raced
\* and snapshots that were applied in the wrong order.
THEOREM SubscriptionSettles == BillingSpec => []RowSettles
<1>1. BillingInv => RowSettles
  <2> SUFFICES ASSUME BillingInv PROVE RowSettles
    OBVIOUS
  <2>1. \A k \in Checkouts :
           chk[k].pc \in {"linked", "open"} /\ chk[k].customer # row.customer => k \in raced
    BY DEF BillingInv, LinkInv
  <2>2. ASSUME Delivered, row # None
        PROVE  /\ row.sub # None => row.version = Len(subs[row.sub]) \/ row.sub \in late
               /\ row.sub = None => \A k \in Bought : chk[k].customer # row.customer
               /\ \A k \in Bought \ (raced \cup late) :
                     Bought = {k} => (IsActive <=> Last(subs[k]) \in ActiveStatuses)
    <3>1. \A k \in Checkouts : newest[k] = Len(subs[k])
      BY <2>2 DEF Delivered, BillingInv, NewestInv
    <3>2. \A k \in Bought : k \in Checkouts /\ newest[k] > 0
      <4> TAKE k \in Bought
      <4>1. k \in Checkouts /\ subs[k] # <<>> /\ subs[k] \in Seq(Statuses)
        BY DEF Bought, BillingInv, BillingTypes
      <4> QED BY <3>1, <4>1
    <3>3. row.sub # None => row.sub \in Checkouts
      BY <2>2 DEF BillingInv, BillingTypes, SubscriptionRows
    <3>4. row.sub # None => row.version = Len(subs[row.sub]) \/ row.sub \in late
      BY <2>2, <3>1, <3>3 DEF BillingInv, RowInv
    <3>5. row.sub = None => \A k \in Bought : chk[k].customer # row.customer
      BY <2>2, <3>2 DEF BillingInv, RowInv
    <3>6. ASSUME NEW k \in Bought \ (raced \cup late), Bought = {k}
          PROVE  IsActive <=> Last(subs[k]) \in ActiveStatuses
      <4>1. chk[k].customer = row.customer
        BY <3>2, <3>6 DEF Bought, BillingInv, NewsInv, LinkInv
      <4>2. row.sub # None
        BY <4>1, <3>5
      <4>3. row.sub \in Bought
        <5>1. newest[row.sub] > 0 /\ newest[row.sub] = Len(subs[row.sub])
          BY <2>2, <3>1, <3>3, <4>2 DEF BillingInv, RowInv
        <5>2. subs[row.sub] # <<>>
          BY <5>1
        <5> QED BY <5>2, <3>3, <4>2 DEF Bought
      <4>4. row.sub = k /\ row.version = Len(subs[k])
        BY <3>4, <3>6, <4>2, <4>3
      <4> QED BY <2>2, <4>2, <4>4 DEF IsActive, Last
    <3> QED BY <3>4, <3>5, <3>6
  <2> QED BY <2>1, <2>2 DEF RowSettles
<1> QED BY <1>1, BillingInductive, PTL

-----------------------------------------------------------------------------
(* Conditions and what is nested in them.                                  *)

\* The recursive definition of Levels.
Below(conditions, ops) == UNION {ToSet(p.terms) : p \in {q \in conditions : q.op \in ops}}
AreLevels(f, c, ops) ==
    f = [depth \in 0 .. MaxNesting |-> IF depth = 0 THEN {c} ELSE Below(f[depth - 1], ops)]
\* Levels is what its recursive definition says.
LEMMA LevelsOK ==
    ASSUME NEW c, NEW ops
    PROVE  /\ AreLevels(Levels(c, ops), c, ops)
           /\ Levels(c, ops)[0] = {c} /\ 0 \in 0 .. MaxNesting /\ 1 \in 0 .. MaxNesting
           /\ MaxNesting \in 0 .. MaxNesting /\ 0 .. MaxNesting # {}
           /\ \A d \in 0 .. MaxNesting - 1 :
                 Levels(c, ops)[d + 1] = Below(Levels(c, ops)[d], ops)
<1> DEFINE n == MaxNesting
           Upto(g, m) == \A k \in 0 .. m : g[k] = IF k = 0 THEN {c} ELSE Below(g[k - 1], ops)
           Q == {m \in 0 .. n : \E g : Upto(g, m)}
<1>1. n \in Nat /\ n # 0
    BY ConfigAssumption
<1>2. 0 \in Q
  <2> DEFINE g == [k \in 0 .. 0 |-> {c}]
  <2>1. Upto(g, 0)
      OBVIOUS
  <2> HIDE DEF g
  <2> QED BY <1>1, <2>1
<1>3. ASSUME NEW m \in 0 .. n - 1, m \in Q PROVE m + 1 \in Q
  <2>1. PICK g : Upto(g, m)
      BY <1>3
  <2> DEFINE h == [k \in 0 .. m + 1 |-> IF k = m + 1 THEN Below(g[m], ops) ELSE g[k]]
  <2>2. Upto(h, m + 1)
    <3> SUFFICES ASSUME NEW k \in 0 .. m + 1
                 PROVE  h[k] = IF k = 0 THEN {c} ELSE Below(h[k - 1], ops)
        OBVIOUS
    <3>1. CASE k = m + 1
      <4>1. k # 0 /\ k - 1 = m /\ m \in 0 .. m + 1 /\ m # m + 1 /\ h[m] = g[m]
          BY <1>1, <3>1
      <4> QED BY <3>1, <4>1
    <3>2. CASE k # m + 1
      <4>1. k \in 0 .. m /\ h[k] = g[k]
          BY <1>1, <3>2
      <4>2. k # 0 => h[k - 1] = g[k - 1]
          BY <1>1, <3>2
      <4> QED BY <2>1, <4>1, <4>2
    <3> QED BY <3>1, <3>2
  <2>3. m + 1 \in 0 .. n
      BY <1>1
  <2> HIDE DEF h, Upto
  <2> QED BY <2>2, <2>3
<1>4. 0 .. n \subseteq Q
  <2> HIDE DEF Q, n
  <2> QED BY <1>1, <1>2, <1>3, BoundedInduction
<1>5. PICK g : Upto(g, n)
    BY <1>1, <1>4
<1> DEFINE f == [k \in 0 .. n |-> g[k]]
<1>6. AreLevels(f, c, ops)
  <2>1. \A k \in 0 .. n : k # 0 => k - 1 \in 0 .. n
      BY <1>1
  <2> HIDE DEF n
  <2>2. \A k \in 0 .. n : f[k] = IF k = 0 THEN {c} ELSE Below(f[k - 1], ops)
      BY <1>5, <2>1
  <2>3. f = [k \in 0 .. n |-> f[k]]
      OBVIOUS
  <2> HIDE DEF f
  <2> QED BY <2>2, <2>3 DEF AreLevels, n
<1>7. AreLevels(Levels(c, ops), c, ops)
  <2>1. Levels(c, ops) = CHOOSE level : AreLevels(level, c, ops)
      BY DEF Levels, AreLevels, Below
  <2> QED BY <1>6, <2>1
<1>8. ASSUME NEW d \in 0 .. n - 1 PROVE Levels(c, ops)[d + 1] = Below(Levels(c, ops)[d], ops)
  <2>1. d + 1 \in 0 .. n /\ d + 1 # 0 /\ (d + 1) - 1 = d
      BY <1>1
  <2> QED BY <1>7, <2>1 DEF AreLevels
<1>9. Levels(c, ops)[0] = {c} /\ 0 \in 0 .. n /\ 1 \in 0 .. n /\ n \in 0 .. n /\ 0 .. n # {}
    BY <1>1, <1>7 DEF AreLevels
<1> QED BY <1>7, <1>8, <1>9

\* A condition is a part of itself, and so are the terms of its parts.
LEMMA PartsOK ==
    ASSUME NEW c, NEW ops
    PROVE  /\ c \in Parts(c, ops)
           /\ \A d \in 0 .. MaxNesting : Levels(c, ops)[d] \subseteq Parts(c, ops)
           /\ \A d \in 0 .. MaxNesting - 1 : \A p \in Levels(c, ops)[d] :
                 p.op \in ops => \A i \in DOMAIN p.terms : p.terms[i] \in Levels(c, ops)[d + 1]
<1>1. \A d \in 0 .. MaxNesting : Levels(c, ops)[d] \subseteq Parts(c, ops)
    BY DEF Parts
<1>2. c \in Parts(c, ops)
    BY <1>1, LevelsOK
<1>3. ASSUME NEW d \in 0 .. MaxNesting - 1, NEW p \in Levels(c, ops)[d], p.op \in ops,
             NEW i \in DOMAIN p.terms
      PROVE  p.terms[i] \in Levels(c, ops)[d + 1]
  <2>1. Levels(c, ops)[d + 1] = Below(Levels(c, ops)[d], ops)
      BY LevelsOK
  <2>2. p.terms[i] \in ToSet(p.terms)
      BY DEF ToSet
  <2> QED BY <1>3, <2>1, <2>2 DEF Below
<1> QED BY <1>1, <1>2, <1>3

\* Who looks below more operators sees more.
LEMMA LevelsGrow ==
    ASSUME NEW c, NEW few, NEW ops, few \subseteq ops
    PROVE  \A d \in 0 .. MaxNesting : Levels(c, few)[d] \subseteq Levels(c, ops)[d]
<1> DEFINE Q == {d \in 0 .. MaxNesting : Levels(c, few)[d] \subseteq Levels(c, ops)[d]}
<1>1. 0 \in Q
    BY LevelsOK
<1>2. ASSUME NEW d \in 0 .. MaxNesting - 1, d \in Q PROVE d + 1 \in Q
  <2>1. /\ Levels(c, ops)[d + 1] = Below(Levels(c, ops)[d], ops)
        /\ Levels(c, few)[d + 1] = Below(Levels(c, few)[d], few)
      BY LevelsOK
  <2>2. Below(Levels(c, few)[d], few) \subseteq Below(Levels(c, ops)[d], ops)
    <3>1. Levels(c, few)[d] \subseteq Levels(c, ops)[d]
        BY <1>2
    <3>2. \A S, T : S \subseteq T => Below(S, few) \subseteq Below(T, ops)
        BY DEF Below
    <3> QED BY <3>1, <3>2
  <2>3. d + 1 \in 0 .. MaxNesting
      BY ConfigAssumption
  <2> HIDE DEF Q
  <2> QED BY <2>1, <2>2, <2>3 DEF Q
<1>3. 0 .. MaxNesting \subseteq Q
  <2> HIDE DEF Q
  <2> QED BY <1>1, <1>2, BoundedInduction, ConfigAssumption
<1> QED BY <1>3

\* The recursive definition of Leaves.
LeafValue(f, p) ==
    IF IsCmp(p) THEN <<Comparison(p.op, p.left, p.right)>>
    ELSE FlattenSeq([i \in DOMAIN p.terms |-> f[p.terms[i]]])
AreLeaves(f, c) == f = [p \in Parts(c, Ops) |-> LeafValue(f, p)]
LeavesOf(c) == CHOOSE leaves : AreLeaves(leaves, c)

\* It looks no further than the terms.
LEMMA LeafValueLocal ==
    ASSUME NEW f, NEW g, NEW p, \A i \in DOMAIN p.terms : f[p.terms[i]] = g[p.terms[i]]
    PROVE  LeafValue(f, p) = LeafValue(g, p)
<1>1. [i \in DOMAIN p.terms |-> f[p.terms[i]]] = [i \in DOMAIN p.terms |-> g[p.terms[i]]]
    OBVIOUS
<1> QED BY <1>1 DEF LeafValue

\* The conditions at the bottom have no terms.
Bottoms(c) == \A p \in Levels(c, Ops)[MaxNesting] : p.terms = <<>>

\* A condition has leaves if it is nested no deeper than the instance looks.
LEMMA LeavesExist ==
    ASSUME NEW c, Bottoms(c), \A p \in Parts(c, Ops) : p.op \in Ops
    PROVE  AreLeaves(LeavesOf(c), c) /\ Leaves(c) = LeavesOf(c)[c]
<1> DEFINE n == MaxNesting
           Deep(m) == UNION {Levels(c, Ops)[d] : d \in n - m .. n}
           Knows(g, m) == \A p \in Deep(m) : g[p] = LeafValue(g, p)
           Q == {m \in 0 .. n : \E g : Knows(g, m)}
<1>1. n \in Nat
    BY ConfigAssumption
<1>2. ASSUME NEW m \in 0 .. n, NEW p \in Deep(m), NEW i \in DOMAIN p.terms
      PROVE  m # 0 /\ p.terms[i] \in Deep(m - 1)
  <2>1. PICK d \in n - m .. n : p \in Levels(c, Ops)[d]
      OBVIOUS
  <2>2. d # n
    <3>1. p.terms # <<>>
        BY <1>2
    <3> QED BY <2>1, <3>1 DEF Bottoms
  <2>3. d \in 0 .. n - 1 /\ d + 1 \in n - (m - 1) .. n /\ m # 0 /\ d \in 0 .. n
      BY <1>1, <2>1, <2>2
  <2> HIDE DEF n
  <2>4. p.op \in Ops
      BY <2>1, <2>3, PartsOK DEF n
  <2>5. p.terms[i] \in Levels(c, Ops)[d + 1]
      BY <1>2, <2>1, <2>3, <2>4, PartsOK DEF n
  <2> QED BY <2>3, <2>5
<1>3. 0 \in Q
  <2> DEFINE g == [p \in Deep(0) |-> LeafValue(<<>>, p)]
  <2>1. ASSUME NEW p \in Deep(0) PROVE g[p] = LeafValue(g, p)
    <3>1. \A i \in DOMAIN p.terms : FALSE
      <4>1. 0 \in 0 .. n
          BY <1>1
      <4> HIDE DEF Deep, n, g
      <4> QED BY <1>2, <4>1
    <3>2. LeafValue(<<>>, p) = LeafValue(g, p)
      <4> HIDE DEF g
      <4> QED BY <3>1, LeafValueLocal
    <3> HIDE DEF Deep
    <3> QED BY <2>1, <3>2
  <2> HIDE DEF g, Deep
  <2> QED BY <1>1, <2>1
<1>4. ASSUME NEW m \in 0 .. n - 1, m \in Q PROVE m + 1 \in Q
  <2>1. PICK g : Knows(g, m)
      BY <1>4
  <2> DEFINE h == [p \in Deep(m + 1) |-> LeafValue(g, p)]
  <2>2. m + 1 \in 0 .. n /\ (m + 1) - 1 = m
      BY <1>1
  <2>3. Deep(m) \subseteq Deep(m + 1)
    <3>1. n - m .. n \subseteq n - (m + 1) .. n
        BY <1>1
    <3> HIDE DEF n
    <3> QED BY <3>1
  <2>4. ASSUME NEW p \in Deep(m + 1) PROVE h[p] = LeafValue(h, p)
    <3>1. \A i \in DOMAIN p.terms : p.terms[i] \in Deep(m)
        BY <1>2, <2>2
    <3> HIDE DEF Deep
    <3>2. \A i \in DOMAIN p.terms : g[p.terms[i]] = h[p.terms[i]]
        BY <2>1, <2>3, <3>1
    <3>3. LeafValue(g, p) = LeafValue(h, p)
      <4> HIDE DEF h
      <4> QED BY <3>2, LeafValueLocal
    <3> QED BY <2>4, <3>3
  <2> HIDE DEF h, Deep
  <2> QED BY <2>2, <2>4
<1>5. 0 .. n \subseteq Q
  <2> HIDE DEF Q, n
  <2> QED BY <1>1, <1>3, <1>4, BoundedInduction
<1>6. PICK g : Knows(g, n)
    BY <1>1, <1>5
<1>7. Deep(n) = Parts(c, Ops)
  <2>1. n - n = 0
      BY <1>1
  <2> HIDE DEF n
  <2> QED BY <2>1 DEF Parts, n
<1> HIDE DEF Deep, Q
<1> DEFINE f == [p \in Parts(c, Ops) |-> g[p]]
<1>8. AreLeaves(f, c)
  <2>1. ASSUME NEW p \in Parts(c, Ops) PROVE f[p] = LeafValue(f, p)
    <3>1. \A i \in DOMAIN p.terms : p.terms[i] \in Parts(c, Ops)
      <4>1. \A i \in DOMAIN p.terms : p.terms[i] \in Deep(n - 1) /\ n # 0
          BY <1>1, <1>2, <1>7, <2>1
      <4>2. n # 0 => Deep(n - 1) \subseteq Deep(n)
        <5>1. n # 0 => n - (n - 1) .. n \subseteq n - n .. n
            BY <1>1
        <5> HIDE DEF n
        <5> QED BY <5>1 DEF Deep
      <4> QED BY <1>7, <4>1, <4>2
    <3>2. \A i \in DOMAIN p.terms : g[p.terms[i]] = f[p.terms[i]]
        BY <3>1
    <3>3. LeafValue(g, p) = LeafValue(f, p)
      <4> HIDE DEF f
      <4> QED BY <3>2, LeafValueLocal
    <3> QED BY <1>6, <1>7, <2>1, <3>3
  <2>2. f = [p \in Parts(c, Ops) |-> f[p]]
      OBVIOUS
  <2> HIDE DEF f
  <2> QED BY <2>1, <2>2 DEF AreLeaves
<1>9. Leaves(c) = LeavesOf(c)[c]
    BY DEF Leaves, LeavesOf, AreLeaves, LeafValue
<1> QED BY <1>8, <1>9 DEF LeavesOf

\* The comparisons a condition is made of.
Comparisons(c) ==
    {Comparison(p.op, p.left, p.right) : p \in {q \in Parts(c, BoolOps) : IsCmp(q)}}
Shaped(c) ==
    \A p \in Parts(c, Ops) :
        /\ p = [op |-> p.op, left |-> p.left, right |-> p.right, terms |-> p.terms]
        /\ p.terms \in Seq(ToSet(p.terms))

\* A condition the schema accepts has leaves, which are its comparisons.
LEMMA LeavesOK ==
    ASSUME NEW c, SchemaCondition(c), Bottoms(c), Shaped(c)
    PROVE  Leaves(c) \in Seq(Comparisons(c)) /\ Leaves(c) # <<>>
<1> DEFINE n == MaxNesting
           S == Comparisons(c)
           f == LeavesOf(c)
           OK(s) == s \in Seq(S) /\ s # <<>>
           Q == {m \in 0 .. n : \A p \in Levels(c, BoolOps)[n - m] : OK(f[p])}
<1>1. n \in Nat
    BY ConfigAssumption
<1>2. \A p \in Parts(c, Ops) : p.op \in Ops /\ (p.op \in Comparators => IsCmp(p))
                               /\ (p.op \in BoolOps => p.terms # <<>> /\ ~IsCmp(p))
    BY DEF SchemaCondition, Ops, IsCmp, BoolOps, Comparators
<1>3. AreLeaves(f, c) /\ Leaves(c) = f[c]
    BY <1>2, LeavesExist
<1>4. ASSUME NEW d \in 0 .. n, NEW p \in Levels(c, BoolOps)[d]
      PROVE  /\ p \in Parts(c, Ops) /\ p \in Parts(c, BoolOps) /\ f[p] = LeafValue(f, p)
             /\ p.op \in Comparators => OK(f[p])
             /\ p.op \in Comparators \/ p.op \in BoolOps
             /\ d = n => p.terms = <<>>
  <2>1. Levels(c, BoolOps)[d] \subseteq Levels(c, Ops)[d]
      BY LevelsGrow DEF Ops
  <2>2. p \in Parts(c, Ops) /\ p \in Parts(c, BoolOps)
      BY <2>1, PartsOK
  <2>3. f[p] = LeafValue(f, p)
    <3> HIDE DEF f
    <3> QED BY <1>3, <2>2 DEF AreLeaves
  <2>4. p.op \in Comparators => OK(f[p])
    <3> SUFFICES ASSUME p.op \in Comparators PROVE OK(f[p])
        OBVIOUS
    <3>1. IsCmp(p)
        BY <1>2, <2>2
    <3>2. f[p] = <<Comparison(p.op, p.left, p.right)>>
        BY <2>3, <3>1 DEF LeafValue
    <3>3. Comparison(p.op, p.left, p.right) \in S
        BY <2>2, <3>1 DEF Comparisons
    <3> HIDE DEF S, f
    <3> QED BY <3>2, <3>3
  <2>5. d = n => p.terms = <<>>
      BY <2>1 DEF Bottoms
  <2> QED BY <1>2, <2>2, <2>3, <2>4, <2>5 DEF Ops
<1> HIDE DEF f, S
<1>5. 0 \in Q
  <2>1. ASSUME NEW p \in Levels(c, BoolOps)[n] PROVE OK(f[p])
    <3>1. n \in 0 .. n
        BY <1>1
    <3> HIDE DEF n
    <3> QED BY <1>2, <1>4, <3>1
  <2>2. n - 0 = n /\ 0 \in 0 .. n
      BY <1>1
  <2> HIDE DEF n, OK
  <2> QED BY <2>1, <2>2
<1>6. ASSUME NEW m \in 0 .. n - 1, m \in Q PROVE m + 1 \in Q
  <2> DEFINE d == n - (m + 1)
  <2>1. d \in 0 .. n - 1 /\ d \in 0 .. n /\ d + 1 = n - m /\ m + 1 \in 0 .. n
      BY <1>1
  <2>2. \A q \in Levels(c, BoolOps)[d + 1] : OK(f[q])
      BY <1>6, <2>1
  <2>3. ASSUME NEW p \in Levels(c, BoolOps)[d] PROVE OK(f[p])
    <3> HIDE DEF OK, d, n
    <3>1. CASE p.op \in Comparators
        BY <1>4, <2>1, <3>1
    <3>2. CASE p.op \in BoolOps
      <4>1. p \in Parts(c, Ops) /\ f[p] = LeafValue(f, p)
          BY <1>4, <2>1
      <4>2. ~IsCmp(p) /\ p.terms # <<>> /\ p.terms \in Seq(ToSet(p.terms))
          BY <1>2, <3>2, <4>1 DEF Shaped
      <4>3. \A i \in DOMAIN p.terms : p.terms[i] \in Levels(c, BoolOps)[d + 1]
          BY <2>1, <3>2, PartsOK DEF n
      <4> DEFINE s == [i \in DOMAIN p.terms |-> f[p.terms[i]]]
      <4>4. \A i \in DOMAIN p.terms : f[p.terms[i]] \in Seq(S) /\ f[p.terms[i]] # <<>>
          BY <2>2, <4>3 DEF OK
      <4>5. DOMAIN p.terms = 1 .. Len(p.terms) /\ Len(p.terms) \in Nat \ {0}
          BY <4>2
      <4>6. s \in Seq(Seq(S)) /\ s # <<>> /\ Len(s) = Len(p.terms)
        <5> DEFINE k == Len(p.terms)
                   D == Seq(S)
        <5>1. s \in [1 .. k -> D] /\ k \in Nat /\ k # 0
            BY <4>4, <4>5
        <5> HIDE DEF s, k, D
        <5>2. s \in Seq(D) /\ Len(s) = k /\ s # <<>>
            BY <5>1
        <5> QED BY <5>2 DEF k, D
      <4>7. \A i \in 1 .. Len(s) : s[i] # <<>>
          BY <4>4, <4>5, <4>6
      <4>8. FlattenSeq(s) \in Seq(S) /\ FlattenSeq(s) # <<>>
        <5> HIDE DEF s
        <5> QED BY <4>6, <4>7, FlattenNotEmpty
      <4> QED BY <4>1, <4>2, <4>8 DEF LeafValue, OK
    <3>3. p.op \in Comparators \/ p.op \in BoolOps
        BY <1>4, <2>1
    <3> QED BY <3>1, <3>2, <3>3
  <2> HIDE DEF OK
  <2> QED BY <2>1, <2>3
<1>7. 0 .. n \subseteq Q
  <2> HIDE DEF Q, n
  <2> QED BY <1>1, <1>5, <1>6, BoundedInduction
<1>8. n \in Q /\ n - n = 0
  <2>1. n \in 0 .. n
      BY <1>1
  <2> HIDE DEF Q
  <2> QED BY <1>1, <1>7, <2>1
<1>9. Levels(c, BoolOps)[0] = {c}
    BY LevelsOK
<1> HIDE DEF OK, n
<1>10. OK(f[c])
    BY <1>8, <1>9
<1> QED BY <1>3, <1>10 DEF OK, S

-----------------------------------------------------------------------------
(* Flat conditions.                                                        *)

\* A condition has no parts but itself and its terms, if one does not look below
\* those or nothing is there.
LEMMA FlatParts ==
    ASSUME NEW c, NEW ops, NEW K, K = IF c.op \in ops THEN ToSet(c.terms) ELSE {},
           \A t \in K : t.op \notin ops \/ t.terms = <<>>
    PROVE  Parts(c, ops) = {c} \cup K /\ Levels(c, ops)[MaxNesting] \subseteq K
<1> DEFINE n == MaxNesting
           Q == {m \in 0 .. n - 1 : Levels(c, ops)[m + 1] \subseteq K}
<1>1. n \in Nat /\ n # 0
    BY ConfigAssumption
<1>2. Levels(c, ops)[0] = {c} /\ Levels(c, ops)[1] = K
  <2>1. Levels(c, ops)[0] = {c}
      BY LevelsOK
  <2>2. 0 \in 0 .. MaxNesting - 1 /\ 0 + 1 = 1
      BY <1>1
  <2>3. Levels(c, ops)[1] = Below({c}, ops)
    <3>1. \A d \in 0 .. MaxNesting - 1 : Levels(c, ops)[d + 1] = Below(Levels(c, ops)[d], ops)
        BY LevelsOK
    <3>2. Levels(c, ops)[0 + 1] = Below(Levels(c, ops)[0], ops)
        BY <2>2, <3>1
    <3> QED BY <2>1, <2>2, <3>2
  <2>4. Below({c}, ops) = K
      BY DEF Below
  <2> QED BY <2>1, <2>3, <2>4
<1>3. \A S \in SUBSET K : Below(S, ops) = {}
    BY DEF Below, ToSet
<1>4. 0 \in Q
  <2>1. 0 \in 0 .. n - 1 /\ 0 + 1 = 1
      BY <1>1
  <2> HIDE DEF n
  <2> QED BY <1>2, <2>1
<1>5. ASSUME NEW m \in 0 .. n - 1 - 1, m \in Q PROVE m + 1 \in Q
  <2>1. m + 1 \in 0 .. n - 1
      BY <1>1
  <2>2. Levels(c, ops)[(m + 1) + 1] = Below(Levels(c, ops)[m + 1], ops)
      BY <2>1, LevelsOK
  <2>3. Levels(c, ops)[m + 1] \in SUBSET K
      BY <1>5
  <2>4. Levels(c, ops)[(m + 1) + 1] = {}
      BY <1>3, <2>2, <2>3
  <2> HIDE DEF n
  <2> QED BY <2>1, <2>4
<1>6. 0 .. n - 1 \subseteq Q
  <2>1. n - 1 \in Nat
      BY <1>1
  <2> HIDE DEF Q, n
  <2> QED BY <1>4, <1>5, <2>1, BoundedInduction
<1>7. \A d \in 1 .. n : Levels(c, ops)[d] \subseteq K
  <2> SUFFICES ASSUME NEW d \in 1 .. n PROVE Levels(c, ops)[d] \subseteq K
      OBVIOUS
  <2>1. d - 1 \in 0 .. n - 1 /\ (d - 1) + 1 = d
      BY <1>1
  <2>2. d - 1 \in Q
      BY <1>6, <2>1
  <2> HIDE DEF n
  <2> QED BY <2>1, <2>2
<1>8. 0 .. n = {0} \cup 1 .. n /\ 1 \in 1 .. n /\ n \in 1 .. n
    BY <1>1
<1> HIDE DEF Q
<1>9. Parts(c, ops) = {c} \cup K
  <2>1. Parts(c, ops) = UNION {Levels(c, ops)[d] : d \in 0 .. n}
      BY DEF Parts
  <2> HIDE DEF n
  <2> QED BY <1>2, <1>7, <1>8, <2>1
<1> QED BY <1>7, <1>8, <1>9

\* A comparison, and a combination of comparisons.
Comparing(g) ==
    /\ g.op \in Comparators /\ g.left # NoText /\ g.right # NoText
    /\ g = Comparison(g.op, g.left, g.right)
Combined(op, leaves) == [op |-> op, left |-> NoText, right |-> NoText, terms |-> leaves]
Rebuilt(c, leaves) ==
    \/ leaves = <<c>> /\ Comparing(c)
    \/ /\ \E op \in {"and", "or"} : c = Combined(op, leaves)
       /\ leaves \in Seq(ToSet(leaves)) /\ leaves # <<>> /\ \A g \in ToSet(leaves) : Comparing(g)

\* What the editor builds has no other parts.
LEMMA RebuiltParts ==
    ASSUME NEW c, NEW leaves, Rebuilt(c, leaves)
    PROVE  /\ leaves \in Seq(ToSet(leaves)) /\ leaves # <<>>
           /\ \A g \in ToSet(leaves) : Comparing(g)
           /\ Parts(c, Ops) = {c} \cup ToSet(leaves) /\ Parts(c, BoolOps) = {c} \cup ToSet(leaves)
           /\ Bottoms(c) /\ Shaped(c) /\ \A p \in Parts(c, Ops) : p.op \in Ops
           /\ SchemaCondition(c) /\ ZodCondition(c) /\ ParsesCondition(c)
<1>1. \A g : Comparing(g) => g.terms = <<>> /\ g.op \in Ops /\ g.op \notin BoolOps /\ g.terms \in Seq(ToSet(g.terms))
  <2>1. ASSUME NEW g, Comparing(g) PROVE g.terms = <<>> /\ g.op \in Comparators
      BY <2>1 DEF Comparing, Comparison
  <2>2. \A op \in Comparators : op \in Ops /\ op \notin BoolOps
      BY DEF Ops, Comparators, BoolOps
  <2>3. <<>> \in Seq(ToSet(<<>>))
      OBVIOUS
  <2> QED BY <2>1, <2>2, <2>3
<1>2. leaves \in Seq(ToSet(leaves)) /\ leaves # <<>> /\ \A g \in ToSet(leaves) : Comparing(g)
  <2>1. CASE leaves = <<c>> /\ Comparing(c)
    <3>1. ToSet(<<c>>) = {c} /\ <<c>> \in Seq({c}) /\ <<c>> # <<>>
        BY DEF ToSet
    <3> QED BY <2>1, <3>1
  <2> QED BY <2>1 DEF Rebuilt
<1>3. /\ Parts(c, Ops) = {c} \cup ToSet(leaves) /\ Parts(c, BoolOps) = {c} \cup ToSet(leaves)
      /\ Bottoms(c)
  <2>1. CASE leaves = <<c>> /\ Comparing(c)
    <3>1. ToSet(leaves) = {c}
        BY <2>1 DEF ToSet
    <3>2. c.terms = <<>> /\ ToSet(c.terms) = {} /\ c.op \in Ops /\ c.op \notin BoolOps
      <4>1. ToSet(<<>>) = {}
          BY DEF ToSet
      <4> QED BY <1>1, <2>1, <4>1
    <3>3. Parts(c, Ops) = {c} \cup {} /\ Levels(c, Ops)[MaxNesting] \subseteq {}
        BY <3>2, FlatParts
    <3>4. Parts(c, BoolOps) = {c} \cup {}
        BY <3>2, FlatParts
    <3> QED BY <3>1, <3>3, <3>4 DEF Bottoms
  <2>2. CASE \E op \in {"and", "or"} : c = Combined(op, leaves)
    <3>1. c.terms = leaves /\ c.op \in Ops /\ c.op \in BoolOps
        BY <2>2 DEF Combined, Ops, BoolOps
    <3>2. Parts(c, Ops) = {c} \cup ToSet(leaves) /\ Levels(c, Ops)[MaxNesting] \subseteq ToSet(leaves)
      <4>1. ToSet(leaves) = IF c.op \in Ops THEN ToSet(c.terms) ELSE {}
          BY <3>1
      <4>2. \A t \in ToSet(leaves) : t.op \notin Ops \/ t.terms = <<>>
          BY <1>1, <1>2
      <4> QED BY <4>1, <4>2, FlatParts
    <3>3. Parts(c, BoolOps) = {c} \cup ToSet(leaves)
      <4>1. ToSet(leaves) = IF c.op \in BoolOps THEN ToSet(c.terms) ELSE {}
          BY <3>1
      <4>2. \A t \in ToSet(leaves) : t.op \notin BoolOps \/ t.terms = <<>>
          BY <1>1, <1>2
      <4> QED BY <4>1, <4>2, FlatParts
    <3> QED BY <1>1, <1>2, <3>2, <3>3 DEF Bottoms
  <2> QED BY <2>1, <2>2 DEF Rebuilt
<1>4. Comparing(c) \/ \E op \in {"and", "or"} : c = Combined(op, leaves)
    BY DEF Rebuilt
<1>5. \A p \in Parts(c, Ops) :
         /\ p.op \in Ops
         /\ p = [op |-> p.op, left |-> p.left, right |-> p.right, terms |-> p.terms]
         /\ p.terms \in Seq(ToSet(p.terms))
  <2>1. \A g : Comparing(g) => g = [op |-> g.op, left |-> g.left, right |-> g.right, terms |-> g.terms]
      BY DEF Comparing, Comparison
  <2>2. ASSUME NEW op \in {"and", "or"}, c = Combined(op, leaves)
        PROVE  /\ c.op \in Ops /\ c.terms = leaves
               /\ c = [op |-> c.op, left |-> c.left, right |-> c.right, terms |-> c.terms]
      BY <2>2 DEF Combined, Ops, BoolOps
  <2> QED BY <1>1, <1>2, <1>3, <1>4, <2>1, <2>2
<1>6. \A p \in {c} \cup ToSet(leaves) :
         \/ p.op \in Comparators /\ p.left # NoText /\ p.right # NoText
         \/ p.op \in {"and", "or"} /\ p.terms # <<>>
    BY <1>2, <1>4 DEF Comparing, Combined
<1>7. {"and", "or"} \subseteq BoolOps /\ "not" \notin {"and", "or"}
    BY DEF BoolOps
<1>8. SchemaCondition(c)
    BY <1>3, <1>6, <1>7 DEF SchemaCondition
<1>9. ZodCondition(c)
    BY <1>3, <1>6, <1>7 DEF ZodCondition
<1>10. ParsesCondition(c)
    BY <1>3, <1>6, <1>7 DEF ParsesCondition
<1> QED BY <1>2, <1>3, <1>5, <1>8, <1>9, <1>10 DEF Shaped

\* Its leaves are those it was built from.
LEMMA RebuiltLeaves ==
    ASSUME NEW c, NEW leaves, Rebuilt(c, leaves)
    PROVE  Leaves(c) = leaves
<1>1. /\ Parts(c, Ops) = {c} \cup ToSet(leaves) /\ leaves \in Seq(ToSet(leaves)) /\ leaves # <<>>
      /\ \A g \in ToSet(leaves) : Comparing(g)
    BY RebuiltParts
<1>2. AreLeaves(LeavesOf(c), c) /\ Leaves(c) = LeavesOf(c)[c]
  <2>1. Bottoms(c) /\ \A p \in Parts(c, Ops) : p.op \in Ops
      BY RebuiltParts
  <2> QED BY <2>1, LeavesExist
<1> DEFINE f == LeavesOf(c)
<1>3. f[c] = LeafValue(f, c) /\ \A g \in ToSet(leaves) : f[g] = <<g>>
  <2> HIDE DEF f
  <2>1. \A p \in Parts(c, Ops) : f[p] = LeafValue(f, p)
      BY <1>2 DEF AreLeaves, f
  <2>2. \A g : Comparing(g) => LeafValue(f, g) = <<g>>
      BY DEF Comparing, LeafValue, IsCmp
  <2> QED BY <1>1, <2>1, <2>2
<1> HIDE DEF f
<1>4. CASE leaves = <<c>> /\ Comparing(c)
  <2>1. c \in ToSet(leaves)
      BY <1>4 DEF ToSet
  <2> QED BY <1>2, <1>3, <1>4, <2>1 DEF f
<1>5. CASE \E op \in {"and", "or"} : c = Combined(op, leaves)
  <2>1. ~IsCmp(c) /\ c.terms = leaves
      BY <1>5 DEF Combined, IsCmp, Comparators
  <2>2. DOMAIN leaves = 1 .. Len(leaves)
      BY <1>1
  <2>3. [i \in DOMAIN leaves |-> f[leaves[i]]] = [i \in 1 .. Len(leaves) |-> <<leaves[i]>>]
    <3>1. \A i \in DOMAIN leaves : f[leaves[i]] = <<leaves[i]>>
        BY <1>3 DEF ToSet
    <3> QED BY <2>2, <3>1
  <2>4. FlattenSeq([i \in 1 .. Len(leaves) |-> <<leaves[i]>>]) = leaves
      BY <1>1, FlattenSingles
  <2> QED BY <1>2, <1>3, <2>1, <2>3, <2>4 DEF LeafValue, f
<1> QED BY <1>4, <1>5 DEF Rebuilt

\* The gateway drops nothing from it.
LEMMA RebuiltStripped ==
    ASSUME NEW c, NEW leaves, Rebuilt(c, leaves)
    PROVE  Stripped(c) = c
<1>1. /\ Parts(c, BoolOps) = {c} \cup ToSet(leaves) /\ \A g \in ToSet(leaves) : Comparing(g)
      /\ leaves \in Seq(ToSet(leaves))
    BY RebuiltParts
<1> DEFINE Value(f, p) ==
               IF p.op \in Comparators THEN [p EXCEPT !.terms = <<>>]
               ELSE [p EXCEPT !.left = NoText, !.right = NoText,
                              !.terms = [i \in DOMAIN p.terms |-> f[p.terms[i]]]]
           Strips(f) == f = [p \in Parts(c, BoolOps) |-> Value(f, p)]
           g == CHOOSE f : Strips(f)
           id == [p \in Parts(c, BoolOps) |-> p]
<1>2. \A f : \A p : Comparing(p) => Value(f, p) = p
    BY DEF Comparing, Comparison
<1>3. ASSUME NEW f, \A t \in ToSet(leaves) : f[t] = t, NEW p \in Parts(c, BoolOps)
      PROVE  Value(f, p) = p
  <2>1. CASE Comparing(p)
      BY <1>2, <2>1
  <2>2. CASE p = c /\ \E op \in {"and", "or"} : c = Combined(op, leaves)
    <3>1. p.terms = leaves /\ p.op \notin Comparators
        BY <2>2 DEF Combined, Comparators
    <3>2. [i \in DOMAIN leaves |-> f[leaves[i]]] = leaves
      <4>1. \A i \in DOMAIN leaves : f[leaves[i]] = leaves[i]
          BY <1>3 DEF ToSet
      <4>2. leaves = [i \in DOMAIN leaves |-> leaves[i]]
          BY <1>1
      <4> QED BY <4>1, <4>2
    <3>3. Value(f, p) = [p EXCEPT !.left = NoText, !.right = NoText, !.terms = leaves]
        BY <3>1, <3>2
    <3> HIDE DEF Value
    <3>4. PICK op \in {"and", "or"} : p = Combined(op, leaves)
        BY <2>2
    <3> QED BY <3>3, <3>4 DEF Combined
  <2> QED BY <1>1, <2>1, <2>2 DEF Rebuilt
<1>4. Strips(id)
  <2>1. \A t \in ToSet(leaves) : id[t] = t
      BY <1>1
  <2>2. \A p \in Parts(c, BoolOps) : Value(id, p) = p
    <3> HIDE DEF Value, id
    <3> QED BY <1>3, <2>1
  <2> HIDE DEF Value
  <2> QED BY <2>2
<1>5. Strips(g)
  <2> HIDE DEF Strips
  <2> QED BY <1>4
<1>6. Stripped(c) = g[c]
    BY DEF Stripped
<1> HIDE DEF g, Value
<1>7. \A t \in ToSet(leaves) : g[t] = t
    BY <1>1, <1>2, <1>5
<1>8. g[c] = c
    BY <1>1, <1>3, <1>5, <1>7
<1> QED BY <1>6, <1>8

\* The recursive definition of HoldsIf.
HoldsValue(f, p, true) ==
    CASE p.op = "not" -> ~f[p.terms[1]]
      [] p.op = "and" -> \A i \in DOMAIN p.terms : f[p.terms[i]]
      [] p.op = "or" -> \E i \in DOMAIN p.terms : f[p.terms[i]]
      [] OTHER -> Comparison(p.op, p.left, p.right) \in true

\* When a condition holds that the editor shows as it is.
LEMMA FlatHolds ==
    ASSUME NEW c, NEW true,
           \/ c.op \in Comparators
           \/ c.op \in {"and", "or"} /\ \A t \in ToSet(c.terms) : t.op \in Comparators
    PROVE  /\ c.op \in Comparators =>
                 (HoldsIf(c, true) <=> Comparison(c.op, c.left, c.right) \in true)
           /\ c.op = "and" =>
                 (HoldsIf(c, true) <=>
                     \A i \in DOMAIN c.terms :
                         Comparison(c.terms[i].op, c.terms[i].left, c.terms[i].right) \in true)
           /\ c.op = "or" =>
                 (HoldsIf(c, true) <=>
                     \E i \in DOMAIN c.terms :
                         Comparison(c.terms[i].op, c.terms[i].left, c.terms[i].right) \in true)
<1> DEFINE K == IF c.op \in BoolOps THEN ToSet(c.terms) ELSE {}
           P == Parts(c, BoolOps)
           Is(p) == Comparison(p.op, p.left, p.right) \in true
           All == \A i \in DOMAIN c.terms : Is(c.terms[i])
           Some == \E i \in DOMAIN c.terms : Is(c.terms[i])
           Holding(f) == f = [p \in P |-> HoldsValue(f, p, true)]
           g == CHOOSE f : Holding(f)
           h == [p \in P |-> IF p.op = "and" THEN All ELSE IF p.op = "or" THEN Some ELSE Is(p)]
<1>1. P = {c} \cup K /\ \A t \in K : t.op \in Comparators
  <2>1. \A op \in Comparators : op \notin BoolOps
      BY DEF Comparators, BoolOps
  <2>2. \A t \in K : t.op \in Comparators /\ t.op \notin BoolOps
      BY <2>1
  <2> HIDE DEF K
  <2>3. K = IF c.op \in BoolOps THEN ToSet(c.terms) ELSE {}
      BY DEF K
  <2> QED BY <2>2, <2>3, FlatParts
<1>2. \A p : p.op \in Comparators => p.op \notin {"and", "or", "not"}
    BY DEF Comparators
<1>3. c.op \in {"and", "or"} => \A i \in DOMAIN c.terms : c.terms[i] \in K
    BY DEF ToSet, BoolOps
<1> HIDE DEF P, K
<1>4. \A f, p : p.op \in Comparators => (HoldsValue(f, p, true) <=> Is(p))
    BY <1>2 DEF HoldsValue
<1>5. ASSUME NEW f, \A t \in K : f[t] <=> Is(t)
      PROVE  /\ c.op = "and" => (HoldsValue(f, c, true) <=> All)
             /\ c.op = "or" => (HoldsValue(f, c, true) <=> Some)
    BY <1>3, <1>5 DEF HoldsValue
<1>6. Holding(h)
  <2>1. \A t \in K : h[t] <=> Is(t)
      BY <1>1, <1>2
  <2>2. ASSUME NEW p \in P PROVE h[p] = HoldsValue(h, p, true)
    <3>1. CASE p.op \in Comparators
      <4>1. HoldsValue(h, p, true) = Is(p)
          BY <1>2, <3>1 DEF HoldsValue
      <4> QED BY <1>2, <2>2, <3>1, <4>1
    <3>2. CASE p = c /\ c.op = "and"
      <4>1. HoldsValue(h, p, true) = All
        <5> HIDE DEF h
        <5> QED BY <1>3, <2>1, <3>2 DEF HoldsValue
      <4> QED BY <2>2, <3>2, <4>1
    <3>3. CASE p = c /\ c.op = "or"
      <4>1. HoldsValue(h, p, true) = Some
        <5> HIDE DEF h
        <5> QED BY <1>3, <2>1, <3>3 DEF HoldsValue
      <4> QED BY <2>2, <3>3, <4>1
    <3> QED BY <1>1, <3>1, <3>2, <3>3
  <2>3. h = [p \in P |-> h[p]]
      OBVIOUS
  <2> HIDE DEF h
  <2> QED BY <2>2, <2>3
<1>7. Holding(g)
  <2> HIDE DEF Holding
  <2> QED BY <1>6
<1>8. HoldsIf(c, true) = g[c]
    BY DEF HoldsIf, HoldsValue, P
<1> HIDE DEF g, h
<1>9. \A p \in P : g[p] = HoldsValue(g, p, true)
    BY <1>7
<1>10. \A t \in K : g[t] <=> Is(t)
    BY <1>1, <1>4, <1>9
<1>11. c \in P
    BY <1>1
<1> HIDE DEF Is, All, Some
<1>12. c.op \in Comparators => (HoldsIf(c, true) <=> Is(c))
    BY <1>4, <1>8, <1>9, <1>11
<1>13. /\ c.op = "and" => (HoldsIf(c, true) <=> All)
       /\ c.op = "or" => (HoldsIf(c, true) <=> Some)
    BY <1>5, <1>8, <1>9, <1>10, <1>11
<1> QED BY <1>12, <1>13 DEF Is, All, Some

\* What the editor rebuilds of a condition.
Combinator(c) == IF c.op = "or" THEN "or" ELSE "and"
Remade(c) == IF Len(Leaves(c)) = 1 THEN Leaves(c)[1] ELSE Combined(Combinator(c), Leaves(c))

\* It is one the gateway and the engines take, over names the old one used.
LEMMA RemadeOK ==
    ASSUME NEW c, SchemaCondition(c), Bottoms(c), Shaped(c)
    PROVE  /\ Leaves(c) # <<>> /\ Rebuilt(Remade(c), Leaves(c))
           /\ Leaves(Remade(c)) = Leaves(c) /\ Stripped(Remade(c)) = Remade(c)
           /\ SchemaCondition(Remade(c)) /\ ZodCondition(Remade(c)) /\ ParsesCondition(Remade(c))
           /\ ReferencedTokens(Remade(c)) \subseteq ReferencedNames(c)
           /\ ReferencedNames(Remade(c)) \subseteq ReferencedNames(c)
<1> DEFINE w == Remade(c)
           L == Leaves(c)
<1>1. L \in Seq(Comparisons(c)) /\ L # <<>>
    BY LeavesOK
<1>2. ASSUME NEW g \in Comparisons(c)
      PROVE  Comparing(g) /\ {g.left, g.right} \subseteq ReferencedNames(c)
  <2>1. PICK p \in Parts(c, BoolOps) : IsCmp(p) /\ g = Comparison(p.op, p.left, p.right)
      BY DEF Comparisons
  <2>2. g.op = p.op /\ g.left = p.left /\ g.right = p.right
      BY <2>1 DEF Comparison
  <2>3. Comparing(g)
      BY <2>1, <2>2 DEF Comparing, IsCmp
  <2>4. {p.left, p.right} \subseteq ReferencedNames(c)
      BY <2>1 DEF ReferencedNames, IsCmp
  <2> QED BY <2>2, <2>3, <2>4
<1> HIDE DEF L
<1>3. ToSet(L) \subseteq Comparisons(c) /\ L \in Seq(ToSet(L))
  <2>1. \A i \in DOMAIN L : L[i] \in Comparisons(c)
      BY <1>1
  <2>2. L = [i \in 1 .. Len(L) |-> L[i]] /\ Len(L) \in Nat /\ DOMAIN L = 1 .. Len(L)
      BY <1>1
  <2>3. \A i \in 1 .. Len(L) : L[i] \in ToSet(L)
      BY <2>2 DEF ToSet
  <2>4. ToSet(L) \subseteq Comparisons(c)
      BY <2>1 DEF ToSet
  <2> QED BY <2>2, <2>3, <2>4, IsASeq
<1>4. Rebuilt(w, L)
  <2>1. \A g \in ToSet(L) : Comparing(g)
      BY <1>2, <1>3
  <2>2. CASE Len(L) = 1
    <3>1. w = L[1] /\ L = <<L[1]>> /\ L[1] \in ToSet(L)
      <4>1. L = <<L[1]>> /\ 1 \in DOMAIN L
          BY <1>1, <2>2
      <4> QED BY <2>2, <4>1 DEF Remade, L, ToSet
    <3> QED BY <2>1, <3>1 DEF Rebuilt
  <2>3. CASE Len(L) # 1
    <3>1. w = Combined(Combinator(c), L) /\ Combinator(c) \in {"and", "or"}
        BY <2>3 DEF Remade, L, Combinator
    <3> QED BY <1>1, <1>3, <2>1, <3>1 DEF Rebuilt
  <2> QED BY <2>2, <2>3
<1>5. /\ Parts(w, Ops) = {w} \cup ToSet(L) /\ Parts(w, BoolOps) = {w} \cup ToSet(L)
      /\ SchemaCondition(w) /\ ZodCondition(w) /\ ParsesCondition(w)
    BY <1>4, RebuiltParts
<1>6. \A p \in {w} \cup ToSet(L) :
         \/ p \in ToSet(L) /\ {p.left, p.right} \subseteq ReferencedNames(c)
         \/ p.terms # <<>> /\ p.op \notin Comparators
  <2>1. \A p \in ToSet(L) : {p.left, p.right} \subseteq ReferencedNames(c)
      BY <1>2, <1>3
  <2>2. w \in ToSet(L) \/ (w.terms # <<>> /\ w.op \notin Comparators)
      BY <1>1, <1>4 DEF Rebuilt, Combined, Comparators, ToSet
  <2> QED BY <2>1, <2>2
<1> HIDE DEF w
<1>7. ReferencedTokens(w) \subseteq ReferencedNames(c)
    BY <1>5, <1>6 DEF ReferencedTokens
<1>8. ReferencedNames(w) \subseteq ReferencedNames(c)
    BY <1>5, <1>6 DEF ReferencedNames
<1>9. Leaves(w) = L /\ Stripped(w) = w
    BY <1>4, RebuiltLeaves, RebuiltStripped
<1> QED BY <1>1, <1>4, <1>5, <1>7, <1>8, <1>9 DEF w, L

\* If the editor shows a condition as it is, the two hold at the same times.
LEMMA RemadeAgrees ==
    ASSUME NEW c, SchemaCondition(c), Bottoms(c), Shaped(c), Flattens(c), NEW true
    PROVE  HoldsIf(Remade(c), true) <=> HoldsIf(c, true)
<1> DEFINE f == LeavesOf(c)
           Of(p) == Comparison(p.op, p.left, p.right)
<1>1. AreLeaves(f, c) /\ Leaves(c) = f[c]
  <2>1. \A p \in Parts(c, Ops) : p.op \in Ops
      BY DEF SchemaCondition, Ops
  <2> QED BY <2>1, LeavesExist
<1>2. c \in Parts(c, Ops)
    BY PartsOK
<1>3. Leaves(c) = LeafValue(f, c)
  <2> HIDE DEF f
  <2> QED BY <1>1, <1>2 DEF AreLeaves
<1>4. \A p : IsCmp(p) => Comparing(Of(p)) /\ p.op \in Comparators
    BY DEF IsCmp, Comparing, Comparison
<1>5. ASSUME NEW g, Comparing(g) PROVE HoldsIf(g, true) <=> g \in true
    BY <1>5, FlatHolds DEF Comparing
<1>6. CASE IsCmp(c)
  <2>1. Leaves(c) = <<Of(c)>>
      BY <1>3, <1>6 DEF LeafValue
  <2>2. Remade(c) = Of(c)
      BY <2>1 DEF Remade
  <2>3. HoldsIf(Of(c), true) <=> Of(c) \in true
      BY <1>4, <1>5, <1>6
  <2>4. HoldsIf(c, true) <=> Of(c) \in true
      BY <1>4, <1>6, FlatHolds
  <2> QED BY <2>2, <2>3, <2>4
<1>7. CASE ~IsCmp(c)
  <2>1. c.op \in {"and", "or"} /\ \A t \in ToSet(c.terms) : IsCmp(t)
      BY <1>7 DEF Flattens
  <2> DEFINE n == Len(c.terms)
             L == [i \in 1 .. n |-> Of(c.terms[i])]
  <2>2. DOMAIN c.terms = 1 .. n /\ n \in Nat
      BY <1>2 DEF Shaped
  <2>3. \A i \in 1 .. n : c.terms[i] \in ToSet(c.terms) /\ IsCmp(c.terms[i])
      BY <2>1, <2>2 DEF ToSet
  <2>4. \A i \in 1 .. n : f[c.terms[i]] = <<L[i]>> /\ Comparing(L[i])
    <3> SUFFICES ASSUME NEW i \in 1 .. n PROVE f[c.terms[i]] = <<L[i]>> /\ Comparing(L[i])
        OBVIOUS
    <3>1. c.terms[i] \in Parts(c, Ops)
      <4>1. 0 \in 0 .. MaxNesting - 1 /\ 0 + 1 \in 0 .. MaxNesting /\ c.op \in Ops
          BY <2>1, ConfigAssumption DEF Ops, BoolOps
      <4>2. c.terms[i] \in Levels(c, Ops)[0 + 1]
          BY <2>2, <4>1, PartsOK, LevelsOK
      <4> QED BY <4>1, <4>2, PartsOK
    <3> HIDE DEF f, n
    <3>2. f[c.terms[i]] = LeafValue(f, c.terms[i])
        BY <1>1, <3>1 DEF AreLeaves
    <3>3. LeafValue(f, c.terms[i]) = <<Of(c.terms[i])>>
        BY <2>3 DEF LeafValue
    <3>4. L[i] = Of(c.terms[i])
        OBVIOUS
    <3> QED BY <1>4, <2>3, <3>2, <3>3, <3>4
  <2>5. L \in Seq(ToSet(L)) /\ Len(L) = n
    <3> HIDE DEF n
    <3>1. \A i \in 1 .. n : Of(c.terms[i]) \in ToSet(L)
        BY DEF ToSet
    <3>2. L \in [1 .. n -> ToSet(L)]
        BY <3>1
    <3> HIDE DEF L
    <3> QED BY <2>2, <3>2
  <2> HIDE DEF f, L
  <2>6. Leaves(c) = L
    <3>1. [i \in DOMAIN c.terms |-> f[c.terms[i]]] = [i \in 1 .. Len(L) |-> <<L[i]>>]
        BY <2>2, <2>4, <2>5
    <3>2. FlattenSeq([i \in 1 .. Len(L) |-> <<L[i]>>]) = L
        BY <2>5, FlattenSingles
    <3> QED BY <1>3, <1>7, <3>1, <3>2 DEF LeafValue
  <2>7. \A i \in 1 .. n : L[i] = Of(c.terms[i])
      BY DEF L
  <2>8. /\ c.op = "and" => (HoldsIf(c, true) <=> \A i \in 1 .. n : L[i] \in true)
        /\ c.op = "or" => (HoldsIf(c, true) <=> \E i \in 1 .. n : L[i] \in true)
    <3>1. \A t \in ToSet(c.terms) : t.op \in Comparators
        BY <1>4, <2>1
    <3> HIDE DEF Of, n
    <3>2. /\ c.op = "and" => (HoldsIf(c, true) <=> \A i \in DOMAIN c.terms : Of(c.terms[i]) \in true)
          /\ c.op = "or" => (HoldsIf(c, true) <=> \E i \in DOMAIN c.terms : Of(c.terms[i]) \in true)
        BY <2>1, <3>1, FlatHolds DEF Of
    <3> QED BY <2>2, <2>7, <3>2
  <2> HIDE DEF n
  <2>9. CASE n = 1
    <3>1. Remade(c) = L[1]
        BY <2>5, <2>6, <2>9 DEF Remade
    <3>2. HoldsIf(L[1], true) <=> L[1] \in true
        BY <1>5, <2>4, <2>9
    <3>3. 1 .. n = {1}
        BY <2>9
    <3> QED BY <2>1, <2>8, <3>1, <3>2, <3>3
  <2>10. CASE n # 1
    <3> DEFINE w == Combined(c.op, L)
    <3>1. Remade(c) = w
        BY <2>1, <2>5, <2>6, <2>10 DEF Remade, Combinator
    <3>2. w.op = c.op /\ w.terms = L /\ DOMAIN L = 1 .. n
        BY <2>5 DEF Combined
    <3>3. \A t \in ToSet(L) : t.op \in Comparators
        BY <2>4, <3>2 DEF ToSet, Comparing
    <3>4. \A i \in 1 .. n : Of(L[i]) = L[i]
        BY <2>4 DEF Comparing
    <3> HIDE DEF Of, w
    <3>5. /\ c.op = "and" => (HoldsIf(w, true) <=> \A i \in DOMAIN L : Of(L[i]) \in true)
          /\ c.op = "or" => (HoldsIf(w, true) <=> \E i \in DOMAIN L : Of(L[i]) \in true)
        BY <2>1, <3>2, <3>3, FlatHolds DEF Of
    <3> QED BY <2>1, <2>8, <3>1, <3>2, <3>4, <3>5
  <2> QED BY <2>9, <2>10
<1> QED BY <1>6, <1>7

\* What the editor rebuilds of an indicator, an order and a rule.
RemadeIndicator(i) == [i EXCEPT !.period = IF i.fn \in Windowed THEN @ ELSE 0,
                                !.value = IF i.fn = "value" THEN @ ELSE "0"]
RemadeOrder(d) == [d EXCEPT !.offset = IF d.type = "limit" THEN @ ELSE NoText]
RemadeRule(r) == [when |-> Remade(r.when), do |-> RemadeOrder(r.do), cooldown |-> r.cooldown]

\* A strategy that was accepted is rebuilt rule by rule.
LEMMA EditorRebuilds ==
    ASSUME NEW cfg, RulesConfig(cfg), \A r \in ToSet(cfg.rules) : Leaves(r.when) # <<>>
    PROVE  BuildCustomRules(AuthoredToForm(cfg)) =
               [kind |-> "rules",
                indicators |-> [i \in DOMAIN cfg.indicators |-> RemadeIndicator(cfg.indicators[i])],
                rules |-> [i \in DOMAIN cfg.rules |-> RemadeRule(cfg.rules[i])]]
<1> DEFINE F == AuthoredToForm(cfg)
           when(r) == IF Len(r.terms) = 1 THEN r.terms[1] ELSE Combined(r.combinator, r.terms)
           rule(r) == [when |-> when(r), do |-> RemadeOrder(r.do), cooldown |-> r.cooldown]
<1>1. F.indicators = cfg.indicators /\ DOMAIN F.rules = DOMAIN cfg.rules
      /\ \A i \in DOMAIN cfg.rules : F.rules[i] = FormRule(cfg.rules[i])
    BY DEF AuthoredToForm
<1>2. \A i \in DOMAIN cfg.rules : rule(F.rules[i]) = RemadeRule(cfg.rules[i])
  <2> SUFFICES ASSUME NEW i \in DOMAIN cfg.rules
               PROVE  rule(FormRule(cfg.rules[i])) = RemadeRule(cfg.rules[i])
      BY <1>1
  <2> DEFINE r == cfg.rules[i]
             x == FormRule(r)
  <2>1. Leaves(r.when) # <<>>
      BY DEF ToSet
  <2>2. /\ x.terms = Leaves(r.when) /\ x.combinator = Combinator(r.when)
        /\ x.do = r.do /\ x.cooldown = r.cooldown
      BY <2>1 DEF FormRule, Combinator
  <2>3. when(x) = Remade(r.when)
      BY <2>2 DEF Remade
  <2> HIDE DEF x, r, when
  <2>4. rule(x) = RemadeRule(r)
      BY <2>2, <2>3 DEF RemadeRule
  <2> QED BY <2>4 DEF x, r
<1>3. BuildCustomRules(F) =
          [kind |-> "rules",
           indicators |-> [i \in DOMAIN F.indicators |-> RemadeIndicator(F.indicators[i])],
           rules |-> [i \in DOMAIN F.rules |-> rule(F.rules[i])]]
  <2> HIDE DEF F
  <2> QED BY DEF BuildCustomRules, RemadeIndicator, RemadeOrder, Combined
<1> HIDE DEF F, rule
<1> QED BY <1>1, <1>2, <1>3 DEF F

\* What was accepted is rebuilt faithfully, or the user is warned.
LEMMA EditorOK ==
    ASSUME NEW cfg, RulesConfig(cfg), SchemaAccepts(cfg), Builds(cfg),
           author.result = cfg, form = AuthoredToForm(cfg)
    PROVE  WarnedOrFaithful
<1> DEFINE new == BuildCustomRules(form)
           Rules == ToSet(cfg.rules)
           Indicators == ToSet(cfg.indicators)
<1>1. /\ cfg.kind = "rules" /\ cfg.rules # <<>> /\ Distinct(cfg) /\ Names(cfg) \cap Reserved = {}
      /\ \A i \in Indicators : i.name # Empty /\ i.period >= 0 /\ (i.fn \in Windowed => i.period >= 2)
      /\ \A r \in Rules : SchemaRule(r) /\ Known(cfg, ReferencedNames(r.when))
  <2>1. cfg.kind = "rules"
      BY DEF RulesConfig
  <2>2. /\ cfg.rules # <<>> /\ Distinct(cfg) /\ Names(cfg) \cap Reserved = {}
        /\ \A i \in Indicators : i.name # Empty /\ i.period >= 0 /\ (i.fn \in Windowed => i.period >= 2)
        /\ \A r \in Rules : SchemaRule(r)
      BY <2>1 DEF SchemaAccepts
  <2>3. \A r \in Rules : Known(cfg, ReferencedNames(r.when))
      BY <2>1 DEF Builds, RulesBuild
  <2> QED BY <2>1, <2>2, <2>3
<1>2. /\ \A r \in Rules : SchemaCondition(r.when) /\ Bottoms(r.when) /\ Shaped(r.when)
      /\ \A r \in Rules : r.do = [side |-> r.do.side, type |-> r.do.type, quote |-> r.do.quote,
                                  offset |-> r.do.offset]
      /\ \A i \in Indicators : i = [name |-> i.name, fn |-> i.fn, period |-> i.period, value |-> i.value]
    BY <1>1 DEF SchemaRule, RulesConfig, Bottoms, Shaped
<1>3. /\ cfg.rules \in Seq(Rules) /\ cfg.indicators \in Seq(Indicators)
      /\ DOMAIN cfg.rules = 1 .. Len(cfg.rules) /\ Len(cfg.rules) \in Nat \ {0}
      /\ DOMAIN cfg.indicators = 1 .. Len(cfg.indicators) /\ Len(cfg.indicators) \in Nat
  <2>1. cfg.rules \in Seq(Rules) /\ cfg.indicators \in Seq(Indicators)
      BY DEF RulesConfig
  <2> QED BY <1>1, <2>1
<1>4. \A r \in Rules :
         /\ Leaves(r.when) # <<>> /\ Leaves(Remade(r.when)) = Leaves(r.when)
         /\ Stripped(Remade(r.when)) = Remade(r.when)
         /\ SchemaCondition(Remade(r.when)) /\ ZodCondition(Remade(r.when))
         /\ ParsesCondition(Remade(r.when))
         /\ ReferencedTokens(Remade(r.when)) \subseteq ReferencedNames(r.when)
         /\ ReferencedNames(Remade(r.when)) \subseteq ReferencedNames(r.when)
    BY <1>2, RemadeOK
<1>5. new = [kind |-> "rules",
             indicators |-> [i \in DOMAIN cfg.indicators |-> RemadeIndicator(cfg.indicators[i])],
             rules |-> [i \in DOMAIN cfg.rules |-> RemadeRule(cfg.rules[i])]]
    BY <1>4, EditorRebuilds
<1>6. \A r \in Rules :
         LET d == RemadeOrder(r.do)
         IN  /\ d = [side |-> r.do.side, type |-> r.do.type, quote |-> r.do.quote,
                     offset |-> IF r.do.type = "limit" THEN r.do.offset ELSE NoText]
             /\ d = IF r.do.type = "limit" THEN r.do ELSE [r.do EXCEPT !.offset = NoText]
  <2> SUFFICES ASSUME NEW d, d = [side |-> d.side, type |-> d.type, quote |-> d.quote, offset |-> d.offset]
               PROVE  /\ RemadeOrder(d) = [side |-> d.side, type |-> d.type, quote |-> d.quote,
                                           offset |-> IF d.type = "limit" THEN d.offset ELSE NoText]
                      /\ RemadeOrder(d) = IF d.type = "limit" THEN d ELSE [d EXCEPT !.offset = NoText]
      BY <1>2
  <2> QED BY DEF RemadeOrder
<1>7. \A i \in Indicators :
         LET j == RemadeIndicator(i)
         IN  /\ j.name = i.name /\ j.fn = i.fn
             /\ j.period = IF i.fn \in Windowed THEN i.period ELSE 0
             /\ j.value = IF i.fn = "value" THEN i.value ELSE "0"
  <2> SUFFICES ASSUME NEW i, i = [name |-> i.name, fn |-> i.fn, period |-> i.period, value |-> i.value]
               PROVE  LET j == RemadeIndicator(i)
                      IN  /\ j.name = i.name /\ j.fn = i.fn
                          /\ j.period = IF i.fn \in Windowed THEN i.period ELSE 0
                          /\ j.value = IF i.fn = "value" THEN i.value ELSE "0"
      BY <1>2
  <2> QED BY DEF RemadeIndicator
<1> HIDE DEF new
<1>8. /\ \A k \in DOMAIN cfg.rules : cfg.rules[k] \in Rules
      /\ \A k \in DOMAIN cfg.indicators : cfg.indicators[k] \in Indicators
    BY DEF ToSet
<1>9. ASSUME NEW k \in DOMAIN cfg.rules
      PROVE  LET old == cfg.rules[k]
                 now == new.rules[k]
             IN  /\ now.do = IF old.do.type = "limit" THEN old.do ELSE [old.do EXCEPT !.offset = NoText]
                 /\ now.cooldown = old.cooldown
                 /\ ToSet(Leaves(now.when)) = ToSet(Leaves(old.when))
                 /\ k \notin form.warned =>
                       \A true \in SUBSET ToSet(Leaves(old.when)) :
                           HoldsIf(now.when, true) <=> HoldsIf(old.when, true)
  <2> DEFINE old == cfg.rules[k]
             now == new.rules[k]
  <2>1. old \in Rules /\ now.when = Remade(old.when) /\ now.do = RemadeOrder(old.do)
        /\ now.cooldown = old.cooldown
      BY <1>5, <1>8 DEF RemadeRule
  <2>2. k \notin form.warned => Flattens(old.when)
      BY DEF AuthoredToForm
  <2> HIDE DEF now, old
  <2>3. k \notin form.warned => \A true : HoldsIf(now.when, true) <=> HoldsIf(old.when, true)
      BY <1>2, <2>1, <2>2, RemadeAgrees
  <2>4. now.do = IF old.do.type = "limit" THEN old.do ELSE [old.do EXCEPT !.offset = NoText]
      BY <1>6, <2>1
  <2>5. Leaves(now.when) = Leaves(old.when)
      BY <1>4, <2>1
  <2> QED BY <2>1, <2>3, <2>4, <2>5 DEF old, now
<1>10. ASSUME NEW k \in DOMAIN cfg.indicators
       PROVE  LET old == cfg.indicators[k]
                  now == new.indicators[k]
              IN  /\ now.name = old.name /\ now.fn = old.fn
                  /\ old.fn \in Windowed => now.period = old.period
                  /\ old.fn = "value" => now.value = old.value
    BY <1>5, <1>7, <1>8
<1>11. ASSUME Texts(new) \subseteq PlainTexts
       PROVE  /\ ZodAccepts(new) /\ Forwarded(new) = new
              /\ SchemaAccepts(new) /\ Builds(new)
  <2>1. /\ new.kind = "rules" /\ DOMAIN new.rules = DOMAIN cfg.rules
        /\ DOMAIN new.indicators = DOMAIN cfg.indicators
        /\ \A k \in DOMAIN cfg.rules : new.rules[k] = RemadeRule(cfg.rules[k])
        /\ \A k \in DOMAIN cfg.indicators : new.indicators[k] = RemadeIndicator(cfg.indicators[k])
      BY <1>5
  <2>2. new.rules # <<>> /\ Len(new.indicators) = Len(cfg.indicators)
    <3>1. 1 \in DOMAIN new.rules
        BY <1>3, <2>1
    <3>2. \A s, n : n \in Nat /\ DOMAIN s = 1 .. n => Len(s) = n
        OBVIOUS
    <3> QED BY <1>3, <2>1, <3>1, <3>2
  <2>3. \A x \in ToSet(new.rules) : \E r \in Rules : x = RemadeRule(r)
      BY <1>8, <2>1 DEF ToSet
  <2>4. \A x \in ToSet(new.indicators) : \E i \in Indicators : x = RemadeIndicator(i)
      BY <1>8, <2>1 DEF ToSet
  <2>5. Names(new) = Names(cfg)
      BY <1>7, <1>8, <2>1 DEF Names
  <2>6. Distinct(new)
      BY <1>1, <2>2, <2>5 DEF Distinct
  <2>7. \A x \in ToSet(new.indicators) :
           /\ x.name # Empty /\ x.period >= 0 /\ (x.fn \in Windowed => x.period >= 2)
           /\ x.value \in PlainTexts /\ IsNumber(x.value)
    <3>1. \A x \in ToSet(new.indicators) : x.value \in PlainTexts
        BY <1>11 DEF Texts, ToSet
    <3>a. \A text \in PlainTexts : IsNumber(text)
        BY ConfigAssumption DEF IsNumber
    <3>2. ASSUME NEW i \in Indicators
          PROVE  LET x == RemadeIndicator(i)
                 IN  x.name # Empty /\ x.period >= 0 /\ (x.fn \in Windowed => x.period >= 2)
        BY <1>1, <1>7
    <3> QED BY <2>4, <3>1, <3>a, <3>2
  <2>8. \A x \in ToSet(new.rules) :
           x.do.quote \in PlainTexts /\ x.do.offset \in PlainTexts \cup {NoText}
      BY <1>11 DEF Texts, ToSet
  <2>9. ASSUME NEW r \in Rules
        PROVE  LET x == RemadeRule(r)
               IN  /\ ZodCondition(x.when) /\ x.cooldown >= 0 /\ Stripped(x.when) = x.when
                   /\ SchemaRule(x) /\ ParsesCondition(x.when)
                   /\ Positive(x.do.quote) /\ (x.do.type = "limit" => x.do.offset # NoText)
                   /\ Known(new, ReferencedTokens(x.when)) /\ Known(new, ReferencedNames(x.when))
                   /\ [x EXCEPT !.when = Stripped(x.when)] = x
    <3> DEFINE x == RemadeRule(r)
    <3>1. /\ x.when = Remade(r.when) /\ x.do = RemadeOrder(r.do) /\ x.cooldown = r.cooldown
          /\ x = [when |-> x.when, do |-> x.do, cooldown |-> x.cooldown]
        BY DEF RemadeRule
    <3> HIDE DEF x
    <3>2. /\ ZodCondition(x.when) /\ SchemaCondition(x.when) /\ ParsesCondition(x.when)
          /\ Stripped(x.when) = x.when
          /\ ReferencedTokens(x.when) \subseteq ReferencedNames(r.when)
          /\ ReferencedNames(x.when) \subseteq ReferencedNames(r.when)
        BY <1>4, <3>1
    <3>3. Known(new, ReferencedTokens(x.when)) /\ Known(new, ReferencedNames(x.when))
        BY <1>1, <2>5, <3>2 DEF Known
    <3>4. /\ Positive(x.do.quote) /\ (x.do.type = "limit" => x.do.offset # NoText)
          /\ x.do.offset = NoText \/ IsNumber(x.do.offset)
          /\ x.cooldown >= 0
      <4>1. /\ x.do = [side |-> r.do.side, type |-> r.do.type, quote |-> r.do.quote,
                       offset |-> IF r.do.type = "limit" THEN r.do.offset ELSE NoText]
            /\ Positive(r.do.quote) /\ (r.do.type = "limit" => r.do.offset # NoText)
            /\ r.do.offset = NoText \/ IsNumber(r.do.offset)
            /\ r.cooldown >= 0
          BY <1>1, <1>6, <3>1 DEF SchemaRule
      <4> QED BY <3>1, <4>1
    <3>5. SchemaRule(x)
        BY <3>2, <3>4 DEF SchemaRule
    <3>6. [x EXCEPT !.when = Stripped(x.when)] = x
        BY <3>1, <3>2
    <3> QED BY <3>2, <3>3, <3>4, <3>5, <3>6 DEF x
  <2> HIDE DEF Rules, Indicators
  <2>10. \A x \in ToSet(new.rules) :
            /\ ZodRule(x) /\ SchemaRule(x) /\ Known(new, ReferencedTokens(x.when))
            /\ ParsesCondition(x.when) /\ Known(new, ReferencedNames(x.when))
            /\ Positive(x.do.quote) /\ (x.do.type = "limit" => x.do.offset # NoText)
            /\ [x EXCEPT !.when = Stripped(x.when)] = x
      BY <2>3, <2>8, <2>9 DEF ZodRule
  <2>11. ZodAccepts(new)
      BY <2>1, <2>2, <2>7, <2>10 DEF ZodAccepts
  <2>12. SchemaAccepts(new)
      BY <1>1, <2>1, <2>2, <2>5, <2>6, <2>7, <2>10 DEF SchemaAccepts
  <2>13. Builds(new)
      BY <1>1, <2>1, <2>2, <2>5, <2>6, <2>7, <2>10 DEF Builds, RulesBuild
  <2>14. Forwarded(new) = new
    <3> DEFINE s == [k \in DOMAIN new.rules |-> [new.rules[k] EXCEPT !.when = Stripped(new.rules[k].when)]]
    <3>1. Forwarded(new) = [new EXCEPT !.rules = s]
        BY <2>1 DEF Forwarded
    <3>2. s = new.rules
      <4>1. \A k \in DOMAIN new.rules : new.rules[k] \in ToSet(new.rules)
          BY DEF ToSet
      <4>2. new.rules = [k \in DOMAIN new.rules |-> new.rules[k]]
          BY <1>5
      <4> QED BY <2>10, <4>1, <4>2
    <3> HIDE DEF s
    <3> QED BY <1>5, <3>1, <3>2
  <2> QED BY <2>11, <2>12, <2>13, <2>14
<1> QED BY <1>9, <1>10, <1>11 DEF WarnedOrFaithful, new

-----------------------------------------------------------------------------
(* The inductive invariant.                                                *)

Places == {"idle", "subscription", "2fa", "key", "engine", "insert", "build"}

Types ==
    /\ sc \in Scenarios
    /\ user \in [secret : Nat, enabled : BOOLEAN, issued : Nat]
    /\ act \in [Activations -> [pc : {"idle", "checked", "done"}, secret : Nat]]
    /\ author = [calls |-> author.calls, result |-> author.result]
    /\ pc \in [Requests -> Places \cup Answers]
    /\ rows \in [Bots -> Requests \cup {None}]
    /\ bots \in [Bots -> Requests \cup {None}]
    /\ shut \in [Requests -> SUBSET Gates] /\ rivals \in [Requests -> SUBSET Requests]

\* What is checked or enabled has been proven.
AccountInv ==
    /\ user.enabled => user.secret \in proven
    /\ \A a \in Activations : act[a].pc = "checked" => act[a].secret \in proven

\* What is authored was accepted, and what is in the editor was authored.
AuthorInv ==
    /\ author.result # None => /\ author.result \in sc.ideas
                               /\ SchemaAccepts(author.result) /\ Builds(author.result)
    /\ form # None => author.result # None /\ form = AuthoredToForm(author.result)

\* Where a request is says which gates it has found open, ...
GateInv(r) ==
    /\ (pc[r] # "idle" /\ sc.starts[r].config = None) => form # None
    /\ pc[r] = "subscription" => Needs(r) # {}
    /\ pc[r] \in {"2fa", "key"} => Live(r) /\ "subscription" \notin shut[r]
    /\ pc[r] = "key" => "2fa" \notin shut[r]
    /\ pc[r] \in {"engine", "insert", "build"} => Needs(r) \cap shut[r] = {}

\* ... what has accepted its configuration, ...
PassInv(r) ==
    /\ pc[r] \in {"subscription", "2fa", "key", "engine", "insert", "build", "started"} =>
          ZodAccepts(ConfigOf(r))
    /\ pc[r] \in {"insert", "build", "started"} => SchemaAccepts(Forwarded(ConfigOf(r)))
    /\ pc[r] = "started" => Refusals(r) = {}
    /\ pc[r] = "build" => rows[Bot(r)] # None

\* ... and what is behind a refusal.
RefusalInv(r) ==
    /\ (pc[r] \in {"400", "403", "422"} /\ Needs(r) = {}) => ~Acceptable(r)
    /\ pc[r] = "409" => \E q \in Started : Bot(q) = Bot(r)
    /\ pc[r] = "duplicate" => rivals[r] # {}
    /\ (pc[r] = "insert" /\ rows[Bot(r)] # None) => rivals[r] # {}

\* A running bot is one of the started.
BotInv ==
    \A b \in Bots :
        bots[b] # None => bots[b] \in Started /\ Bot(bots[b]) = b /\ rows[b] # None

PipelineInv ==
    /\ Types /\ AccountInv /\ AuthorInv /\ BotInv
    /\ \A r \in DOMAIN sc.starts : GateInv(r) /\ PassInv(r) /\ RefusalInv(r)

-----------------------------------------------------------------------------
\* The requests of a scenario are among those of the instance.
LEMMA RequestsOK ==
    ASSUME sc \in Scenarios PROVE DOMAIN sc.starts \subseteq Requests
BY PipelineAssumption

\* It holds at first.
LEMMA PipelineInit == Init => PipelineInv
<1> SUFFICES ASSUME Init PROVE PipelineInv
    OBVIOUS
<1>1. DOMAIN sc.starts \subseteq Requests
    BY RequestsOK DEF Init
<1>2. Types
    BY DEF Init, Types, Places, Gates
<1>3. AccountInv /\ AuthorInv
    BY DEF Init, AccountInv, AuthorInv
<1>4. BotInv
    BY DEF Init, BotInv
<1>5. \A r \in DOMAIN sc.starts : pc[r] = "idle"
    BY <1>1 DEF Init
<1>6. \A r \in DOMAIN sc.starts : GateInv(r) /\ PassInv(r) /\ RefusalInv(r)
    BY <1>5 DEF GateInv, PassInv, RefusalInv
<1> QED BY <1>2, <1>3, <1>4, <1>6 DEF PipelineInv

\* A request that has arrived has its configuration.
Settled(r) == pc[r] # "idle" /\ sc.starts[r].config = None => form # None

\* It does not change, nor what the gates and the engine make of it.
LEMMA ConfigSettled ==
    ASSUME sc' = sc, form # None => form' = form, NEW r, Settled(r), pc[r] # "idle"
    PROVE  /\ ConfigOf(r)' = ConfigOf(r) /\ Needs(r)' = Needs(r)
           /\ Refusals(r)' = Refusals(r) /\ (Acceptable(r)' <=> Acceptable(r))
           /\ Bot(r)' = Bot(r) /\ Live(r)' = Live(r)
           /\ ZodAccepts(ConfigOf(r))' <=> ZodAccepts(ConfigOf(r))
           /\ SchemaAccepts(Forwarded(ConfigOf(r)))' <=> SchemaAccepts(Forwarded(ConfigOf(r)))
<1>1. ConfigOf(r)' = ConfigOf(r)
    BY DEF ConfigOf, Settled
<1>2. Needs(r)' = Needs(r)
    BY <1>1 DEF Needs, Live
<1>3. Refusals(r)' = Refusals(r)
    BY <1>1 DEF Refusals, Live
<1>4. Acceptable(r)' <=> Acceptable(r)
    BY <1>1, <1>3 DEF Acceptable
<1>5. /\ ZodAccepts(ConfigOf(r))' <=> ZodAccepts(ConfigOf(r))
      /\ SchemaAccepts(Forwarded(ConfigOf(r)))' <=> SchemaAccepts(Forwarded(ConfigOf(r)))
    BY <1>1
<1>6. Bot(r)' = Bot(r) /\ Live(r)' = Live(r)
    BY DEF Bot, Live
<1> QED BY <1>1, <1>2, <1>3, <1>4, <1>5, <1>6

-----------------------------------------------------------------------------
(* Steps that leave the requests alone.                                    *)

\* What Record writes.
LEMMA RecordOK ==
    ASSUME Types, sc' = sc, pc' \in [Requests -> Places \cup Answers], Record
    PROVE  /\ shut' \in [Requests -> SUBSET Gates] /\ rivals' \in [Requests -> SUBSET Requests]
           /\ \A r \in Requests : r \in UnderWay /\ r \in UnderWay' =>
                 shut'[r] \subseteq shut[r] /\ rivals[r] \subseteq rivals'[r]
           /\ \A r \in Requests : r \in UnderWay' =>
                 /\ shut'[r] \cap {g \in Gates : g \notin ShutGates'} = {}
                 /\ {q \in UnderWay' \ {r} : Bot(q) = Bot(r)} \subseteq rivals'[r]
           /\ \A r \in Requests : r \notin UnderWay' => shut'[r] = shut[r] /\ rivals'[r] = rivals[r]
<1>1. ShutGates \subseteq Gates /\ ShutGates' \subseteq Gates
    BY DEF ShutGates, Gates
<1>2. UnderWay' \subseteq Requests
    BY RequestsOK DEF Types, UnderWay
<1>3. \A r \in Requests : shut'[r] = IF r \notin UnderWay' THEN shut[r]
                                    ELSE (IF r \in UnderWay THEN shut[r] ELSE ShutGates) \cap ShutGates'
    BY DEF Record
<1>4. \A r \in Requests : rivals'[r] = IF r \notin UnderWay' THEN rivals[r]
                              ELSE rivals[r] \cup {q \in UnderWay' \ {r} : Bot(q) = Bot(r)}
    BY DEF Record
<1>5. shut' \in [Requests -> SUBSET Gates]
  <2>1. \A r \in Requests : shut[r] \in SUBSET Gates
      BY DEF Types
  <2>2. \A r \in Requests : shut'[r] \in SUBSET Gates
      BY <1>1, <1>3, <2>1
  <2> QED BY <2>2 DEF Record
<1>6. rivals' \in [Requests -> SUBSET Requests]
  <2>1. \A r \in Requests : rivals[r] \in SUBSET Requests
      BY DEF Types
  <2>2. \A r \in Requests : rivals'[r] \in SUBSET Requests
      BY <1>2, <1>4, <2>1
  <2> QED BY <2>2 DEF Record
<1> QED BY <1>3, <1>4, <1>5, <1>6

\* Where the requests stay, what is known of them stays true.
LEMMA RequestsStay ==
    ASSUME PipelineInv, sc' = sc, pc' = pc, rows' = rows, form # None => form' = form, Record
    PROVE  \A r \in DOMAIN sc'.starts : GateInv(r)' /\ PassInv(r)' /\ RefusalInv(r)'
<1> SUFFICES ASSUME NEW r \in DOMAIN sc.starts
             PROVE  GateInv(r)' /\ PassInv(r)' /\ RefusalInv(r)'
    OBVIOUS
<1>1. GateInv(r) /\ PassInv(r) /\ RefusalInv(r) /\ r \in Requests
    BY RequestsOK DEF PipelineInv, Types
<1>2. CASE pc[r] = "idle"
    BY <1>2 DEF startVars, GateInv, PassInv, RefusalInv
<1>3. CASE pc[r] # "idle"
  <2>1. Settled(r)
      BY <1>1 DEF GateInv, Settled
  <2>2. /\ Needs(r)' = Needs(r) /\ Refusals(r)' = Refusals(r) /\ (Acceptable(r)' <=> Acceptable(r))
        /\ Live(r)' = Live(r)
        /\ ZodAccepts(ConfigOf(r))' <=> ZodAccepts(ConfigOf(r))
        /\ SchemaAccepts(Forwarded(ConfigOf(r)))' <=> SchemaAccepts(Forwarded(ConfigOf(r)))
      BY <1>3, <2>1, ConfigSettled
  <2>3. /\ r \in UnderWay <=> r \in UnderWay'
        /\ pc' = pc /\ rows' = rows /\ pc' \in [Requests -> Places \cup Answers]
      BY DEF startVars, UnderWay, PipelineInv, Types
  <2>4. shut'[r] \subseteq shut[r] /\ rivals[r] \subseteq rivals'[r]
      BY <1>1, <2>3, RecordOK DEF PipelineInv
  <2>5. GateInv(r)'
      BY <1>1, <2>2, <2>3, <2>4 DEF GateInv
  <2>6. PassInv(r)'
      BY <1>1, <2>2, <2>3 DEF PassInv, Bot
  <2>7. RefusalInv(r)'
    <3>1. Started' = Started /\ \A q : Bot(q)' = Bot(q)
        BY <2>3 DEF Started, Bot
    <3>2. pc[r] = "409" => \E q \in Started' : Bot(q)' = Bot(r)'
        BY <1>1, <3>1 DEF RefusalInv
    <3> QED BY <1>1, <2>2, <2>3, <2>4, <3>1, <3>2 DEF RefusalInv
  <2> QED BY <2>5, <2>6, <2>7
<1> QED BY <1>2, <1>3

\* So a step of the account or the editor keeps the invariant if its own part is kept.
LEMMA StepAside ==
    ASSUME PipelineInv, sc' = sc, UNCHANGED startVars, form # None => form' = form, Record,
           user' \in [secret : Nat, enabled : BOOLEAN, issued : Nat],
           act' \in [Activations -> [pc : {"idle", "checked", "done"}, secret : Nat]],
           author' = [calls |-> author'.calls, result |-> author'.result],
           AccountInv', AuthorInv'
    PROVE  PipelineInv'
<1>1. Bots' = Bots /\ Started' = Started /\ \A q : Bot(q)' = Bot(q)
    BY DEF Bots, Started, Bot, startVars
<1>2. Types'
  <2>1. shut' \in [Requests -> SUBSET Gates] /\ rivals' \in [Requests -> SUBSET Requests]
      BY RecordOK DEF PipelineInv, Types, startVars
  <2> QED BY <1>1, <2>1 DEF PipelineInv, Types, startVars
<1>3. BotInv'
    BY <1>1 DEF PipelineInv, BotInv, startVars
<1>4. \A r \in DOMAIN sc'.starts : GateInv(r)' /\ PassInv(r)' /\ RefusalInv(r)'
    BY RequestsStay DEF startVars
<1> QED BY <1>2, <1>3, <1>4 DEF PipelineInv

\* Billing steps do not touch what the invariant is about.
LEMMA BillingKeeps ==
    ASSUME PipelineInv, sc' = sc, UNCHANGED <<accountVars, authorVars, startVars>>, Record
    PROVE  PipelineInv'
<1>1. AccountInv' /\ AuthorInv'
    BY DEF PipelineInv, AccountInv, AuthorInv, accountVars, authorVars
<1>2. /\ user' \in [secret : Nat, enabled : BOOLEAN, issued : Nat]
      /\ act' \in [Activations -> [pc : {"idle", "checked", "done"}, secret : Nat]]
      /\ author' = [calls |-> author'.calls, result |-> author'.result] /\ form' = form
    BY DEF PipelineInv, Types, accountVars, authorVars
<1> QED BY <1>1, <1>2, StepAside

\* The account: only a secret that was checked is enabled.
LEMMA AccountKeeps ==
    ASSUME PipelineInv, sc' = sc, Account, UNCHANGED <<authorVars, startVars>>, Record
    PROVE  PipelineInv'
<1>1. AuthorInv' /\ form' = form /\ author' = [calls |-> author'.calls, result |-> author'.result]
    BY DEF PipelineInv, Types, AuthorInv, authorVars
<1>2. sc.activations \subseteq Activations /\ sc.secrets \in Nat
    BY PipelineAssumption DEF PipelineInv, Types
<1>3. /\ user' \in [secret : Nat, enabled : BOOLEAN, issued : Nat]
      /\ act' \in [Activations -> [pc : {"idle", "checked", "done"}, secret : Nat]]
      /\ AccountInv'
  <2>1. CASE Enroll
      BY <2>1 DEF Enroll, PipelineInv, Types, AccountInv
  <2>2. ASSUME NEW a \in sc.activations, ActivateReads(a)
        PROVE  /\ user' = user /\ act' \in [Activations -> [pc : {"idle", "checked", "done"}, secret : Nat]]
               /\ AccountInv'
    <3>1. user.secret \in Nat /\ a \in Activations
        BY <1>2, <2>2 DEF PipelineInv, Types
    <3>2. act' \in [Activations -> [pc : {"idle", "checked", "done"}, secret : Nat]]
        BY <2>2, <3>1 DEF ActivateReads, PipelineInv, Types
    <3>3. \A d \in Activations : act'[d].pc = "checked" => act'[d].secret \in proven'
        BY <2>2, <3>1 DEF ActivateReads, PipelineInv, Types, AccountInv
    <3> QED BY <2>2, <3>2, <3>3 DEF ActivateReads, PipelineInv, AccountInv
  <2>3. ASSUME NEW a \in sc.activations, ActivateStores(a)
        PROVE  /\ user' \in [secret : Nat, enabled : BOOLEAN, issued : Nat]
               /\ act' \in [Activations -> [pc : {"idle", "checked", "done"}, secret : Nat]]
               /\ AccountInv'
    <3>1. a \in Activations /\ act[a].secret \in Nat /\ act[a].secret \in proven
        BY <1>2, <2>3 DEF ActivateStores, PipelineInv, Types, AccountInv
    <3>2. user' \in [secret : Nat, enabled : BOOLEAN, issued : Nat] /\ user'.secret = act[a].secret
        BY <2>3, <3>1 DEF ActivateStores, PipelineInv, Types
    <3>3. act' \in [Activations -> [pc : {"idle", "checked", "done"}, secret : Nat]]
        BY <2>3, <3>1 DEF ActivateStores, PipelineInv, Types
    <3>4. \A d \in Activations : act'[d].pc = "checked" => act'[d].secret \in proven
        BY <2>3, <3>1 DEF ActivateStores, PipelineInv, Types, AccountInv
    <3> QED BY <2>3, <3>1, <3>2, <3>3, <3>4 DEF ActivateStores, AccountInv
  <2>4. CASE \E k \in sc.keys : AddKey(k) \/ RemoveKey(k)
      BY <2>4 DEF AddKey, RemoveKey, PipelineInv, Types, AccountInv
  <2> QED BY <2>1, <2>2, <2>3, <2>4 DEF Account, PipelineInv, Types
<1> QED BY <1>1, <1>3, StepAside DEF startVars

\* Authoring: a result is one that was accepted, and stays.
LEMMA AuthoringKeeps ==
    ASSUME PipelineInv, sc' = sc, Authoring, UNCHANGED <<accountVars, startVars>>, Record
    PROVE  PipelineInv'
<1>1. AccountInv' /\ /\ user' \in [secret : Nat, enabled : BOOLEAN, issued : Nat]
                     /\ act' \in [Activations -> [pc : {"idle", "checked", "done"}, secret : Nat]]
    BY DEF PipelineInv, Types, AccountInv, accountVars
<1>2. /\ author' = [calls |-> author'.calls, result |-> author'.result] /\ AuthorInv'
      /\ form # None => form' = form
  <2>1. CASE LoadForm
      BY <2>1 DEF LoadForm, PipelineInv, Types, AuthorInv
  <2>2. ASSUME NEW cfg \in sc.ideas, AuthorCall(cfg)
        PROVE  /\ author' = [calls |-> author'.calls, result |-> author'.result] /\ AuthorInv'
               /\ form' = form
    <3>1. form' = form /\ form = None
        BY <2>2 DEF AuthorCall, PipelineInv, AuthorInv
    <3>2. /\ author' = [calls |-> author'.calls, result |-> author'.result]
          /\ author'.result # None =>
                author'.result = cfg /\ SchemaAccepts(cfg) /\ Builds(cfg)
        BY <2>2 DEF AuthorCall
    <3> QED BY <2>2, <3>1, <3>2 DEF AuthorInv
  <2> QED BY <2>1, <2>2 DEF Authoring
<1> QED BY <1>1, <1>2, StepAside

-----------------------------------------------------------------------------
(* Steps of a request.                                                     *)

\* Request r moves to another place, and nobody is un-started by it.
Moves(r, to) ==
    /\ pc' = [pc EXCEPT ![r] = to] /\ pc[r] \notin Answers /\ to \in Places \cup Answers
    /\ \A b \in Bots : rows[b] # None => rows'[b] # None
    /\ \A b \in Bots : rows'[b] # None /\ rows[b] = None => b = Bot(r) /\ to \in Places \ {"idle"}
    /\ rows' \in [Bots -> Requests \cup {None}]

\* What is known of the other requests stays true.
LEMMA OthersStay ==
    ASSUME PipelineInv, sc' = sc, UNCHANGED <<billingVars, accountVars, authorVars>>, Record,
           NEW r \in DOMAIN sc.starts, NEW to, Moves(r, to), NEW q \in DOMAIN sc.starts, q # r
    PROVE  GateInv(q)' /\ PassInv(q)' /\ RefusalInv(q)'
<1>1. GateInv(q) /\ PassInv(q) /\ RefusalInv(q) /\ q \in Requests /\ r \in Requests
    BY RequestsOK DEF PipelineInv, Types
<1>2. pc'[q] = pc[q] /\ pc'[r] = to /\ pc' \in [Requests -> Places \cup Answers] /\ form' = form
    BY <1>1 DEF Moves, PipelineInv, Types, authorVars
<1>3. Started \subseteq Started' /\ \A x : Bot(x)' = Bot(x)
    BY <1>1, <1>2 DEF Started, Bot, Moves, Answers, PipelineInv, Types
<1>4. Bot(q) \in Bots /\ Bot(r) \in Bots
    BY DEF Bot, Bots
<1>5. CASE pc[q] = "idle"
    BY <1>2, <1>5 DEF GateInv, PassInv, RefusalInv
<1>6. CASE pc[q] # "idle"
  <2>1. Settled(q)
      BY <1>1 DEF GateInv, Settled
  <2>2. /\ Needs(q)' = Needs(q) /\ Refusals(q)' = Refusals(q)
        /\ (Acceptable(q)' <=> Acceptable(q)) /\ Live(q)' = Live(q)
        /\ ZodAccepts(ConfigOf(q))' <=> ZodAccepts(ConfigOf(q))
        /\ SchemaAccepts(Forwarded(ConfigOf(q)))' <=> SchemaAccepts(Forwarded(ConfigOf(q)))
      BY <1>2, <1>6, <2>1, ConfigSettled
  <2>3. q \in UnderWay <=> q \in UnderWay'
      BY <1>2 DEF UnderWay
  <2>4. shut'[q] \subseteq shut[q] /\ rivals[q] \subseteq rivals'[q]
      BY <1>1, <1>2, <2>3, RecordOK DEF PipelineInv
  <2>5. GateInv(q)'
      BY <1>1, <1>2, <2>2, <2>4 DEF GateInv
  <2>6. PassInv(q)'
      BY <1>1, <1>2, <1>3, <1>4, <2>2 DEF PassInv, Moves
  <2>7. RefusalInv(q)'
    <3>1. pc[q] = "409" => \E x \in Started' : Bot(x)' = Bot(q)'
        BY <1>1, <1>3 DEF RefusalInv
    <3>2. ASSUME pc[q] = "insert", rows'[Bot(q)] # None PROVE rivals'[q] # {}
      <4>1. CASE rows[Bot(q)] # None
          BY <1>1, <2>4, <3>2, <4>1 DEF RefusalInv
      <4>2. CASE rows[Bot(q)] = None
        <5>1. Bot(q) = Bot(r) /\ to \in Places \ {"idle"}
            BY <1>4, <3>2, <4>2 DEF Moves
        <5>2. q \in UnderWay' /\ r \in UnderWay'
            BY <1>2, <3>2, <5>1 DEF UnderWay, Places, Answers
        <5>3. {x \in UnderWay' \ {q} : Bot(x) = Bot(q)} \subseteq rivals'[q]
            BY <1>1, <1>2, <5>2, RecordOK DEF PipelineInv
        <5> QED BY <5>1, <5>2, <5>3
      <4> QED BY <4>1, <4>2
    <3> QED BY <1>1, <1>2, <1>3, <2>2, <2>4, <3>1, <3>2 DEF RefusalInv
  <2> QED BY <2>5, <2>6, <2>7
<1> QED BY <1>5, <1>6

\* So a move keeps the invariant if it does for the request itself and the bots.
LEMMA MoveKeeps ==
    ASSUME PipelineInv, sc' = sc, UNCHANGED <<billingVars, accountVars, authorVars>>, Record,
           NEW r \in DOMAIN sc.starts, NEW to, Moves(r, to),
           GateInv(r)' /\ PassInv(r)' /\ RefusalInv(r)',
           BotInv', bots' \in [Bots -> Requests \cup {None}]
    PROVE  PipelineInv'
<1>1. r \in Requests
    BY RequestsOK DEF PipelineInv, Types
<1>2. pc' \in [Requests -> Places \cup Answers] /\ Bots' = Bots
    BY <1>1 DEF Moves, PipelineInv, Types, Bots
<1>3. Types'
  <2>1. shut' \in [Requests -> SUBSET Gates] /\ rivals' \in [Requests -> SUBSET Requests]
      BY <1>2, RecordOK DEF PipelineInv
  <2> QED BY <1>2, <2>1 DEF PipelineInv, Types, Moves, accountVars, authorVars
<1>4. AccountInv' /\ AuthorInv'
    BY DEF PipelineInv, AccountInv, AuthorInv, accountVars, authorVars
<1>5. \A q \in DOMAIN sc'.starts : GateInv(q)' /\ PassInv(q)' /\ RefusalInv(q)'
    BY OthersStay
<1> QED BY <1>3, <1>4, <1>5 DEF PipelineInv

\* A move that leaves the bots and the rows alone.
LEMMA StepKeeps ==
    ASSUME PipelineInv, sc' = sc, UNCHANGED <<billingVars, accountVars, authorVars>>, Record,
           NEW r \in DOMAIN sc.starts, NEW from \in Places, NEW to \in Places \cup Answers,
           Step(r, from, to), to # "started", GateInv(r)' /\ PassInv(r)' /\ RefusalInv(r)'
    PROVE  PipelineInv'
<1>1. Moves(r, to)
    BY DEF Step, Moves, Places, Answers, PipelineInv, Types
<1>2. bots' \in [Bots -> Requests \cup {None}]
    BY DEF Step, PipelineInv, Types
<1>3. BotInv'
  <2>1. Started' = Started /\ Bots' = Bots /\ \A q : Bot(q)' = Bot(q)
    <3>1. r \in Requests /\ pc[r] # "started"
        BY RequestsOK DEF Step, PipelineInv, Types, Places
    <3>2. \A q \in DOMAIN sc.starts : pc'[q] = "started" <=> pc[q] = "started"
        BY <3>1, RequestsOK DEF Step, PipelineInv, Types
    <3> QED BY <3>2 DEF Started, Bots, Bot
  <2> QED BY <2>1 DEF PipelineInv, BotInv, Step
<1> QED BY <1>1, <1>2, <1>3, MoveKeeps

\* What a step of request r finds, and what stays as it is.
LEMMA AtStep ==
    ASSUME PipelineInv, sc' = sc, UNCHANGED <<billingVars, accountVars, authorVars>>, Record,
           NEW r \in DOMAIN sc.starts, NEW to \in Places \cup Answers,
           pc' = [pc EXCEPT ![r] = to]
    PROVE  /\ r \in Requests /\ pc'[r] = to /\ Bot(r) \in Bots /\ form' = form
           /\ GateInv(r) /\ PassInv(r) /\ RefusalInv(r)
           /\ Live(r)' = Live(r) /\ Bot(r)' = Bot(r) /\ ConfigOf(r)' = ConfigOf(r)
           /\ Needs(r)' = Needs(r) /\ Refusals(r)' = Refusals(r)
           /\ (Acceptable(r)' <=> Acceptable(r))
           /\ r \in UnderWay' <=> to \notin Answers \cup {"idle"}
           /\ r \in UnderWay <=> pc[r] \notin Answers \cup {"idle"}
           /\ r \in UnderWay /\ r \in UnderWay' => shut'[r] \subseteq shut[r]
           /\ r \in UnderWay' => shut'[r] \cap {g \in Gates : g \notin ShutGates'} = {}
           /\ r \notin UnderWay' => rivals'[r] = rivals[r]
           /\ r \in UnderWay /\ r \in UnderWay' => rivals[r] \subseteq rivals'[r]
           /\ ShutGates' = ShutGates
<1>1. r \in Requests /\ pc'[r] = to /\ pc' \in [Requests -> Places \cup Answers]
    BY RequestsOK DEF PipelineInv, Types
<1>2. Bot(r) \in Bots /\ form' = form /\ GateInv(r) /\ PassInv(r) /\ RefusalInv(r)
    BY DEF Bot, Bots, authorVars, PipelineInv
<1>3. ConfigOf(r)' = ConfigOf(r) /\ Live(r)' = Live(r) /\ Bot(r)' = Bot(r)
    BY <1>2 DEF ConfigOf, Live, Bot
<1>4. Needs(r)' = Needs(r) /\ Refusals(r)' = Refusals(r)
    BY <1>3 DEF Needs, Refusals
<1>5. Acceptable(r)' <=> Acceptable(r)
    BY <1>3, <1>4 DEF Acceptable
<1>6. /\ r \in UnderWay' <=> to \notin Answers \cup {"idle"}
      /\ r \in UnderWay <=> pc[r] \notin Answers \cup {"idle"}
    BY <1>1 DEF UnderWay
<1>7. /\ r \in UnderWay /\ r \in UnderWay' => shut'[r] \subseteq shut[r] /\ rivals[r] \subseteq rivals'[r]
      /\ r \in UnderWay' => shut'[r] \cap {g \in Gates : g \notin ShutGates'} = {}
      /\ r \notin UnderWay' => rivals'[r] = rivals[r]
    BY <1>1, RecordOK DEF PipelineInv
<1>8. ShutGates' = ShutGates
    BY DEF ShutGates, IsActive, billingVars, accountVars
<1> QED BY <1>1, <1>2, <1>3, <1>4, <1>5, <1>6, <1>7, <1>8

\* Arrival: what the gateway refuses no bot could run.
LEMMA ArriveKeeps ==
    ASSUME PipelineInv, sc' = sc, UNCHANGED <<billingVars, accountVars, authorVars>>, Record,
           NEW r \in DOMAIN sc.starts, Arrive(r)
    PROVE  PipelineInv'
<1> DEFINE to == IF ~ZodAccepts(ConfigOf(r)) THEN "400"
                 ELSE IF Needs(r) = {} THEN "engine" ELSE "subscription"
<1>1. Step(r, "idle", to) /\ to \in {"400", "engine", "subscription"}
    BY DEF Arrive
<1>2. to \in Places \cup Answers /\ "idle" \in Places /\ to # "started"
    BY <1>1 DEF Places, Answers
<1>3. pc' = [pc EXCEPT ![r] = to]
    BY <1>1 DEF Step
<1> HIDE DEF to
<1>4. GateInv(r)' /\ PassInv(r)' /\ RefusalInv(r)'
  <2>1. /\ pc'[r] = to /\ form' = form /\ ConfigOf(r)' = ConfigOf(r) /\ Needs(r)' = Needs(r)
        /\ (Acceptable(r)' <=> Acceptable(r))
      BY <1>2, <1>3, AtStep
  <2>2. sc.starts[r].config = None => form # None
      BY DEF Arrive
  <2>3. to = "400" => ~Acceptable(r)
      BY DEF to, Acceptable
  <2>4. to = "engine" => Needs(r) = {} /\ ZodAccepts(ConfigOf(r))
      BY DEF to
  <2>5. to = "subscription" => Needs(r) # {} /\ ZodAccepts(ConfigOf(r))
      BY DEF to
  <2>6. GateInv(r)'
      BY <1>1, <2>1, <2>2, <2>4, <2>5 DEF GateInv
  <2>7. PassInv(r)'
      BY <1>1, <2>1, <2>4, <2>5 DEF PassInv
  <2>8. RefusalInv(r)'
      BY <1>1, <2>1, <2>3 DEF RefusalInv
  <2> QED BY <2>6, <2>7, <2>8
<1> QED BY <1>1, <1>2, <1>4, StepKeeps

\* Each gate is passed by those it is open for.
LEMMA SubscriptionKeeps ==
    ASSUME PipelineInv, sc' = sc, UNCHANGED <<billingVars, accountVars, authorVars>>, Record,
           NEW r \in DOMAIN sc.starts, GateSubscription(r)
    PROVE  PipelineInv'
<1> DEFINE to == IF ~IsActive THEN "403" ELSE IF Live(r) THEN "2fa" ELSE "engine"
<1>1. Step(r, "subscription", to) /\ to \in {"403", "2fa", "engine"}
    BY DEF GateSubscription
<1>2. to \in Places \cup Answers /\ "subscription" \in Places /\ to # "started"
    BY <1>1 DEF Places, Answers
<1>3. pc' = [pc EXCEPT ![r] = to] /\ pc[r] = "subscription"
    BY <1>1 DEF Step
<1>4. to \in {"2fa", "engine"} => "subscription" \notin ShutGates
    BY DEF ShutGates
<1>5. to = "2fa" => Live(r)
    OBVIOUS
<1>6. to = "engine" => Needs(r) \subseteq {"subscription"}
    BY DEF Needs
<1> HIDE DEF to
<1>7. GateInv(r)' /\ PassInv(r)' /\ RefusalInv(r)'
  <2>1. /\ pc'[r] = to /\ form' = form /\ ConfigOf(r)' = ConfigOf(r) /\ Needs(r)' = Needs(r)
        /\ GateInv(r) /\ Live(r)' = Live(r) /\ ShutGates' = ShutGates
      BY <1>2, <1>3, AtStep
  <2>2. to \in {"2fa", "engine"} => "subscription" \notin shut'[r]
    <3>1. to \in {"2fa", "engine"} => r \in UnderWay'
        BY <1>2, <1>3, AtStep DEF Answers
    <3>2. r \in UnderWay' => shut'[r] \cap {g \in Gates : g \notin ShutGates'} = {}
        BY <1>2, <1>3, AtStep
    <3> QED BY <1>4, <2>1, <3>1, <3>2 DEF Gates
  <2>3. GateInv(r)'
      BY <1>1, <1>3, <1>5, <1>6, <2>1, <2>2 DEF GateInv
  <2>4. PassInv(r)'
    <3>1. ZodAccepts(ConfigOf(r))
        BY <1>3 DEF PipelineInv, PassInv
    <3> QED BY <1>1, <2>1, <3>1 DEF PassInv
  <2>5. RefusalInv(r)'
      BY <1>1, <1>3, <2>1 DEF RefusalInv, GateInv
  <2> QED BY <2>3, <2>4, <2>5
<1> QED BY <1>1, <1>2, <1>7, StepKeeps

\* The two-factor gate.
LEMMA TwoFactorKeeps ==
    ASSUME PipelineInv, sc' = sc, UNCHANGED <<billingVars, accountVars, authorVars>>, Record,
           NEW r \in DOMAIN sc.starts, GateTwoFactor(r)
    PROVE  PipelineInv'
<1> DEFINE to == IF user.enabled THEN "key" ELSE "403"
<1>1. Step(r, "2fa", to) /\ to \in {"key", "403"}
    BY DEF GateTwoFactor
<1>2. to \in Places \cup Answers /\ "2fa" \in Places /\ to # "started"
    BY <1>1 DEF Places, Answers
<1>3. pc' = [pc EXCEPT ![r] = to] /\ pc[r] = "2fa"
    BY <1>1 DEF Step
<1>4. to = "key" => "2fa" \notin ShutGates
    BY DEF ShutGates
<1> HIDE DEF to
<1>5. GateInv(r)' /\ PassInv(r)' /\ RefusalInv(r)'
  <2>1. /\ pc'[r] = to /\ form' = form /\ ConfigOf(r)' = ConfigOf(r) /\ Needs(r)' = Needs(r)
        /\ GateInv(r) /\ PassInv(r) /\ Live(r)' = Live(r) /\ ShutGates' = ShutGates
      BY <1>2, <1>3, AtStep
  <2>2. Live(r) /\ "subscription" \notin shut[r] /\ Needs(r) # {}
    <3>1. Live(r) /\ "subscription" \notin shut[r]
        BY <1>3, <2>1 DEF GateInv
    <3> QED BY <3>1 DEF Needs, Gates
  <2>3. to = "key" => "subscription" \notin shut'[r] /\ "2fa" \notin shut'[r]
    <3>1. r \in UnderWay /\ (to = "key" => r \in UnderWay')
        BY <1>2, <1>3, AtStep DEF Answers
    <3>2. to = "key" => shut'[r] \subseteq shut[r]
        BY <1>2, <1>3, <3>1, AtStep
    <3>3. to = "key" => shut'[r] \cap {g \in Gates : g \notin ShutGates'} = {}
        BY <1>2, <1>3, <3>1, AtStep
    <3> QED BY <1>4, <2>1, <2>2, <3>2, <3>3 DEF Gates
  <2>4. GateInv(r)'
      BY <1>1, <1>3, <2>1, <2>2, <2>3 DEF GateInv
  <2>5. PassInv(r)'
      BY <1>1, <1>3, <2>1 DEF PassInv
  <2>6. RefusalInv(r)'
      BY <1>1, <2>1, <2>2 DEF RefusalInv
  <2> QED BY <2>4, <2>5, <2>6
<1> QED BY <1>1, <1>2, <1>5, StepKeeps

\* The key gate.
LEMMA KeyKeeps ==
    ASSUME PipelineInv, sc' = sc, UNCHANGED <<billingVars, accountVars, authorVars>>, Record,
           NEW r \in DOMAIN sc.starts, GateKey(r)
    PROVE  PipelineInv'
<1> DEFINE to == IF keys # {} THEN "engine" ELSE "400"
<1>1. Step(r, "key", to) /\ to \in {"engine", "400"}
    BY DEF GateKey
<1>2. to \in Places \cup Answers /\ "key" \in Places /\ to # "started"
    BY <1>1 DEF Places, Answers
<1>3. pc' = [pc EXCEPT ![r] = to] /\ pc[r] = "key"
    BY <1>1 DEF Step
<1>4. to = "engine" => "key" \notin ShutGates
    BY DEF ShutGates
<1> HIDE DEF to
<1>5. GateInv(r)' /\ PassInv(r)' /\ RefusalInv(r)'
  <2>1. /\ pc'[r] = to /\ form' = form /\ ConfigOf(r)' = ConfigOf(r) /\ Needs(r)' = Needs(r)
        /\ GateInv(r) /\ PassInv(r) /\ Live(r)' = Live(r) /\ ShutGates' = ShutGates
      BY <1>2, <1>3, AtStep
  <2>2. Live(r) /\ "subscription" \notin shut[r] /\ "2fa" \notin shut[r]
      BY <1>3, <2>1 DEF GateInv
  <2>3. Needs(r) # {} /\ Needs(r) \subseteq Gates
      BY <2>2 DEF Needs, Gates
  <2>4. to = "engine" => Needs(r) \cap shut'[r] = {}
    <3>1. r \in UnderWay /\ (to = "engine" => r \in UnderWay')
        BY <1>2, <1>3, AtStep DEF Answers
    <3>2. to = "engine" => shut'[r] \subseteq shut[r]
        BY <1>2, <1>3, <3>1, AtStep
    <3>3. to = "engine" => shut'[r] \cap {g \in Gates : g \notin ShutGates'} = {}
        BY <1>2, <1>3, <3>1, AtStep
    <3> QED BY <1>4, <2>1, <2>2, <2>3, <3>2, <3>3 DEF Gates
  <2>5. GateInv(r)'
      BY <1>1, <1>3, <2>1, <2>4 DEF GateInv
  <2>6. PassInv(r)'
      BY <1>1, <1>3, <2>1 DEF PassInv
  <2>7. RefusalInv(r)'
      BY <1>1, <2>1, <2>3 DEF RefusalInv
  <2> QED BY <2>5, <2>6, <2>7
<1> QED BY <1>1, <1>2, <1>5, StepKeeps

\* The launcher finds the row or does not.
LEMMA LooksKeeps ==
    ASSUME PipelineInv, sc' = sc, UNCHANGED <<billingVars, accountVars, authorVars>>, Record,
           NEW r \in DOMAIN sc.starts, LaunchLooks(r)
    PROVE  PipelineInv'
<1> DEFINE to == IF ~SchemaAccepts(Forwarded(ConfigOf(r))) THEN "422"
                 ELSE IF rows[Bot(r)] = None THEN "insert" ELSE "build"
<1>1. Step(r, "engine", to) /\ to \in {"422", "insert", "build"}
    BY DEF LaunchLooks
<1>2. to \in Places \cup Answers /\ "engine" \in Places /\ to # "started"
    BY <1>1 DEF Places, Answers
<1>3. pc' = [pc EXCEPT ![r] = to] /\ pc[r] = "engine" /\ rows' = rows
    BY <1>1 DEF Step
<1>4. /\ to = "422" => ~Acceptable(r)
      /\ to \in {"insert", "build"} => SchemaAccepts(Forwarded(ConfigOf(r)))
      /\ to = "insert" => rows[Bot(r)] = None
      /\ to = "build" => rows[Bot(r)] # None
    BY DEF Acceptable
<1> HIDE DEF to
<1>5. GateInv(r)' /\ PassInv(r)' /\ RefusalInv(r)'
  <2>1. /\ pc'[r] = to /\ form' = form /\ ConfigOf(r)' = ConfigOf(r) /\ Needs(r)' = Needs(r)
        /\ GateInv(r) /\ PassInv(r) /\ (Acceptable(r)' <=> Acceptable(r)) /\ Bot(r)' = Bot(r)
      BY <1>2, <1>3, AtStep
  <2>2. to \in {"insert", "build"} => Needs(r) \cap shut'[r] = {}
    <3>1. r \in UnderWay /\ (to \in {"insert", "build"} => r \in UnderWay')
        BY <1>2, <1>3, AtStep DEF Answers
    <3>2. to \in {"insert", "build"} => shut'[r] \subseteq shut[r]
        BY <1>2, <1>3, <3>1, AtStep
    <3>3. Needs(r) \cap shut[r] = {}
        BY <1>3, <2>1 DEF GateInv
    <3> QED BY <3>2, <3>3
  <2>3. GateInv(r)'
      BY <1>1, <1>3, <2>1, <2>2 DEF GateInv
  <2>4. PassInv(r)'
      BY <1>1, <1>3, <1>4, <2>1 DEF PassInv
  <2>5. RefusalInv(r)'
      BY <1>1, <1>3, <1>4, <2>1 DEF RefusalInv
  <2> QED BY <2>3, <2>4, <2>5
<1> QED BY <1>1, <1>2, <1>5, StepKeeps

\* A failure of the database is an answer nothing is promised of.
LEMMA FailsKeeps ==
    ASSUME PipelineInv, sc' = sc, UNCHANGED <<billingVars, accountVars, authorVars>>, Record,
           NEW r \in DOMAIN sc.starts, LaunchFails(r)
    PROVE  PipelineInv'
<1>1. PICK at \in {"engine", "insert"} : Step(r, at, "500")
    BY DEF LaunchFails
<1>2. "500" \in Places \cup Answers /\ at \in Places
    BY DEF Places, Answers
<1>3. GateInv(r)' /\ PassInv(r)' /\ RefusalInv(r)'
  <2>1. pc' = [pc EXCEPT ![r] = "500"] /\ pc[r] = at
      BY <1>1 DEF Step
  <2>2. pc'[r] = "500" /\ form' = form /\ GateInv(r)
      BY <1>2, <2>1, AtStep
  <2> QED BY <2>1, <2>2 DEF GateInv, PassInv, RefusalInv
<1> QED BY <1>1, <1>2, <1>3, StepKeeps

\* Who finds a row there after all has had company.
LEMMA InsertsKeeps ==
    ASSUME PipelineInv, sc' = sc, UNCHANGED <<billingVars, accountVars, authorVars>>, Record,
           NEW r \in DOMAIN sc.starts, LaunchInserts(r)
    PROVE  PipelineInv'
<1> DEFINE to == IF rows[Bot(r)] # None THEN "duplicate" ELSE "build"
<1>1. pc[r] = "insert" /\ to \in {"duplicate", "build"} /\ pc' = [pc EXCEPT ![r] = to] /\ bots' = bots
    BY DEF LaunchInserts
<1>2. to \in Places \cup Answers /\ to # "started"
    BY <1>1 DEF Places, Answers
<1>3. to = "duplicate" => rows[Bot(r)] # None
    OBVIOUS
<1>4. rows' = [rows EXCEPT ![Bot(r)] = IF rows[Bot(r)] = None THEN r ELSE rows[Bot(r)]]
    BY DEF LaunchInserts
<1>5. to = "build" <=> rows[Bot(r)] = None
    OBVIOUS
<1> HIDE DEF to
<1>6. /\ pc'[r] = to /\ form' = form /\ ConfigOf(r)' = ConfigOf(r) /\ Needs(r)' = Needs(r)
      /\ r \in Requests /\ GateInv(r) /\ PassInv(r) /\ RefusalInv(r)
      /\ Bot(r)' = Bot(r) /\ Bot(r) \in Bots
    BY <1>1, <1>2, AtStep
<1>7. None \notin Requests /\ rows \in [Bots -> Requests \cup {None}]
    BY PipelineAssumption DEF PipelineInv, Types
<1>8. /\ rows' \in [Bots -> Requests \cup {None}] /\ rows'[Bot(r)] # None
      /\ \A b \in Bots : rows[b] # None => rows'[b] # None
      /\ \A b \in Bots : rows'[b] # None /\ rows[b] = None => b = Bot(r)
    BY <1>4, <1>6, <1>7
<1>9. Moves(r, to)
  <2>1. \A b \in Bots : rows'[b] # None /\ rows[b] = None => b = Bot(r) /\ to \in Places \ {"idle"}
      BY <1>5, <1>8 DEF Places
  <2> QED BY <1>1, <1>2, <1>8, <2>1 DEF Moves, Answers
<1>10. BotInv' /\ bots' \in [Bots -> Requests \cup {None}]
  <2>1. Started' = Started /\ Bots' = Bots /\ \A q : Bot(q)' = Bot(q)
    <3>1. \A q \in DOMAIN sc.starts : pc'[q] = "started" <=> pc[q] = "started"
        BY <1>1, <1>2, RequestsOK DEF PipelineInv, Types
    <3> QED BY <3>1 DEF Started, Bots, Bot
  <2> QED BY <1>1, <1>8, <2>1 DEF PipelineInv, Types, BotInv
<1>11. GateInv(r)' /\ PassInv(r)' /\ RefusalInv(r)'
  <2>1. to = "build" => Needs(r) \cap shut'[r] = {}
    <3>1. r \in UnderWay /\ (to = "build" => r \in UnderWay')
        BY <1>1, <1>2, AtStep DEF Answers
    <3>2. to = "build" => shut'[r] \subseteq shut[r]
        BY <1>1, <1>2, <3>1, AtStep
    <3>3. Needs(r) \cap shut[r] = {}
        BY <1>1, <1>6 DEF GateInv
    <3> QED BY <3>2, <3>3
  <2>2. to = "duplicate" => rivals'[r] # {}
    <3>1. to = "duplicate" => r \notin UnderWay'
        BY <1>1, <1>2, AtStep DEF Answers
    <3>2. to = "duplicate" => rivals'[r] = rivals[r]
        BY <1>1, <1>2, <3>1, AtStep
    <3> QED BY <1>1, <1>3, <1>6, <3>2 DEF RefusalInv
  <2>3. GateInv(r)'
      BY <1>1, <1>6, <2>1 DEF GateInv
  <2>4. PassInv(r)'
      BY <1>1, <1>6, <1>8 DEF PassInv
  <2>5. RefusalInv(r)'
      BY <1>1, <1>6, <2>2 DEF RefusalInv
  <2> QED BY <2>3, <2>4, <2>5
<1> QED BY <1>9, <1>10, <1>11, MoveKeeps, <1>2

\* A start is refused for a reason of its own or for a bot that was started.
LEMMA RefusedKeeps ==
    ASSUME PipelineInv, sc' = sc, UNCHANGED <<billingVars, accountVars, authorVars>>, Record,
           NEW r \in DOMAIN sc.starts, NEW to, Step(r, "build", to),
           \/ Refusals(r) # {} /\ to \in {"400", "500"}
           \/ bots[Bot(r)] # None /\ to = "409"
    PROVE  PipelineInv'
<1>1. to \in Places \cup Answers /\ "build" \in Places /\ to # "started"
    BY DEF Places, Answers
<1>2. pc' = [pc EXCEPT ![r] = to] /\ pc[r] = "build"
    BY DEF Step
<1>3. /\ r \in Requests /\ pc'[r] = to /\ Bot(r)' = Bot(r) /\ Bot(r) \in Bots
      /\ Needs(r)' = Needs(r) /\ (Acceptable(r)' <=> Acceptable(r)) /\ form' = form /\ GateInv(r)
    BY <1>1, <1>2, AtStep
<1>4. GateInv(r)' /\ PassInv(r)'
    BY <1>2, <1>3 DEF GateInv, PassInv
<1>5. RefusalInv(r)'
  <2>1. to = "400" => ~Acceptable(r)
      BY DEF Acceptable
  <2>2. to = "409" => \E q \in Started' : Bot(q)' = Bot(r)'
    <3>1. bots[Bot(r)] # None => bots[Bot(r)] \in Started /\ Bot(bots[Bot(r)]) = Bot(r)
        BY <1>3 DEF PipelineInv, BotInv
    <3>2. \A q \in Started : q \in Started' /\ Bot(q)' = Bot(q)
        BY <1>2, RequestsOK DEF Started, Bot, PipelineInv, Types
    <3> QED BY <1>3, <3>1, <3>2
  <2> QED BY <1>3, <2>1, <2>2 DEF RefusalInv
<1> QED BY <1>1, <1>4, <1>5, StepKeeps

\* A bot is started with its row and a configuration that was accepted.
LEMMA StartedKeeps ==
    ASSUME PipelineInv, sc' = sc, UNCHANGED <<billingVars, accountVars, authorVars>>, Record,
           NEW r \in DOMAIN sc.starts, pc[r] = "build", rows' = rows, Refusals(r) = {},
           pc' = [pc EXCEPT ![r] = "started"], bots' = [bots EXCEPT ![Bot(r)] = r]
    PROVE  PipelineInv'
<1>1. "started" \in Places \cup Answers
    BY DEF Answers
<1>2. /\ r \in Requests /\ pc'[r] = "started" /\ Bot(r)' = Bot(r) /\ Bot(r) \in Bots
      /\ ConfigOf(r)' = ConfigOf(r) /\ Refusals(r)' = Refusals(r) /\ form' = form
      /\ GateInv(r) /\ PassInv(r)
    BY <1>1, AtStep
<1>3. GateInv(r)' /\ RefusalInv(r)'
    BY <1>2 DEF GateInv, RefusalInv
<1>4. PassInv(r)'
    BY <1>2 DEF PassInv
<1>5. Moves(r, "started")
    BY <1>1 DEF Moves, Answers, PipelineInv, Types
<1>6. bots' \in [Bots -> Requests \cup {None}]
    BY <1>2 DEF PipelineInv, Types
<1>7. BotInv'
  <2>1. Bots' = Bots /\ \A q : Bot(q)' = Bot(q)
      BY DEF Bots, Bot
  <2>2. Started \subseteq Started' /\ r \in Started'
      BY <1>2, RequestsOK DEF Started, PipelineInv, Types
  <2>3. rows[Bot(r)] # None
      BY <1>2 DEF PassInv
  <2>4. \A b \in Bots : bots'[b] = IF b = Bot(r) THEN r ELSE bots[b]
      BY DEF PipelineInv, Types
  <2> QED BY <2>1, <2>2, <2>3, <2>4 DEF PipelineInv, BotInv
<1> QED BY <1>3, <1>4, <1>5, <1>6, <1>7, MoveKeeps

\* The launch is one or the other.
LEMMA LaunchKeeps ==
    ASSUME PipelineInv, sc' = sc, UNCHANGED <<billingVars, accountVars, authorVars>>, Record,
           NEW r \in DOMAIN sc.starts, Launch(r)
    PROVE  PipelineInv'
<1>1. Refusals(r) \subseteq {"400", "500"}
    BY DEF Refusals
<1>2. CASE \E answer \in Refusals(r) : pc' = [pc EXCEPT ![r] = answer] /\ bots' = bots
    BY <1>1, <1>2, RefusedKeeps DEF Launch, Step
<1>3. CASE bots[Bot(r)] # None /\ pc' = [pc EXCEPT ![r] = "409"] /\ bots' = bots
    BY <1>3, RefusedKeeps DEF Launch, Step
<1>4. CASE /\ Refusals(r) = {} /\ pc' = [pc EXCEPT ![r] = "started"]
           /\ bots' = [bots EXCEPT ![Bot(r)] = r]
    BY <1>4, StartedKeeps DEF Launch
<1> QED BY <1>2, <1>3, <1>4 DEF Launch

\* A bot that ends leaves no promise behind.
LEMMA BotEndsKeeps ==
    ASSUME PipelineInv, sc' = sc, UNCHANGED <<billingVars, accountVars, authorVars>>, Record,
           NEW b \in Bots, BotEnds(b)
    PROVE  PipelineInv'
<1>1. pc' = pc /\ rows' = rows /\ bots' = [bots EXCEPT ![b] = None] /\ form' = form
    BY DEF BotEnds, authorVars
<1>2. Bots' = Bots /\ Started' = Started /\ \A q : Bot(q)' = Bot(q)
    BY <1>1 DEF Bots, Started, Bot
<1>3. Types'
  <2>1. shut' \in [Requests -> SUBSET Gates] /\ rivals' \in [Requests -> SUBSET Requests]
      BY <1>1, RecordOK DEF PipelineInv, Types
  <2>2. bots' \in [Bots -> Requests \cup {None}]
      BY <1>1 DEF PipelineInv, Types
  <2> QED BY <1>1, <1>2, <2>1, <2>2 DEF PipelineInv, Types, accountVars, authorVars
<1>4. AccountInv' /\ AuthorInv'
    BY DEF PipelineInv, AccountInv, AuthorInv, accountVars, authorVars
<1>5. BotInv'
  <2>1. \A c \in Bots : bots'[c] = IF c = b THEN None ELSE bots[c]
      BY <1>1 DEF PipelineInv, Types
  <2> QED BY <1>1, <1>2, <2>1 DEF PipelineInv, BotInv
<1>6. \A r \in DOMAIN sc'.starts : GateInv(r)' /\ PassInv(r)' /\ RefusalInv(r)'
    BY <1>1, RequestsStay
<1> QED BY <1>3, <1>4, <1>5, <1>6 DEF PipelineInv

-----------------------------------------------------------------------------
(* The theorems.                                                           *)

\* The invariant holds in every state of the pipeline.
THEOREM PipelineInductive == Spec => []PipelineInv
<1>1. PipelineInv /\ [Next]_vars => PipelineInv'
  <2> SUFFICES ASSUME PipelineInv, [Next]_vars PROVE PipelineInv'
      OBVIOUS
  <2>1. CASE UNCHANGED vars
    <3>1. /\ Bots' = Bots /\ Started' = Started
          /\ \A r \in DOMAIN sc.starts :
                /\ Acceptable(r)' <=> Acceptable(r)
                /\ ZodAccepts(ConfigOf(r))' <=> ZodAccepts(ConfigOf(r))
                /\ SchemaAccepts(Forwarded(ConfigOf(r)))' <=> SchemaAccepts(Forwarded(ConfigOf(r)))
                /\ Needs(r)' = Needs(r) /\ Refusals(r)' = Refusals(r) /\ Live(r)' = Live(r)
          /\ \A r : Bot(r)' = Bot(r)
      <4>1. \A r : ConfigOf(r)' = ConfigOf(r) /\ Live(r)' = Live(r) /\ Bot(r)' = Bot(r)
          BY <2>1 DEF ConfigOf, Live, Bot, vars, authorVars
      <4>2. \A r : Needs(r)' = Needs(r) /\ Refusals(r)' = Refusals(r)
          BY <2>1, <4>1 DEF Needs, Refusals, vars
      <4>3. \A r : /\ Acceptable(r)' <=> Acceptable(r)
                   /\ ZodAccepts(ConfigOf(r))' <=> ZodAccepts(ConfigOf(r))
                   /\ SchemaAccepts(Forwarded(ConfigOf(r)))' <=> SchemaAccepts(Forwarded(ConfigOf(r)))
          BY <4>1, <4>2 DEF Acceptable
      <4>4. Bots' = Bots /\ Started' = Started
          BY <2>1 DEF Bots, Started, vars, startVars
      <4> QED BY <4>1, <4>2, <4>3, <4>4
    <3>2. Types' /\ AccountInv' /\ AuthorInv' /\ BotInv'
        BY <2>1, <3>1 DEF PipelineInv, Types, AccountInv, AuthorInv, BotInv, vars, accountVars,
                          authorVars, startVars
    <3>3. ASSUME NEW r \in DOMAIN sc.starts PROVE GateInv(r)' /\ PassInv(r)' /\ RefusalInv(r)'
      <4>1. /\ pc' = pc /\ rows' = rows /\ form' = form /\ sc' = sc /\ shut' = shut
            /\ rivals' = rivals
          BY <2>1 DEF vars, startVars, authorVars
      <4>2. GateInv(r) /\ PassInv(r) /\ RefusalInv(r)
          BY DEF PipelineInv
      <4>3. GateInv(r)'
          BY <3>1, <4>1, <4>2 DEF GateInv
      <4>4. PassInv(r)'
          BY <3>1, <4>1, <4>2 DEF PassInv
      <4>5. RefusalInv(r)'
          BY <3>1, <4>1, <4>2 DEF RefusalInv
      <4> QED BY <4>3, <4>4, <4>5
    <3> QED BY <2>1, <3>2, <3>3 DEF PipelineInv, vars
  <2>2. CASE Next
    <3>1. sc' = sc /\ Record
        BY <2>2 DEF Next
    <3>2. CASE BillingStep /\ UNCHANGED <<accountVars, authorVars, startVars>>
        BY <3>1, <3>2, BillingKeeps
    <3>3. CASE Account /\ UNCHANGED <<billingVars, authorVars, startVars>>
        BY <3>1, <3>3, AccountKeeps
    <3>4. CASE Authoring /\ UNCHANGED <<billingVars, accountVars, startVars>>
        BY <3>1, <3>4, AuthoringKeeps
    <3>5. ASSUME NEW r \in DOMAIN sc.starts, Start(r),
                 UNCHANGED <<billingVars, accountVars, authorVars>>
          PROVE  PipelineInv'
        BY <3>1, <3>5, ArriveKeeps, SubscriptionKeeps, TwoFactorKeeps, KeyKeeps, LooksKeeps,
           InsertsKeeps, FailsKeeps, LaunchKeeps DEF Start
    <3>6. ASSUME NEW b \in Bots, BotEnds(b), UNCHANGED <<billingVars, accountVars, authorVars>>
          PROVE  PipelineInv'
        BY <3>1, <3>6, BotEndsKeeps
    <3> QED BY <2>2, <3>2, <3>3, <3>4, <3>5, <3>6 DEF Next
  <2> QED BY <2>1, <2>2
<1> QED BY PipelineInit, <1>1, PTL DEF Spec

\* A bot that runs was accepted everywhere and has its row, and a refusal has
\* its reason: the property the run checks.
THEOREM StartsSettled == Spec => []StartsSettle
<1>1. PipelineInv => StartsSettle
  <2> SUFFICES ASSUME PipelineInv PROVE StartsSettle
      OBVIOUS
  <2>1. ASSUME NEW b \in Bots, bots[b] # None PROVE rows[b] # None /\ Acceptable(bots[b])
    <3>1. bots[b] \in DOMAIN sc.starts /\ pc[bots[b]] = "started" /\ rows[b] # None
        BY <2>1 DEF PipelineInv, BotInv, Started
    <3> QED BY <3>1 DEF PipelineInv, PassInv, Acceptable
  <2> QED BY <2>1 DEF PipelineInv, RefusalInv, StartsSettle
<1> QED BY <1>1, PipelineInductive, PTL

\* A step that starts a bot is its launch, which had every gate open once.
THEOREM GatesHeld == Spec => GatesHold
<1>1. PipelineInv => (user.enabled => user.secret \in proven)
    BY DEF PipelineInv, AccountInv
<1>2. PipelineInv /\ [Next]_vars =>
          [\A r \in Started' \ Started : Needs(r) \cap shut[r] \cap ShutGates' = {}]_vars
  <2> SUFFICES ASSUME PipelineInv, Next, NEW r \in Started' \ Started
               PROVE  Needs(r) \cap shut[r] = {}
      OBVIOUS
  <2>1. /\ sc' = sc /\ r \in DOMAIN sc.starts /\ pc'[r] = "started" /\ pc[r] # "started"
        /\ r \in Requests /\ pc \in [Requests -> Places \cup Answers]
      BY RequestsOK DEF Next, Started, PipelineInv, Types
  <2>2. PICK q \in DOMAIN sc.starts : Start(q)
      BY <2>1 DEF Next, startVars, BotEnds
  <2>3. q \in Requests
      BY RequestsOK DEF PipelineInv, Types
  <2>4. \A from, to : Step(q, from, to) /\ to # "started" => pc'[r] # "started"
      BY <2>1, <2>3 DEF Step
  <2>5. Launch(q)
    <3>1. ~Arrive(q) /\ ~GateSubscription(q) /\ ~GateTwoFactor(q) /\ ~GateKey(q)
        BY <2>1, <2>4 DEF Arrive, GateSubscription, GateTwoFactor, GateKey
    <3>2. ~LaunchLooks(q) /\ ~LaunchFails(q)
        BY <2>1, <2>4 DEF LaunchLooks, LaunchFails
    <3>3. ~LaunchInserts(q)
        BY <2>1, <2>3 DEF LaunchInserts
    <3> QED BY <2>2, <3>1, <3>2, <3>3 DEF Start
  <2>6. q = r
      BY <2>1, <2>3, <2>5 DEF Launch
  <2> QED BY <2>1, <2>5, <2>6 DEF Launch, PipelineInv, GateInv
<1> QED BY <1>1, <1>2, PipelineInductive, PTL DEF Spec, GatesHold

\* The subscription is as right as it is on its own: a step of the pipeline is
\* one of Billing or leaves its variables alone.
THEOREM SubscriptionRowSettles == Spec => []RowSettles
<1>1. Init => BillingInit
    BY DEF Init
<1>2. PipelineInv /\ [Next]_vars => [BillingNext]_billingVars
  <2> SUFFICES ASSUME PipelineInv, [Next]_vars PROVE BillingNext \/ UNCHANGED billingVars
      OBVIOUS
  <2>1. CASE BillingStep
    <3>1. sc.checkouts \subseteq Checkouts /\ sc.statuses \in Nat
        BY PipelineAssumption DEF PipelineInv, Types
    <3> QED BY <2>1, <3>1 DEF BillingStep, BillingNext
  <2>2. CASE ~BillingStep
      BY <2>2 DEF Next, vars
  <2> QED BY <2>1, <2>2
<1>3. BillingInit /\ [][BillingNext]_billingVars => []RowSettles
    BY SubscriptionSettles DEF BillingSpec
<1> QED BY <1>1, <1>2, <1>3, PipelineInductive, PTL DEF Spec

\* A save the editor does not warn of is the strategy that was authored: the
\* form holds what was authored, and whatever the editor rebuilds from it is
\* that, or the operator was warned.
THEOREM EditorFaithful == Spec => []WarnedOrFaithful
<1>1. PipelineInv => WarnedOrFaithful
  <2>1. CASE form = None
      BY <2>1 DEF WarnedOrFaithful
  <2>2. SUFFICES ASSUME PipelineInv, form # None PROVE WarnedOrFaithful
      BY <2>1
  <2>3. /\ author.result \in sc.ideas /\ SchemaAccepts(author.result)
        /\ Builds(author.result) /\ form = AuthoredToForm(author.result)
      BY <2>2 DEF PipelineInv, AuthorInv
  <2>4. RulesConfig(author.result)
      BY <2>2, <2>3, PipelineAssumption DEF PipelineInv, Types
  <2> QED BY <2>3, <2>4, EditorOK
<1> QED BY <1>1, PipelineInductive, PTL
=============================================================================
