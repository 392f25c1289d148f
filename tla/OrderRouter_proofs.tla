------------------------- MODULE OrderRouter_proofs -------------------------
(***************************************************************************)
(* Theorems about OrderRouter, for any orders, kills and faults: typing,   *)
(* the inductive invariant, and the safety properties that follow.         *)
(***************************************************************************)
EXTENDS OrderRouter, TLAPS

-----------------------------------------------------------------------------
\* What holds of the submit in progress.
SubmitInv ==
    /\ pc \in {"idle", "trip", "over"} => cur = NoSubmit
    /\ pc \in {"place", "persist", "pub_order", "pub_fill"} => cur.order \in Orders
    /\ pc \in {"place", "persist"} => row[cur.order] = "none"
    /\ pc \in {"pub_order", "pub_fill"} =>
          /\ row[cur.order] # "none"
          /\ <<"order.submitted", cur.order>> \in audit
          /\ cur.fill => cur.order \in fillRows
    /\ pc = "pub_fill" => cur.fill
    /\ pc = "persist" /\ venue[cur.order] = "resting"
          => cur.status = "submitted" /\ ~cur.fill

\* Somebody can still cancel o, or it was in hand when an await broke.
InReach(o) == o \in open \/ o \in lost \/ \E c \in Callers : o \in todo[c]

\* RestingIsAccountedFor, strengthened: while submit publishes, its order is
\* already in reach.
ReachInv ==
    \A o \in Orders :
        venue[o] = "resting" =>
            InReach(o) \/ (pc \in {"place", "persist"} /\ o = cur.order)

\* What holds of a cancel_open in progress.
CancelInv ==
    /\ cpc[Task] \in {"begin", "venue", "publish"} => pc = "trip"
    /\ \A c \in Callers :
          /\ cpc[c] \notin {"venue", "publish"} => todo[c] = {} /\ done[c] = {}
          /\ cpc[c] = "publish" => todo[c] = {}
          /\ \A o \in done[c] :
                /\ ~Standing(o)
                /\ cpc[c] = "publish" =>
                      row[o] = "cancelled" /\ <<"order.cancelled", o>> \in audit

\* Every order that is tracked or in a caller's hands has a row.
RowInv ==
    /\ \A o \in open : row[o] # "none"
    /\ \A c \in Callers : \A o \in Held(c) : row[o] # "none"

FeedInv ==
    /\ feed.at # "idle" => feed.order \in Orders
    /\ feed.at = "publish" => feed.order \in fillRows

\* The inductive invariant.
IInv ==
    /\ TypeOK /\ SubmitInv /\ ReachInv /\ CancelInv /\ RowInv /\ FeedInv
    /\ PaperTrail /\ AuditAgrees /\ OneHandPerOrder /\ CancelledIsWithdrawn

-----------------------------------------------------------------------------
\* The order being placed or persisted is in nobody's hands yet.
LEMMA SubmittedIsUntouched ==
    ASSUME TypeOK, SubmitInv, RowInv, pc \in {"place", "persist"}
    PROVE  /\ cur.order \in Orders
           /\ cur.order \notin open
           /\ \A c \in Callers : cur.order \notin todo[c] /\ cur.order \notin done[c]
BY DEF SubmitInv, RowInv, Held

\* What place_order may answer is typed, and only an acknowledged order without
\* a fill rests.
LEMMA AnswersTyped ==
    ASSUME NEW a \in Answers
    PROVE  /\ a[1] \in Statuses /\ a[2] \in BOOLEAN
           /\ Outcome(a[1], a[2]) \in {"none", "resting", "partial", "filled", "cancelled"}
           /\ Outcome(a[1], a[2]) = "resting" => a[1] = "submitted" /\ ~a[2]
<1>1. a[1] \in Statuses /\ a[2] \in BOOLEAN
  BY DEF Answers
<1> QED BY <1>1 DEF Outcome, Statuses

\* What the transaction of _persist_order writes.
LEMMA OrderWritten ==
    ASSUME TypeOK, cur.order \in Orders, WriteOrder
    PROVE  /\ row' \in [Orders -> Statuses \cup {"none", "cancelled"}]
           /\ audit' \subseteq {"order.submitted", "order.cancelled"} \X Orders
           /\ fillRows' \subseteq Orders
           /\ row'[cur.order] \notin {"none", "cancelled"}
           /\ \A o \in Orders :
                 /\ o # cur.order => row'[o] = row[o]
                 /\ <<"order.submitted", o>> \in audit' <=>
                       <<"order.submitted", o>> \in audit \/ o = cur.order
                 /\ <<"order.cancelled", o>> \in audit' <=> <<"order.cancelled", o>> \in audit
           /\ fillRows \subseteq fillRows'
           /\ cur.fill => cur.order \in fillRows'
<1> USE DEF TypeOK, WriteOrder
<1>1. cur.status \in Statuses
  OBVIOUS
<1>2. <<"order.submitted", cur.order>> \in {"order.submitted", "order.cancelled"} \X Orders
  OBVIOUS
<1>3. /\ row' \in [Orders -> Statuses \cup {"none", "cancelled"}]
      /\ row'[cur.order] \notin {"none", "cancelled"}
      /\ \A o \in Orders : o # cur.order => row'[o] = row[o]
  BY <1>1 DEF Statuses
<1>4. audit' \subseteq {"order.submitted", "order.cancelled"} \X Orders
  BY <1>2
<1>5. ASSUME NEW o \in Orders
      PROVE  /\ <<"order.submitted", o>> \in audit' <=>
                   <<"order.submitted", o>> \in audit \/ o = cur.order
             /\ <<"order.cancelled", o>> \in audit' <=> <<"order.cancelled", o>> \in audit
  OBVIOUS
<1>6. fillRows' \subseteq Orders /\ fillRows \subseteq fillRows' /\ (cur.fill => cur.order \in fillRows')
  OBVIOUS
<1> QED BY <1>3, <1>4, <1>5, <1>6

\* What the transaction of cancel_open writes.
LEMMA CancelsWritten ==
    ASSUME TypeOK, NEW c \in Callers, WriteCancels(c)
    PROVE  /\ row' \in [Orders -> Statuses \cup {"none", "cancelled"}]
           /\ audit' \subseteq {"order.submitted", "order.cancelled"} \X Orders
           /\ fillRows' = fillRows
           /\ \A o \in Orders :
                 /\ row'[o] = IF o \in done[c] THEN "cancelled" ELSE row[o]
                 /\ <<"order.cancelled", o>> \in audit' <=>
                       <<"order.cancelled", o>> \in audit \/ o \in done[c]
                 /\ <<"order.submitted", o>> \in audit' <=> <<"order.submitted", o>> \in audit
<1> USE DEF TypeOK, WriteCancels
<1>1. /\ row' \in [Orders -> Statuses \cup {"none", "cancelled"}]
      /\ \A o \in Orders : row'[o] = IF o \in done[c] THEN "cancelled" ELSE row[o]
      /\ fillRows' = fillRows
  OBVIOUS
<1>2. done[c] \subseteq Orders
  OBVIOUS
<1>3. audit' \subseteq {"order.submitted", "order.cancelled"} \X Orders
  BY <1>2
<1>4. ASSUME NEW o \in Orders
      PROVE  /\ <<"order.cancelled", o>> \in audit' <=>
                   <<"order.cancelled", o>> \in audit \/ o \in done[c]
             /\ <<"order.submitted", o>> \in audit' <=> <<"order.submitted", o>> \in audit
  OBVIOUS
<1> QED BY <1>1, <1>3, <1>4

-----------------------------------------------------------------------------
(***************************************************************************)
(* Each action keeps the inductive invariant.                              *)
(***************************************************************************)

\* place_order is sent for an order nobody has seen.
LEMMA SubmitKeeps ==
    ASSUME IInv, NEW o \in Orders, Submit(o)
    PROVE  IInv'
<1> USE DEF IInv, Submit, cancelVars, dbVars
<1>1. TypeOK'
  BY DEF TypeOK, SubmitInv
<1>2. SubmitInv'
  BY DEF SubmitInv
<1>3. ReachInv'
  BY DEF ReachInv, InReach
<1>4. CancelInv'
  BY DEF CancelInv, Standing
<1>5. /\ RowInv' /\ FeedInv' /\ PaperTrail' /\ AuditAgrees'
      /\ OneHandPerOrder' /\ CancelledIsWithdrawn'
  BY DEF RowInv, FeedInv, PaperTrail, AuditAgrees, OneHandPerOrder,
     CancelledIsWithdrawn, Held, Standing
<1> QED BY <1>1, <1>2, <1>3, <1>4, <1>5

\* The venue answers: an order that rests is accounted for by the submit.
LEMMA PlacedKeeps ==
    ASSUME IInv, Placed
    PROVE  IInv'
<1> USE DEF IInv, Placed, cancelVars, dbVars
<1>1. TypeOK'
  <2>1. PICK a \in Answers :
          /\ venue' = [venue EXCEPT ![cur.order] = Outcome(a[1], a[2])]
          /\ cur' = [cur EXCEPT !.status = a[1], !.fill = a[2]]
    OBVIOUS
  <2>2. /\ a[1] \in Statuses /\ a[2] \in BOOLEAN
        /\ Outcome(a[1], a[2]) \in {"none", "resting", "partial", "filled", "cancelled"}
    BY AnswersTyped
  <2>3. /\ venue' \in [Orders -> {"none", "resting", "partial", "filled", "cancelled"}]
        /\ cur' \in [order : Orders \cup {NoOrder}, status : Statuses, fill : BOOLEAN]
    BY <2>1, <2>2 DEF TypeOK
  <2> QED BY <2>3 DEF TypeOK
<1>2. SubmitInv'
  BY DEF SubmitInv, TypeOK, Answers, Outcome, Statuses
<1>3. ReachInv'
  BY DEF ReachInv, InReach
<1>4. CancelInv'
  <2>1. \A c \in Callers : \A o \in done[c] : venue'[o] = venue[o]
    BY SubmittedIsUntouched
  <2> QED BY <2>1 DEF CancelInv, Standing
<1>5. CancelledIsWithdrawn'
  BY DEF CancelledIsWithdrawn, SubmitInv, Standing
<1>6. /\ RowInv' /\ FeedInv' /\ PaperTrail'
      /\ AuditAgrees' /\ OneHandPerOrder'
  BY DEF RowInv, FeedInv, PaperTrail, AuditAgrees, OneHandPerOrder, Held
<1> QED BY <1>1, <1>2, <1>3, <1>4, <1>5, <1>6

\* place_order raises: the order is one that was in hand.
LEMMA PlaceBreaksKeeps ==
    ASSUME IInv, PlaceBreaks
    PROVE  IInv'
<1> USE DEF IInv, PlaceBreaks, cancelVars, dbVars
<1>1. TypeOK'
  <2>1. PICK a \in Answers : venue' = [venue EXCEPT ![cur.order] = Outcome(a[1], a[2])]
    OBVIOUS
  <2>2. Outcome(a[1], a[2]) \in {"none", "resting", "partial", "filled", "cancelled"}
    BY AnswersTyped
  <2>3. cur.order \in Orders
    BY DEF SubmitInv
  <2>4. venue' \in [Orders -> {"none", "resting", "partial", "filled", "cancelled"}]
    BY <2>1, <2>2 DEF TypeOK
  <2>5. lost' \subseteq Orders
    BY <2>3 DEF TypeOK
  <2>6. cur' \in [order : Orders \cup {NoOrder}, status : Statuses, fill : BOOLEAN]
    BY DEF WorkerEnds, NoSubmit, Statuses
  <2> QED BY <2>4, <2>5, <2>6 DEF TypeOK, WorkerEnds
<1>2. SubmitInv'
  BY DEF SubmitInv, WorkerEnds
<1>3. ReachInv'
  BY DEF ReachInv, InReach
<1>4. CancelInv'
  <2>1. \A c \in Callers : \A o \in done[c] : venue'[o] = venue[o]
    BY SubmittedIsUntouched
  <2> QED BY <2>1 DEF CancelInv, Standing
<1>5. CancelledIsWithdrawn'
  BY DEF CancelledIsWithdrawn, SubmitInv, Standing
<1>6. /\ RowInv' /\ FeedInv' /\ PaperTrail'
      /\ AuditAgrees' /\ OneHandPerOrder'
  BY DEF RowInv, FeedInv, PaperTrail, AuditAgrees, OneHandPerOrder, Held
<1> QED BY <1>1, <1>2, <1>3, <1>4, <1>5, <1>6

\* The order gets its row, its fills and its audit row, and is tracked if it rests.
LEMMA PersistedKeeps ==
    ASSUME IInv, Persisted
    PROVE  IInv'
<1> USE DEF IInv, Persisted, cancelVars
<1>a. /\ cur.order \in Orders /\ row[cur.order] = "none"
      /\ \A c \in Callers : \A o \in todo[c] \cup done[c] : o # cur.order /\ o \in Orders
      /\ \A o \in open : o # cur.order /\ o \in Orders
  BY SubmittedIsUntouched DEF SubmitInv, TypeOK
<1>b. WriteOrder =>
         /\ row'[cur.order] \notin {"none", "cancelled"}
         /\ \A o \in Orders :
               /\ o # cur.order => row'[o] = row[o]
               /\ <<"order.submitted", o>> \in audit' <=>
                     <<"order.submitted", o>> \in audit \/ o = cur.order
               /\ <<"order.cancelled", o>> \in audit' <=> <<"order.cancelled", o>> \in audit
         /\ fillRows \subseteq fillRows'
  BY <1>a, OrderWritten
<1>1. TypeOK'
  BY OrderWritten DEF TypeOK, SubmitInv, Tracks
<1>2. SubmitInv'
  BY OrderWritten DEF SubmitInv
<1>3. ReachInv'
  BY DEF ReachInv, SubmitInv, Tracks, InReach
<1>4. CancelInv'
  BY <1>a, <1>b DEF CancelInv, Standing
<1>5. RowInv'
  BY <1>a, <1>b DEF RowInv, Held, Tracks
<1>6. FeedInv'
  BY OrderWritten, SubmittedIsUntouched DEF FeedInv
<1>7. PaperTrail'
  BY <1>a, <1>b DEF PaperTrail
<1>8. AuditAgrees'
  BY <1>a, <1>b DEF AuditAgrees
<1>9. OneHandPerOrder'
  BY SubmittedIsUntouched DEF OneHandPerOrder, Held, Tracks
<1>10. CancelledIsWithdrawn'
  BY <1>a, <1>b DEF CancelledIsWithdrawn, Standing
<1> QED BY <1>1, <1>2, <1>3, <1>4, <1>5, <1>6, <1>7, <1>8, <1>9, <1>10

\* The transaction breaks, with or without effect.
LEMMA PersistBreaksKeeps ==
    ASSUME IInv, PersistBreaks
    PROVE  IInv'
<1> USE DEF IInv, PersistBreaks, cancelVars, dbVars
<1>a. /\ cur.order \in Orders /\ row[cur.order] = "none"
      /\ \A c \in Callers : \A o \in todo[c] \cup done[c] : o # cur.order /\ o \in Orders
      /\ \A o \in open : o # cur.order /\ o \in Orders
  BY SubmittedIsUntouched DEF SubmitInv, TypeOK
<1>b. WriteOrder =>
         /\ row'[cur.order] \notin {"none", "cancelled"}
         /\ \A o \in Orders :
               /\ o # cur.order => row'[o] = row[o]
               /\ <<"order.submitted", o>> \in audit' <=>
                     <<"order.submitted", o>> \in audit \/ o = cur.order
               /\ <<"order.cancelled", o>> \in audit' <=> <<"order.cancelled", o>> \in audit
         /\ fillRows \subseteq fillRows'
  BY <1>a, OrderWritten
<1>1. TypeOK'
  <2>1. CASE WriteOrder
    BY <2>1, OrderWritten, SubmittedIsUntouched
       DEF TypeOK, WorkerEnds, NoSubmit, Statuses
  <2>2. CASE UNCHANGED dbVars
    BY <2>2, SubmittedIsUntouched DEF TypeOK, WorkerEnds, NoSubmit, Statuses
  <2> QED BY <2>1, <2>2
<1>2. SubmitInv'
  <2>1. CASE WriteOrder
    BY <2>1 DEF SubmitInv, WorkerEnds
  <2>2. CASE UNCHANGED dbVars
    BY <2>2 DEF SubmitInv, WorkerEnds
  <2> QED BY <2>1, <2>2
<1>3. ReachInv'
  <2>1. CASE WriteOrder
    BY <2>1 DEF ReachInv, InReach
  <2>2. CASE UNCHANGED dbVars
    BY <2>2 DEF ReachInv, InReach
  <2> QED BY <2>1, <2>2
<1>4. CancelInv'
  <2>1. CASE WriteOrder
    BY <2>1, <1>a, <1>b DEF CancelInv, Standing
  <2>2. CASE UNCHANGED dbVars
    BY <2>2, <1>a DEF CancelInv, Standing
  <2> QED BY <2>1, <2>2
<1>5. RowInv'
  <2>1. CASE WriteOrder
    BY <2>1, <1>a, <1>b DEF RowInv, Held
  <2>2. CASE UNCHANGED dbVars
    BY <2>2, <1>a DEF RowInv, Held
  <2> QED BY <2>1, <2>2
<1>6. FeedInv'
  <2>1. CASE WriteOrder
    BY <2>1, OrderWritten, SubmittedIsUntouched DEF FeedInv
  <2>2. CASE UNCHANGED dbVars
    BY <2>2 DEF FeedInv
  <2> QED BY <2>1, <2>2
<1>7. PaperTrail'
  <2>1. CASE WriteOrder
    BY <2>1, <1>a, <1>b DEF PaperTrail
  <2>2. CASE UNCHANGED dbVars
    BY <2>2, <1>a DEF PaperTrail
  <2> QED BY <2>1, <2>2
<1>8. AuditAgrees'
  <2>1. CASE WriteOrder
    BY <2>1, <1>a, <1>b DEF AuditAgrees
  <2>2. CASE UNCHANGED dbVars
    BY <2>2, <1>a DEF AuditAgrees
  <2> QED BY <2>1, <2>2
<1>9. CancelledIsWithdrawn'
  <2>1. CASE WriteOrder
    BY <2>1, <1>a, <1>b DEF CancelledIsWithdrawn, Standing
  <2>2. CASE UNCHANGED dbVars
    BY <2>2, <1>a DEF CancelledIsWithdrawn, Standing
  <2> QED BY <2>1, <2>2
<1>10. OneHandPerOrder'
  BY DEF OneHandPerOrder, Held
<1> QED BY <1>1, <1>2, <1>3, <1>4, <1>5, <1>6, <1>7, <1>8, <1>9, <1>10

\* order_submitted goes out for an order with its rows.
LEMMA OrderPublishedKeeps ==
    ASSUME IInv, OrderPublished
    PROVE  IInv'
<1> USE DEF IInv, OrderPublished, cancelVars, dbVars
<1>1. TypeOK'
  <2>1. <<"order_submitted", cur.order>> \in {"order_submitted", "fill", "order_cancelled"} \X Orders
    BY DEF SubmitInv
  <2>2. published' \subseteq {"order_submitted", "fill", "order_cancelled"} \X Orders
    BY <2>1 DEF TypeOK
  <2>3. /\ cur' \in [order : Orders \cup {NoOrder}, status : Statuses, fill : BOOLEAN]
        /\ pc' \in {"pub_fill", "idle"}
    <3>1. CASE cur.fill
      BY <3>1 DEF TypeOK
    <3>2. CASE ~cur.fill
      <4>1. pc' = "idle" /\ cur' = NoSubmit
        BY <3>2, Zenon
      <4> QED BY <4>1 DEF NoSubmit, Statuses
    <3> QED BY <3>1, <3>2
  <2> QED BY <2>2, <2>3 DEF TypeOK
<1>2. SubmitInv'
  BY DEF SubmitInv
<1>3. ReachInv'
  BY DEF ReachInv, InReach
<1>4. CancelInv'
  BY DEF CancelInv, Standing
<1>5. PaperTrail'
  BY DEF PaperTrail, SubmitInv
<1>6. /\ RowInv' /\ FeedInv' /\ AuditAgrees'
      /\ OneHandPerOrder' /\ CancelledIsWithdrawn'
  BY DEF RowInv, FeedInv, AuditAgrees, OneHandPerOrder, CancelledIsWithdrawn,
     Held, Standing
<1> QED BY <1>1, <1>2, <1>3, <1>4, <1>5, <1>6

\* A fill goes out for an order with a fills row.
LEMMA FillPublishedKeeps ==
    ASSUME IInv, FillPublished
    PROVE  IInv'
<1> USE DEF IInv, FillPublished, cancelVars, dbVars
<1>1. TypeOK'
  <2>1. <<"fill", cur.order>> \in {"order_submitted", "fill", "order_cancelled"} \X Orders
    BY DEF SubmitInv
  <2>2. published' \subseteq {"order_submitted", "fill", "order_cancelled"} \X Orders
    BY <2>1 DEF TypeOK
  <2> QED BY <2>2 DEF TypeOK, NoSubmit, Statuses
<1>2. SubmitInv'
  BY DEF SubmitInv
<1>3. ReachInv'
  BY DEF ReachInv, InReach
<1>4. CancelInv'
  BY DEF CancelInv, Standing
<1>5. PaperTrail'
  BY DEF PaperTrail, SubmitInv
<1>6. /\ RowInv' /\ FeedInv' /\ AuditAgrees'
      /\ OneHandPerOrder' /\ CancelledIsWithdrawn'
  BY DEF RowInv, FeedInv, AuditAgrees, OneHandPerOrder, CancelledIsWithdrawn,
     Held, Standing
<1> QED BY <1>1, <1>2, <1>3, <1>4, <1>5, <1>6

\* The publish breaks, with or without effect.
LEMMA PublishBreaksKeeps ==
    ASSUME IInv, PublishBreaks
    PROVE  IInv'
<1> USE DEF IInv, PublishBreaks, cancelVars, dbVars
<1>1. TypeOK'
  <2>1. /\ <<"order_submitted", cur.order>> \in {"order_submitted", "fill", "order_cancelled"} \X Orders
        /\ <<"fill", cur.order>> \in {"order_submitted", "fill", "order_cancelled"} \X Orders
    BY DEF SubmitInv
  <2>2. published' \subseteq {"order_submitted", "fill", "order_cancelled"} \X Orders
    BY <2>1 DEF TypeOK
  <2> QED BY <2>2 DEF TypeOK, WorkerEnds, NoSubmit, Statuses
<1>2. SubmitInv'
  BY DEF SubmitInv, WorkerEnds
<1>3. ReachInv'
  BY DEF ReachInv, InReach
<1>4. CancelInv'
  BY DEF CancelInv, Standing
<1>5. PaperTrail'
  <2>1. /\ cur.order \in Orders /\ row[cur.order] # "none"
        /\ <<"order.submitted", cur.order>> \in audit
        /\ pc = "pub_fill" => cur.order \in fillRows
    BY DEF SubmitInv
  <2>2. CASE pc = "pub_order"
    <3>1. published' \in {published, published \cup {<<"order_submitted", cur.order>>}}
      BY <2>2
    <3>2. \A o \in Orders :
             /\ <<"order_submitted", o>> \in published' =>
                   <<"order_submitted", o>> \in published \/ o = cur.order
             /\ <<"fill", o>> \in published' => <<"fill", o>> \in published
             /\ <<"order_cancelled", o>> \in published' => <<"order_cancelled", o>> \in published
      BY <3>1
    <3> QED BY <2>1, <3>2 DEF PaperTrail
  <2>3. CASE pc = "pub_fill"
    <3>1. published' \in {published, published \cup {<<"fill", cur.order>>}}
      BY <2>3
    <3>2. \A o \in Orders :
             /\ <<"order_submitted", o>> \in published' => <<"order_submitted", o>> \in published
             /\ <<"fill", o>> \in published' => <<"fill", o>> \in published \/ o = cur.order
             /\ <<"order_cancelled", o>> \in published' => <<"order_cancelled", o>> \in published
      BY <3>1
    <3> QED BY <2>1, <2>3, <3>2 DEF PaperTrail
  <2> QED BY <2>2, <2>3
<1>6. /\ RowInv' /\ FeedInv' /\ AuditAgrees'
      /\ OneHandPerOrder' /\ CancelledIsWithdrawn'
  BY DEF RowInv, FeedInv, AuditAgrees, OneHandPerOrder, CancelledIsWithdrawn,
     Held, Standing
<1> QED BY <1>1, <1>2, <1>3, <1>4, <1>5, <1>6

\* The worker leaves between two submits.
LEMMA WorkerLeavesKeeps ==
    ASSUME IInv, WorkerLeaves
    PROVE  IInv'
<1> USE DEF IInv, WorkerLeaves, cancelVars, dbVars
<1>1. TypeOK'
  BY DEF TypeOK, SubmitInv, WorkerEnds
<1>2. SubmitInv'
  BY DEF SubmitInv, WorkerEnds
<1>3. ReachInv'
  BY DEF ReachInv, InReach
<1>4. CancelInv'
  BY DEF CancelInv, Standing
<1>5. /\ RowInv' /\ FeedInv' /\ PaperTrail' /\ AuditAgrees'
      /\ OneHandPerOrder' /\ CancelledIsWithdrawn'
  BY DEF RowInv, FeedInv, PaperTrail, AuditAgrees, OneHandPerOrder,
     CancelledIsWithdrawn, Held, Standing
<1> QED BY <1>1, <1>2, <1>3, <1>4, <1>5

\* The breaker trips between two submits.
LEMMA TripKeeps ==
    ASSUME IInv, Trip
    PROVE  IInv'
<1> USE DEF IInv, Trip, dbVars
<1>1. TypeOK'
  BY DEF TypeOK
<1>2. SubmitInv'
  BY DEF SubmitInv
<1>3. ReachInv'
  BY DEF ReachInv, InReach
<1>4. CancelInv'
  BY DEF CancelInv, Standing
<1>5. /\ RowInv' /\ FeedInv' /\ PaperTrail' /\ AuditAgrees'
      /\ OneHandPerOrder' /\ CancelledIsWithdrawn'
  BY DEF RowInv, FeedInv, PaperTrail, AuditAgrees, OneHandPerOrder,
     CancelledIsWithdrawn, Held, Standing
<1> QED BY <1>1, <1>2, <1>3, <1>4, <1>5

\* A stop only interrupts.
LEMMA StopKeeps ==
    ASSUME IInv, Stop
    PROVE  IInv'
<1> USE DEF IInv, Stop, cancelVars, dbVars, workVars
<1>1. TypeOK'
  BY DEF TypeOK
<1>2. /\ SubmitInv' /\ ReachInv' /\ CancelInv' /\ RowInv' /\ FeedInv'
      /\ PaperTrail' /\ AuditAgrees' /\ OneHandPerOrder' /\ CancelledIsWithdrawn'
  BY DEF SubmitInv, ReachInv, CancelInv, RowInv, FeedInv, PaperTrail, AuditAgrees,
     OneHandPerOrder, CancelledIsWithdrawn, InReach, Standing, Held
<1> QED BY <1>1, <1>2

\* A kill only interrupts and queues up.
LEMMA KillKeeps ==
    ASSUME IInv, NEW k \in Kills, Kill(k)
    PROVE  IInv'
<1> USE DEF IInv, Kill, dbVars, workVars
<1>1. TypeOK'
  BY DEF TypeOK
<1>2. CancelInv'
  BY RouterAssumption DEF CancelInv, Standing
<1>3. /\ SubmitInv' /\ ReachInv' /\ RowInv' /\ FeedInv' /\ PaperTrail'
      /\ AuditAgrees' /\ OneHandPerOrder' /\ CancelledIsWithdrawn'
  BY DEF SubmitInv, ReachInv, RowInv, FeedInv, PaperTrail, AuditAgrees,
     OneHandPerOrder, CancelledIsWithdrawn, InReach, Held, Standing
<1> QED BY <1>1, <1>2, <1>3

\* The tripped worker ends before it takes any order.
LEMMA TripBreaksKeeps ==
    ASSUME IInv, TripBreaks
    PROVE  IInv'
<1> USE DEF IInv, TripBreaks, dbVars
<1>1. TypeOK'
  BY DEF TypeOK, CallerEnds
<1>2. SubmitInv'
  BY DEF SubmitInv, CancelInv, CallerEnds
<1>3. ReachInv'
  BY DEF ReachInv, CancelInv, CallerEnds, InReach
<1>4. CancelInv'
  BY DEF CancelInv, TypeOK, CallerEnds, Standing, Callers
<1>5. RowInv'
  BY DEF RowInv, CallerEnds, Held
<1>6. OneHandPerOrder'
  BY DEF OneHandPerOrder, CallerEnds, Held
<1>7. FeedInv' /\ PaperTrail' /\ AuditAgrees' /\ CancelledIsWithdrawn'
  BY DEF FeedInv, PaperTrail, AuditAgrees, CancelledIsWithdrawn, Standing
<1> QED BY <1>1, <1>2, <1>3, <1>4, <1>5, <1>6, <1>7

\* The tracked orders pass into the hands of one caller.
LEMMA BeginCancelKeeps ==
    ASSUME IInv, NEW c \in Callers, BeginCancel(c)
    PROVE  IInv'
<1> USE DEF IInv, BeginCancel, dbVars
<1>1. TypeOK'
  BY DEF TypeOK, CallerEnds
<1>2. SubmitInv'
  BY DEF SubmitInv, CancelInv, CallerEnds
<1>3. ReachInv'
  BY DEF ReachInv, TypeOK, CancelInv, CallerEnds, InReach
<1>4. CancelInv'
  BY DEF CancelInv, TypeOK, CallerEnds, Standing, Callers
<1>5. RowInv'
  BY DEF RowInv, TypeOK, CallerEnds, Held
<1>6. OneHandPerOrder'
  BY DEF OneHandPerOrder, TypeOK, CallerEnds, Held
<1>7. FeedInv' /\ PaperTrail' /\ AuditAgrees' /\ CancelledIsWithdrawn'
  BY DEF FeedInv, PaperTrail, AuditAgrees, CancelledIsWithdrawn, Standing
<1> QED BY <1>1, <1>2, <1>3, <1>4, <1>5, <1>6, <1>7

\* One order is withdrawn.
LEMMA CancelAtVenueKeeps ==
    ASSUME IInv, NEW c \in Callers, NEW o \in Orders, CancelAtVenue(c, o)
    PROVE  IInv'
<1> USE DEF IInv, CancelAtVenue, dbVars, workVars
<1>1. TypeOK'
  BY DEF TypeOK, Withdrawn
<1>2. SubmitInv'
  BY DEF SubmitInv, Withdrawn
<1>3. ReachInv'
  BY DEF ReachInv, TypeOK, Standing, Withdrawn, InReach
<1>4. CancelInv'
  BY DEF CancelInv, TypeOK, Standing, Withdrawn
<1>5. RowInv'
  BY DEF RowInv, Held
<1>6. OneHandPerOrder'
  BY DEF OneHandPerOrder, Held
<1>7. CancelledIsWithdrawn'
  BY DEF CancelledIsWithdrawn, Standing, Withdrawn
<1>8. FeedInv' /\ PaperTrail' /\ AuditAgrees'
  BY DEF FeedInv, PaperTrail, AuditAgrees
<1> QED BY <1>1, <1>2, <1>3, <1>4, <1>5, <1>6, <1>7, <1>8

\* The call fails with what it had in hand.
LEMMA CancelRefusedKeeps ==
    ASSUME IInv, NEW c \in Callers, NEW o \in Orders, CancelRefused(c, o)
    PROVE  IInv'
<1> USE DEF IInv, CancelRefused, dbVars
<1>1. TypeOK'
  BY DEF TypeOK, CallerEnds
<1>2. SubmitInv'
  BY DEF SubmitInv, CancelInv, CallerEnds
<1>3. ReachInv'
  BY DEF ReachInv, CancelInv, CallerEnds, InReach
<1>4. CancelInv'
  BY DEF CancelInv, TypeOK, CallerEnds, Standing
<1>5. RowInv'
  BY DEF RowInv, CallerEnds, Held
<1>6. OneHandPerOrder'
  BY DEF OneHandPerOrder, CallerEnds, Held
<1>7. FeedInv' /\ PaperTrail' /\ AuditAgrees' /\ CancelledIsWithdrawn'
  BY DEF FeedInv, PaperTrail, AuditAgrees, CancelledIsWithdrawn, Standing
<1> QED BY <1>1, <1>2, <1>3, <1>4, <1>5, <1>6, <1>7

\* The call fails with what it had in hand, one order perhaps withdrawn.
LEMMA CancelBreaksKeeps ==
    ASSUME IInv, NEW c \in Callers, CancelBreaks(c)
    PROVE  IInv'
<1> USE DEF IInv, CancelBreaks, dbVars
<1>1. TypeOK'
  BY DEF TypeOK, CallerEnds, Withdrawn
<1>2. SubmitInv'
  BY DEF SubmitInv, TypeOK, CancelInv, CallerEnds, Withdrawn
<1>3. ReachInv'
  BY DEF ReachInv, TypeOK, CancelInv, CallerEnds, Withdrawn, InReach
<1>4. CancelInv'
  BY DEF CancelInv, TypeOK, CallerEnds, Standing, Withdrawn
<1>5. RowInv'
  BY DEF RowInv, CallerEnds, Held
<1>6. OneHandPerOrder'
  BY DEF OneHandPerOrder, CallerEnds, Held
<1>7. CancelledIsWithdrawn'
  BY DEF CancelledIsWithdrawn, TypeOK, Standing, Withdrawn
<1>8. FeedInv' /\ PaperTrail' /\ AuditAgrees'
  BY DEF FeedInv, PaperTrail, AuditAgrees
<1> QED BY <1>1, <1>2, <1>3, <1>4, <1>5, <1>6, <1>7, <1>8

\* The withdrawn orders, and only those, are written as cancelled.
LEMMA CommitKeeps ==
    ASSUME IInv, NEW c \in Callers, Commit(c)
    PROVE  IInv'
<1> USE DEF IInv, Commit, workVars
<1>a. done[c] \subseteq Orders /\ (pc \in {"place", "persist"} => cur.order \notin done[c])
  BY SubmittedIsUntouched DEF TypeOK
<1>b. WriteCancels(c) =>
         \A o \in Orders :
            /\ row'[o] = IF o \in done[c] THEN "cancelled" ELSE row[o]
            /\ <<"order.cancelled", o>> \in audit' <=>
                  <<"order.cancelled", o>> \in audit \/ o \in done[c]
            /\ <<"order.submitted", o>> \in audit' <=> <<"order.submitted", o>> \in audit
  BY CancelsWritten
<1>c. WriteCancels(c) => fillRows' = fillRows
  BY DEF WriteCancels
<1>d. \A d \in Callers : todo[d] \subseteq Orders /\ done[d] \subseteq Orders
  BY DEF TypeOK
<1>e. open \subseteq Orders /\ (cur.order \in Orders \/ pc \in {"idle", "trip", "over"})
  BY DEF TypeOK, SubmitInv
<1>1. TypeOK'
  BY CancelsWritten DEF TypeOK
<1>2. SubmitInv'
  BY <1>a, <1>b, <1>c, <1>e DEF SubmitInv
<1>3. CancelInv'
  <2>1. \A d \in Callers : cpc'[d] = IF d = c THEN "publish" ELSE cpc[d]
    BY DEF TypeOK
  <2>2. cpc'[Task] \in {"begin", "venue", "publish"} => pc' = "trip"
    BY <2>1 DEF CancelInv
  <2>3. ASSUME NEW d \in Callers
        PROVE  /\ cpc'[d] \notin {"venue", "publish"} => todo'[d] = {} /\ done'[d] = {}
               /\ cpc'[d] = "publish" => todo'[d] = {}
    BY <2>1 DEF CancelInv
  <2>4. ASSUME NEW d \in Callers, NEW o \in done'[d]
        PROVE  /\ Standing(o)' <=> Standing(o)
               /\ ~Standing(o)
               /\ cpc'[d] = "publish" => row'[o] = "cancelled" /\ <<"order.cancelled", o>> \in audit'
    <3>1. o \in Orders /\ o \in done[d] /\ (Standing(o)' <=> Standing(o))
      BY <1>d DEF Standing
    <3>2. ~Standing(o) /\ (cpc[d] = "publish" => row[o] = "cancelled" /\ <<"order.cancelled", o>> \in audit)
      BY <3>1 DEF CancelInv
    <3>3. WriteCancels(c)
      OBVIOUS
    <3> QED BY <1>b, <2>1, <3>1, <3>2, <3>3
  <2> QED BY <2>2, <2>3, <2>4 DEF CancelInv
<1>4. RowInv'
  BY <1>a, <1>b, <1>d, <1>e DEF RowInv, Held
<1>5. PaperTrail'
  BY <1>b, <1>c DEF PaperTrail
<1>6. AuditAgrees'
  BY CancelsWritten DEF AuditAgrees, RowInv, Held
<1>7. CancelledIsWithdrawn'
  BY CancelsWritten DEF CancelledIsWithdrawn, CancelInv, Standing
<1>8. ReachInv' /\ FeedInv' /\ OneHandPerOrder'
  BY DEF ReachInv, FeedInv, OneHandPerOrder, InReach, Held, WriteCancels
<1> QED BY <1>1, <1>2, <1>3, <1>4, <1>5, <1>6, <1>7, <1>8

\* The commit breaks, with or without effect.
LEMMA CommitBreaksKeeps ==
    ASSUME IInv, NEW c \in Callers, CommitBreaks(c)
    PROVE  IInv'
<1> USE DEF IInv, CommitBreaks, dbVars
<1>a. done[c] \subseteq Orders /\ (pc \in {"place", "persist"} => cur.order \notin done[c])
  BY SubmittedIsUntouched DEF TypeOK
<1>b. WriteCancels(c) =>
         \A o \in Orders :
            /\ row'[o] = IF o \in done[c] THEN "cancelled" ELSE row[o]
            /\ <<"order.cancelled", o>> \in audit' <=>
                  <<"order.cancelled", o>> \in audit \/ o \in done[c]
            /\ <<"order.submitted", o>> \in audit' <=> <<"order.submitted", o>> \in audit
  BY CancelsWritten
<1>c. WriteCancels(c) => fillRows' = fillRows
  BY DEF WriteCancels
<1>d. \A d \in Callers : todo[d] \subseteq Orders /\ done[d] \subseteq Orders
  BY DEF TypeOK
<1>e. open \subseteq Orders /\ (cur.order \in Orders \/ pc \in {"idle", "trip", "over"})
  BY DEF TypeOK, SubmitInv
<1>1. TypeOK'
  <2>1. /\ row' \in [Orders -> Statuses \cup {"none", "cancelled"}]
        /\ audit' \subseteq {"order.submitted", "order.cancelled"} \X Orders
        /\ fillRows' \subseteq Orders
    BY CancelsWritten DEF TypeOK
  <2> QED BY <2>1 DEF TypeOK, CallerEnds
<1>2. SubmitInv'
  <2>1. CASE WriteCancels(c)
    BY <2>1, <1>a, <1>b, <1>c, <1>d, <1>e DEF SubmitInv, CallerEnds, CancelInv
  <2>2. CASE UNCHANGED dbVars
    BY <2>2, <1>a, <1>d, <1>e DEF SubmitInv, CallerEnds, CancelInv
  <2> QED BY <2>1, <2>2
<1>3. ReachInv'
  BY DEF ReachInv, InReach, CallerEnds, CancelInv
<1>4. CancelInv'
  <2>1. \A d \in Callers :
           /\ cpc'[d] = IF d = c THEN "over" ELSE cpc[d]
           /\ todo'[d] = IF d = c THEN {} ELSE todo[d]
           /\ done'[d] = IF d = c THEN {} ELSE done[d]
    BY DEF TypeOK, CallerEnds
  <2>2. cpc'[Task] \in {"begin", "venue", "publish"} => pc' = "trip"
    BY <2>1 DEF CancelInv, CallerEnds
  <2>3. ASSUME NEW d \in Callers
        PROVE  /\ cpc'[d] \notin {"venue", "publish"} => todo'[d] = {} /\ done'[d] = {}
               /\ cpc'[d] = "publish" => todo'[d] = {}
    BY <2>1 DEF CancelInv
  <2>4. ASSUME NEW d \in Callers, NEW o \in done'[d]
        PROVE  /\ Standing(o)' <=> Standing(o)
               /\ ~Standing(o)
               /\ cpc'[d] = "publish" => row'[o] = "cancelled" /\ <<"order.cancelled", o>> \in audit'
    <3>1. d # c /\ o \in Orders /\ o \in done[d] /\ (Standing(o)' <=> Standing(o))
      BY <2>1, <1>d DEF Standing
    <3>2. ~Standing(o) /\ (cpc[d] = "publish" => row[o] = "cancelled" /\ <<"order.cancelled", o>> \in audit)
      BY <3>1 DEF CancelInv
    <3>3. CASE WriteCancels(c)
      BY <1>b, <2>1, <3>1, <3>2, <3>3
    <3>4. CASE UNCHANGED dbVars
      BY <2>1, <3>1, <3>2, <3>4
    <3> QED BY <3>3, <3>4
  <2> QED BY <2>2, <2>3, <2>4 DEF CancelInv
<1>5. RowInv'
  <2>1. \A o \in Orders : row[o] # "none" => row'[o] # "none"
    <3>1. CASE WriteCancels(c)
      BY <1>b, <3>1
    <3>2. CASE UNCHANGED dbVars
      BY <3>2
    <3> QED BY <3>1, <3>2
  <2>2. \A d \in Callers : Held(d)' \subseteq Held(d) /\ Held(d) \subseteq Orders
    BY <1>d DEF Held, CallerEnds
  <2> QED BY <1>e, <2>1, <2>2 DEF RowInv
<1>6. PaperTrail'
  <2>1. CASE WriteCancels(c)
    BY <2>1, <1>a, <1>b, <1>c, <1>d, <1>e DEF PaperTrail
  <2>2. CASE UNCHANGED dbVars
    BY <2>2, <1>a, <1>d, <1>e DEF PaperTrail
  <2> QED BY <2>1, <2>2
<1>7. AuditAgrees'
  <2>1. CASE WriteCancels(c)
    BY <2>1, <1>a, <1>b, <1>c, <1>d, <1>e DEF AuditAgrees, RowInv, Held
  <2>2. CASE UNCHANGED dbVars
    BY <2>2, <1>a, <1>d, <1>e DEF AuditAgrees
  <2> QED BY <2>1, <2>2
<1>8. OneHandPerOrder'
  BY DEF OneHandPerOrder, CallerEnds, Held
<1>9. CancelledIsWithdrawn'
  <2>1. CASE WriteCancels(c)
    BY <2>1, <1>a, <1>b, <1>c, <1>d, <1>e
       DEF CancelledIsWithdrawn, CancelInv, Standing
  <2>2. CASE UNCHANGED dbVars
    BY <2>2, <1>a, <1>d, <1>e DEF CancelledIsWithdrawn, Standing
  <2> QED BY <2>1, <2>2
<1>10. FeedInv'
  BY DEF FeedInv, WriteCancels
<1> QED BY <1>1, <1>2, <1>3, <1>4, <1>5, <1>6, <1>7, <1>8, <1>9, <1>10

\* order_cancelled goes out for an order with its rows.
LEMMA CancelPublishedKeeps ==
    ASSUME IInv, NEW c \in Callers, NEW o \in Orders, CancelPublished(c, o)
    PROVE  IInv'
<1> USE DEF IInv, CancelPublished, dbVars
<1>1. TypeOK'
  BY DEF TypeOK, CallerEnds
<1>2. SubmitInv'
  BY DEF SubmitInv, CancelInv, CallerEnds
<1>3. ReachInv'
  BY DEF ReachInv, TypeOK, CancelInv, CallerEnds, InReach
<1>4. CancelInv'
  BY DEF CancelInv, TypeOK, CallerEnds, Standing, Callers
<1>5. RowInv'
  BY DEF RowInv, TypeOK, CallerEnds, Held
<1>6. PaperTrail'
  BY DEF PaperTrail, CancelInv
<1>7. OneHandPerOrder'
  BY DEF OneHandPerOrder, TypeOK, CallerEnds, Held
<1>8. FeedInv' /\ AuditAgrees' /\ CancelledIsWithdrawn'
  BY DEF FeedInv, AuditAgrees, CancelledIsWithdrawn, Standing
<1> QED BY <1>1, <1>2, <1>3, <1>4, <1>5, <1>6, <1>7, <1>8

\* The publish breaks, with or without effect.
LEMMA CancelPublishBreaksKeeps ==
    ASSUME IInv, NEW c \in Callers, CancelPublishBreaks(c)
    PROVE  IInv'
<1> USE DEF IInv, CancelPublishBreaks, dbVars
<1>1. TypeOK'
  BY DEF TypeOK, CallerEnds
<1>2. SubmitInv'
  BY DEF SubmitInv, CancelInv, CallerEnds
<1>3. ReachInv'
  BY DEF ReachInv, CancelInv, CallerEnds, InReach
<1>4. CancelInv'
  BY DEF CancelInv, TypeOK, CallerEnds, Standing
<1>5. RowInv'
  BY DEF RowInv, CallerEnds, Held
<1>6. PaperTrail'
  <2>1. \A o \in done[c] : row[o] = "cancelled" /\ <<"order.cancelled", o>> \in audit
    BY DEF CancelInv
  <2>2. \A o \in Orders :
           /\ <<"order_submitted", o>> \in published' => <<"order_submitted", o>> \in published
           /\ <<"fill", o>> \in published' => <<"fill", o>> \in published
           /\ <<"order_cancelled", o>> \in published' =>
                 <<"order_cancelled", o>> \in published \/ o \in done[c]
    <3>1. CASE published' = published
      BY <3>1
    <3>2. ASSUME NEW p \in done[c], published' = published \cup {<<"order_cancelled", p>>}
          PROVE  \A o \in Orders :
                   /\ <<"order_submitted", o>> \in published' => <<"order_submitted", o>> \in published
                   /\ <<"fill", o>> \in published' => <<"fill", o>> \in published
                   /\ <<"order_cancelled", o>> \in published' =>
                         <<"order_cancelled", o>> \in published \/ o \in done[c]
      BY <3>2
    <3> QED BY <3>1, <3>2
  <2> QED BY <2>1, <2>2 DEF PaperTrail
<1>7. OneHandPerOrder'
  BY DEF OneHandPerOrder, CallerEnds, Held
<1>8. FeedInv' /\ AuditAgrees' /\ CancelledIsWithdrawn'
  BY DEF FeedInv, AuditAgrees, CancelledIsWithdrawn, Standing
<1> QED BY <1>1, <1>2, <1>3, <1>4, <1>5, <1>6, <1>7, <1>8

\* An order that has executed is tracked no more.
LEMMA DeliverFillKeeps ==
    ASSUME IInv, NEW o \in Orders, DeliverFill(o)
    PROVE  IInv'
<1> USE DEF IInv, DeliverFill, cancelVars, dbVars, workVars
<1>1. TypeOK'
  BY DEF TypeOK
<1>2. ReachInv'
  BY DEF ReachInv, InReach
<1>3. RowInv'
  BY DEF RowInv, Held
<1>4. FeedInv'
  BY DEF FeedInv
<1>5. OneHandPerOrder'
  BY DEF OneHandPerOrder, Held
<1>6. /\ SubmitInv' /\ CancelInv' /\ PaperTrail'
      /\ AuditAgrees' /\ CancelledIsWithdrawn'
  BY DEF SubmitInv, CancelInv, PaperTrail, AuditAgrees, CancelledIsWithdrawn,
     Standing
<1> QED BY <1>1, <1>2, <1>3, <1>4, <1>5, <1>6

\* The late fill has its row.
LEMMA FillCommittedKeeps ==
    ASSUME IInv, FillCommitted
    PROVE  IInv'
<1> USE DEF IInv, FillCommitted, cancelVars, workVars
<1>1. TypeOK'
  BY DEF TypeOK, FeedInv
<1>2. SubmitInv'
  BY DEF SubmitInv
<1>3. FeedInv'
  BY DEF FeedInv
<1>4. PaperTrail'
  BY DEF PaperTrail
<1>5. /\ ReachInv' /\ CancelInv' /\ RowInv' /\ AuditAgrees'
      /\ OneHandPerOrder' /\ CancelledIsWithdrawn'
  BY DEF ReachInv, CancelInv, RowInv, AuditAgrees, OneHandPerOrder,
     CancelledIsWithdrawn, InReach, Standing, Held
<1> QED BY <1>1, <1>2, <1>3, <1>4, <1>5

\* The late fill goes out with its row written.
LEMMA LateFillPublishedKeeps ==
    ASSUME IInv, LateFillPublished
    PROVE  IInv'
<1> USE DEF IInv, LateFillPublished, cancelVars, dbVars, workVars
<1>1. TypeOK'
  BY DEF TypeOK, FeedInv, NoFeed
<1>2. FeedInv'
  BY DEF FeedInv, NoFeed
<1>3. PaperTrail'
  BY DEF PaperTrail, FeedInv
<1>4. /\ SubmitInv' /\ ReachInv' /\ CancelInv' /\ RowInv'
      /\ AuditAgrees' /\ OneHandPerOrder' /\ CancelledIsWithdrawn'
  BY DEF SubmitInv, ReachInv, CancelInv, RowInv, AuditAgrees, OneHandPerOrder,
     CancelledIsWithdrawn, InReach, Standing, Held
<1> QED BY <1>1, <1>2, <1>3, <1>4

\* A delivery that breaks changes nothing more.
LEMMA DeliveryBreaksKeeps ==
    ASSUME IInv, DeliveryBreaks
    PROVE  IInv'
<1> USE DEF IInv, DeliveryBreaks, cancelVars, dbVars, workVars
<1>1. TypeOK'
  BY DEF TypeOK, NoFeed
<1>2. FeedInv'
  BY DEF FeedInv, NoFeed
<1>3. /\ SubmitInv' /\ ReachInv' /\ CancelInv' /\ RowInv' /\ PaperTrail'
      /\ AuditAgrees' /\ OneHandPerOrder' /\ CancelledIsWithdrawn'
  BY DEF SubmitInv, ReachInv, CancelInv, RowInv, PaperTrail, AuditAgrees,
     OneHandPerOrder, CancelledIsWithdrawn, InReach, Standing, Held
<1> QED BY <1>1, <1>2, <1>3

\* An execution leaves fewer orders resting.
LEMMA VenueFillsKeeps ==
    ASSUME IInv, NEW o \in Orders, VenueFills(o)
    PROVE  IInv'
<1> USE DEF IInv, VenueFills, cancelVars, dbVars, workVars
<1>1. TypeOK'
  BY DEF TypeOK
<1>2. SubmitInv'
  BY DEF SubmitInv
<1>3. ReachInv'
  BY DEF ReachInv, InReach
<1>4. CancelInv'
  BY DEF CancelInv, Standing
<1>5. CancelledIsWithdrawn'
  BY DEF CancelledIsWithdrawn, Standing
<1>6. /\ RowInv' /\ FeedInv' /\ PaperTrail'
      /\ AuditAgrees' /\ OneHandPerOrder'
  BY DEF RowInv, FeedInv, PaperTrail, AuditAgrees, OneHandPerOrder, Held
<1> QED BY <1>1, <1>2, <1>3, <1>4, <1>5, <1>6

-----------------------------------------------------------------------------
\* IInv is an inductive invariant of the router.
LEMMA RouterInductive == Spec => []IInv
<1>1. Init => IInv
  <2> SUFFICES ASSUME Init PROVE IInv
    OBVIOUS
  <2> USE DEF Init, NoSubmit, NoFeed
  <2>1. TypeOK
    BY DEF TypeOK, Statuses
  <2>2. SubmitInv /\ ReachInv /\ RowInv /\ FeedInv
    BY DEF SubmitInv, ReachInv, RowInv, FeedInv, Held
  <2>3. CancelInv
    BY DEF CancelInv, Callers
  <2>4. PaperTrail /\ AuditAgrees /\ OneHandPerOrder /\ CancelledIsWithdrawn
    BY DEF PaperTrail, AuditAgrees, OneHandPerOrder, CancelledIsWithdrawn, Held
  <2> QED BY <2>1, <2>2, <2>3, <2>4 DEF IInv
<1>2. IInv /\ [Next]_vars => IInv'
  <2> SUFFICES ASSUME IInv, [Next]_vars PROVE IInv'
    OBVIOUS
  <2>1. CASE WorkerGoesOn \/ WorkerLeaves
    BY <2>1, PlacedKeeps, PlaceBreaksKeeps, PersistedKeeps, PersistBreaksKeeps,
       OrderPublishedKeeps, FillPublishedKeeps, PublishBreaksKeeps,
       WorkerLeavesKeeps DEF WorkerGoesOn
  <2>2. CASE Trip \/ Stop
    BY <2>2, TripKeeps, StopKeeps
  <2>3. CASE Feed
    BY <2>3, DeliverFillKeeps, FillCommittedKeeps, LateFillPublishedKeeps,
       DeliveryBreaksKeeps DEF Feed
  <2>4. ASSUME NEW o \in Orders, Submit(o) \/ VenueFills(o) PROVE IInv'
    BY <2>4, SubmitKeeps, VenueFillsKeeps
  <2>5. ASSUME NEW k \in Kills, Kill(k) PROVE IInv'
    BY <2>5, KillKeeps
  <2>6. ASSUME NEW c \in Callers, Caller(c) PROVE IInv'
    BY <2>6, TripBreaksKeeps, BeginCancelKeeps, CancelBreaksKeeps, CommitKeeps,
       CommitBreaksKeeps, CancelPublishBreaksKeeps, CancelAtVenueKeeps,
       CancelRefusedKeeps, CancelPublishedKeeps DEF Caller
  <2>7. CASE UNCHANGED vars
    <3> USE <2>7 DEF vars, IInv
    <3>1. TypeOK'
      BY DEF TypeOK
    <3>2. SubmitInv' /\ RowInv' /\ FeedInv'
      BY DEF SubmitInv, RowInv, FeedInv, Held
    <3>3. ReachInv'
      BY DEF ReachInv, InReach
    <3>4. CancelInv'
      BY DEF CancelInv, Standing
    <3>5. PaperTrail' /\ AuditAgrees' /\ OneHandPerOrder' /\ CancelledIsWithdrawn'
      BY DEF PaperTrail, AuditAgrees, OneHandPerOrder, CancelledIsWithdrawn, Held,
         Standing
    <3> QED BY <3>1, <3>2, <3>3, <3>4, <3>5
  <2> QED BY <2>1, <2>2, <2>3, <2>4, <2>5, <2>6, <2>7 DEF Next
<1> QED BY <1>1, <1>2, PTL DEF Spec

\* Every variable of the router keeps its type.
THEOREM RouterTyping == Spec => []TypeOK
<1>1. IInv => TypeOK
  BY DEF IInv
<1> QED BY <1>1, RouterInductive, PTL

\* "a downstream consumer can never see an event without a paper trail"
\* (router.py:11-12), whatever fails or is cancelled, and wherever.
THEOREM EventsHavePaperTrail == Spec => []PaperTrail
<1>1. IInv => PaperTrail
  BY DEF IInv
<1> QED BY <1>1, RouterInductive, PTL

\* The orders table and the audit trail agree, whichever transaction broke.
THEOREM RowsAgreeWithAudit == Spec => []AuditAgrees
<1>1. IInv => AuditAgrees
  BY DEF IInv
<1> QED BY <1>1, RouterInductive, PTL

\* Any number of concurrent cancel_opens share out the tracked orders.
THEOREM OrdersAreShared == Spec => []OneHandPerOrder
<1>1. IInv => OneHandPerOrder
  BY DEF IInv
<1> QED BY <1>1, RouterInductive, PTL

\* An order whose row says cancelled can execute no more.
THEOREM CancelledStaysWithdrawn == Spec => []CancelledIsWithdrawn
<1>1. IInv => CancelledIsWithdrawn
  BY DEF IInv
<1> QED BY <1>1, RouterInductive, PTL

\* A resting order is tracked, in a caller's hands, being submitted, or was in
\* hand when an await broke: there is no other way to lose one.
THEOREM RestingOrdersAccountedFor == Spec => []RestingIsAccountedFor
<1>1. IInv => RestingIsAccountedFor
  BY DEF IInv, ReachInv, InReach, RestingIsAccountedFor
<1> QED BY <1>1, RouterInductive, PTL
=============================================================================
