------------------------ MODULE EventDelivery_proofs ------------------------
(***************************************************************************)
(* Theorems about EventDelivery, for any users, sockets, gateways, stream  *)
(* and batch lengths and faults: typing, the inductive invariant, the      *)
(* safety properties that follow, and the refinement of EventChannel.      *)
(***************************************************************************)
EXTENDS EventDelivery, TLAPS

-----------------------------------------------------------------------------
Ascending(seq) == \A i, j \in DOMAIN seq : i < j => seq[i] < seq[j]

\* The entries of its last read that g has not handled yet.
Unhandled(g) == IF proc[g] = "acking" THEN Tail(batch[g]) ELSE batch[g]

\* What holds of the batch of a gateway.
BatchInv ==
    \A g \in Gateways :
        /\ proc[g] \notin {"answered", "acking"} => batch[g] = <<>>
        /\ proc[g] = "acking" =>
              batch[g] # <<>> /\ Head(batch[g]) \in Elems(handled[g])
        /\ Ascending(batch[g])
        /\ \A e \in Elems(batch[g]) \cup Elems(handled[g]) : e <= pos

\* An entry is handled by one gateway, once: what is still to be handled is in
\* no other batch, handled by nobody, and later than whatever was sent.
FreshInv ==
    /\ \A g, h \in Gateways :
          /\ \A e \in Elems(Unhandled(g)) : e \notin Elems(handled[h])
          /\ g # h => \A e \in Elems(Unhandled(g)) : e \notin Elems(Unhandled(h))
    /\ \A s \in Sockets : \A e \in Elems(Unhandled(home[s])) :
          \A f \in Elems(inbox[s]) : f < e
    /\ \A s \in Sockets : \A f \in Elems(inbox[s]) : f <= pos

\* What was trimmed before the group reached it is recorded.
TrimInv == \A e \in 1 .. trimmed : e > pos => e \in skipped

\* How the handler of a socket, its registration and its inbox belong together.
SocketInv ==
    \A s \in Sockets :
        /\ phase[s] = "unused" => ~alive[s] /\ user[s] = NoUser
        /\ phase[s] \in {"unused", "resolving", "closeMissed"} => inbox[s] = <<>>
        /\ phase[s] \in {"resolving", "closeMissed", "serving", "leaked"} =>
              Up(home[s]) /\ user[s] \in Users
        /\ phase[s] = "closeMissed" => ~alive[s]
        /\ phase[s] = "serving" => s \in registry[home[s]][user[s]]
        /\ since[s] <= Len(handled[home[s]])
        /\ Ascending(inbox[s])

\* The inductive invariant.
IInv ==
    /\ TypeOK /\ BatchInv /\ FreshInv /\ TrimInv /\ SocketInv
    /\ AckedWasHandled /\ OpenSocketSeesAll /\ OnlyTheRaceLeaks

-----------------------------------------------------------------------------
(* Sequences of ids.                                                       *)

LEMMA ElemsOfEmpty == Elems(<<>>) = {}
BY DEF Elems

\* A non-empty sequence is its head and its tail.
LEMMA ElemsOfTail ==
    ASSUME NEW S, NEW seq \in Seq(S), seq # <<>>
    PROVE  /\ Head(seq) \in S /\ Tail(seq) \in Seq(S)
           /\ Elems(seq) = {Head(seq)} \cup Elems(Tail(seq))
<1>1. /\ Len(seq) \in Nat \ {0} /\ DOMAIN seq = 1 .. Len(seq)
      /\ Len(Tail(seq)) = Len(seq) - 1 /\ DOMAIN Tail(seq) = 1 .. Len(seq) - 1
      /\ Head(seq) = seq[1]
      /\ \A i \in DOMAIN Tail(seq) : Tail(seq)[i] = seq[i + 1]
  OBVIOUS
<1>2. Head(seq) \in S /\ Tail(seq) \in Seq(S)
  OBVIOUS
<1>3. ASSUME NEW e \in Elems(seq) PROVE e \in {Head(seq)} \cup Elems(Tail(seq))
  <2>1. PICK i \in DOMAIN seq : e = seq[i]
    BY <1>3 DEF Elems
  <2>2. CASE i = 1
    BY <2>1, <2>2, <1>1
  <2>3. CASE i # 1
    <3>1. i - 1 \in DOMAIN Tail(seq) /\ e = Tail(seq)[i - 1]
      BY <2>1, <2>3, <1>1
    <3> QED BY <3>1 DEF Elems
  <2> QED BY <2>2, <2>3
<1>4. ASSUME NEW e \in {Head(seq)} \cup Elems(Tail(seq)) PROVE e \in Elems(seq)
  <2>1. CASE e = Head(seq)
    BY <2>1, <1>1 DEF Elems
  <2>2. CASE e \in Elems(Tail(seq))
    <3>1. PICK i \in DOMAIN Tail(seq) : e = Tail(seq)[i]
      BY <2>2 DEF Elems
    <3>2. i + 1 \in DOMAIN seq /\ e = seq[i + 1]
      BY <3>1, <1>1
    <3> QED BY <3>2 DEF Elems
  <2> QED BY <1>4, <2>1, <2>2
<1> QED BY <1>2, <1>3, <1>4

LEMMA ElemsOfAppend ==
    ASSUME NEW S, NEW seq \in Seq(S), NEW e \in S
    PROVE  /\ Append(seq, e) \in Seq(S) /\ Len(Append(seq, e)) = Len(seq) + 1
           /\ Elems(Append(seq, e)) = Elems(seq) \cup {e}
<1>1. /\ Len(seq) \in Nat /\ DOMAIN seq = 1 .. Len(seq)
      /\ Append(seq, e) \in Seq(S)
      /\ Len(Append(seq, e)) = Len(seq) + 1
      /\ DOMAIN Append(seq, e) = 1 .. Len(seq) + 1
      /\ \A i \in 1 .. Len(seq) : Append(seq, e)[i] = seq[i]
      /\ Append(seq, e)[Len(seq) + 1] = e
  OBVIOUS
<1>2. ASSUME NEW f \in Elems(Append(seq, e)) PROVE f \in Elems(seq) \cup {e}
  BY <1>1, <1>2 DEF Elems
<1>3. Elems(seq) \subseteq Elems(Append(seq, e))
  <2> SUFFICES ASSUME NEW i \in DOMAIN seq PROVE seq[i] \in Elems(Append(seq, e))
    BY DEF Elems
  <2>1. i \in DOMAIN Append(seq, e) /\ Append(seq, e)[i] = seq[i]
    BY <1>1
  <2> QED BY <2>1 DEF Elems
<1>4. e \in Elems(Append(seq, e))
  <2>1. Len(seq) + 1 \in DOMAIN Append(seq, e)
    BY <1>1
  <2> QED BY <2>1, <1>1 DEF Elems
<1> QED BY <1>1, <1>2, <1>3, <1>4

LEMMA ElemsTyped ==
    ASSUME NEW S, NEW seq \in Seq(S) PROVE Elems(seq) \subseteq S
BY DEF Elems

\* The head of an ascending sequence is its least element.
LEMMA AscendingTail ==
    ASSUME NEW seq \in Seq(Nat), seq # <<>>, Ascending(seq)
    PROVE  Ascending(Tail(seq)) /\ \A e \in Elems(Tail(seq)) : Head(seq) < e
<1>1. /\ Len(seq) \in Nat \ {0} /\ DOMAIN seq = 1 .. Len(seq)
      /\ DOMAIN Tail(seq) = 1 .. Len(seq) - 1
      /\ Head(seq) = seq[1]
      /\ \A i \in DOMAIN Tail(seq) : Tail(seq)[i] = seq[i + 1]
  OBVIOUS
<1>2. Ascending(Tail(seq))
  <2> SUFFICES ASSUME NEW i \in DOMAIN Tail(seq), NEW j \in DOMAIN Tail(seq), i < j
               PROVE  Tail(seq)[i] < Tail(seq)[j]
    BY DEF Ascending
  <2>1. i + 1 \in DOMAIN seq /\ j + 1 \in DOMAIN seq /\ i + 1 < j + 1
    BY <1>1
  <2> QED BY <2>1, <1>1 DEF Ascending
<1>3. ASSUME NEW i \in DOMAIN Tail(seq) PROVE Head(seq) < Tail(seq)[i]
  <2>1. 1 \in DOMAIN seq /\ i + 1 \in DOMAIN seq /\ 1 < i + 1
    BY <1>1
  <2> QED BY <2>1, <1>1 DEF Ascending
<1> QED BY <1>2, <1>3 DEF Elems

LEMMA AscendingAppend ==
    ASSUME NEW seq \in Seq(Nat), NEW e \in Nat, Ascending(seq),
           \A f \in Elems(seq) : f < e
    PROVE  Ascending(Append(seq, e))
<1>1. /\ Len(seq) \in Nat /\ DOMAIN seq = 1 .. Len(seq)
      /\ DOMAIN Append(seq, e) = 1 .. Len(seq) + 1
      /\ \A i \in 1 .. Len(seq) : Append(seq, e)[i] = seq[i]
      /\ Append(seq, e)[Len(seq) + 1] = e
  OBVIOUS
<1>2. \A i \in DOMAIN seq : seq[i] < e
  BY DEF Elems
<1> QED BY <1>1, <1>2 DEF Ascending

\* A read returns entries of the stream behind the group's position, in order.
LEMMA NewIdsFollow ==
    ASSUME TypeOK, NewIds # <<>>
    PROVE  /\ NewIds \in Seq(Ids) /\ Ascending(NewIds)
           /\ NewIds[Len(NewIds)] \in pos + 1 .. Len(log)
           /\ \A e \in Elems(NewIds) : e > pos /\ e <= NewIds[Len(NewIds)]
           /\ \A e \in pos + 1 .. NewIds[Len(NewIds)] :
                 e \in Elems(NewIds) \/ e <= trimmed
<1> DEFINE from == IF pos > trimmed THEN pos ELSE trimmed
           to == IF from + MaxBatch < Len(log) THEN from + MaxBatch ELSE Len(log)
           n == to - from
<1>1. /\ Len(log) \in Nat /\ pos \in 0 .. Len(log) /\ trimmed \in 0 .. Len(log)
      /\ MaxBatch \in Nat
  BY DeliveryAssumption DEF TypeOK
<1>2. from \in Nat /\ to \in Nat /\ from >= pos /\ from >= trimmed /\ to <= Len(log) /\ n \in Nat
  BY <1>1
<1>3. NewIds = [i \in 1 .. n |-> from + i]
  BY DEF NewIds
<1> HIDE DEF n, from, to
<1>4. n # 0
  <2> SUFFICES ASSUME n = 0 PROVE NewIds = <<>>
    OBVIOUS
  <2> QED BY <1>3
<1>5. \A i \in 1 .. n : from + i \in Ids
  BY <1>1, <1>2 DEF n, Ids
<1>6. NewIds \in Seq(Ids) /\ Len(NewIds) = n /\ DOMAIN NewIds = 1 .. n
  BY <1>2, <1>3, <1>5
<1>7. NewIds[Len(NewIds)] = to
  BY <1>2, <1>3, <1>4, <1>6 DEF n
<1>8. Ascending(NewIds)
  BY <1>2, <1>3, <1>6 DEF Ascending
<1>9. to \in pos + 1 .. Len(log)
  BY <1>1, <1>2, <1>4 DEF n
<1>10. \A e \in Elems(NewIds) : e > pos /\ e <= to
  BY <1>1, <1>2, <1>3, <1>6 DEF Elems, n
<1>11. ASSUME NEW e \in pos + 1 .. to PROVE e \in Elems(NewIds) \/ e <= trimmed
  <2>1. CASE e <= from
    BY <2>1, <1>1, <1>2 DEF from
  <2>2. CASE e > from
    <3>1. e - from \in 1 .. n /\ NewIds[e - from] = e
      BY <2>2, <1>1, <1>2, <1>3 DEF n
    <3> QED BY <3>1, <1>6 DEF Elems
  <2> QED BY <2>1, <2>2, <1>1, <1>2
<1> QED BY <1>6, <1>7, <1>8, <1>9, <1>10, <1>11

LEMMA SeqGrows ==
    ASSUME NEW S, NEW T, S \subseteq T, NEW seq \in Seq(S)
    PROVE  seq \in Seq(T)
OBVIOUS

-----------------------------------------------------------------------------
(* One lemma per action, or per group of actions that move alike.          *)

LEMMA PublishKeeps ==
    ASSUME IInv, NEW u \in Users, Publish(u)
    PROVE  IInv'
<1> USE DEF IInv, Publish, loopVars, sockVars
<1>1. PICK t \in trimmed .. Len(log) :
          trimmed' = t /\ skipped' = skipped \cup {e \in trimmed + 1 .. t : e > pos}
  OBVIOUS
<1>2. /\ Len(log) \in Nat /\ trimmed \in 0 .. Len(log) /\ pos \in 0 .. Len(log)
      /\ Len(log') = Len(log) + 1 /\ log' \in Seq(Users)
      /\ \A e \in Ids : log'[e] = log[e]
      /\ Ids \subseteq Ids'
  BY DEF TypeOK, Ids
<1>3. TypeOK'
  <2>1. batch' \in [Gateways -> Seq(Ids')]
    <3>1. \A g \in Gateways : batch[g] \in Seq(Ids')
      BY <1>2, SeqGrows DEF TypeOK
    <3> QED BY <3>1 DEF TypeOK
  <2>2. handled' \in [Gateways -> Seq(Ids')]
    <3>1. \A g \in Gateways : handled[g] \in Seq(Ids')
      BY <1>2, SeqGrows DEF TypeOK
    <3> QED BY <3>1 DEF TypeOK
  <2>3. inbox' \in [Sockets -> Seq(Ids')]
    <3>1. \A s \in Sockets : inbox[s] \in Seq(Ids')
      BY <1>2, SeqGrows DEF TypeOK
    <3> QED BY <3>1 DEF TypeOK
  <2>4. pending' \subseteq Ids' /\ skipped' \subseteq Ids'
    <3>1. pending \subseteq Ids /\ skipped \subseteq Ids
      BY DEF TypeOK
    <3>2. {e \in trimmed + 1 .. t : e > pos} \subseteq Ids'
      BY <1>2 DEF Ids
    <3> QED BY <3>1, <3>2, <1>1, <1>2
  <2>5. Len(log') <= MaxEvents /\ trimmed' \in 0 .. Len(log') /\ pos' \in 0 .. Len(log')
    BY <1>1, <1>2, DeliveryAssumption
  <2> QED BY <1>2, <2>1, <2>2, <2>3, <2>4, <2>5 DEF TypeOK
<1>4. BatchInv' /\ FreshInv' /\ SocketInv' /\ OnlyTheRaceLeaks'
  BY DEF BatchInv, FreshInv, Unhandled, SocketInv, OnlyTheRaceLeaks, Up
<1>5. TrimInv'
  BY <1>1, <1>2 DEF TrimInv
<1>6. AckedWasHandled'
  BY <1>1 DEF AckedWasHandled
<1>7. OpenSocketSeesAll'
  <2>1. \A s \in Sockets : HandledSince(s) \subseteq Ids /\ HandledSince(s)' = HandledSince(s)
    <3> TAKE s \in Sockets
    <3>1. handled[home[s]] \in Seq(Ids) /\ since[s] \in Nat
      BY DeliveryAssumption DEF TypeOK
    <3> QED BY <3>1 DEF HandledSince
  <2> QED BY <1>2, <2>1 DEF OpenSocketSeesAll
<1> QED BY <1>3, <1>4, <1>5, <1>6, <1>7

\* Where a consumer loop may be when it has no batch.
Idle == {"unstarted", "ensuring", "top", "left"}

\* A loop without a batch that moves on, without touching Redis.
LEMMA IdleMovesKeep ==
    ASSUME IInv, NEW g \in Gateways, proc[g] \in Idle,
           NEW at \in Idle \ {"unstarted"}, proc' = [proc EXCEPT ![g] = at],
           UNCHANGED <<redisVars, stopped, batch, handled, sockVars, inbox>>
    PROVE  IInv'
<1> USE DEF IInv, Idle, redisVars, sockVars
<1>1. TypeOK'
  BY DEF TypeOK, Ids
<1>2. \A h \in Gateways : Unhandled(h)' = Unhandled(h)
  BY DEF Unhandled, TypeOK
<1>3. BatchInv'
  BY DEF BatchInv, TypeOK
<1>4. FreshInv'
  BY <1>2, DeliveryAssumption DEF FreshInv
<1>5. SocketInv' /\ OnlyTheRaceLeaks'
  BY DeliveryAssumption DEF SocketInv, OnlyTheRaceLeaks, Up, TypeOK
<1>6. TrimInv' /\ AckedWasHandled' /\ OpenSocketSeesAll'
  BY DEF TrimInv, AckedWasHandled, OpenSocketSeesAll, HandledSince
<1> QED BY <1>1, <1>3, <1>4, <1>5, <1>6

LEMMA EnsureGroupKeeps ==
    ASSUME IInv, NEW g \in Gateways, EnsureGroup(g)
    PROVE  IInv'
<1> USE DEF EnsureGroup
<1>1. CASE grouped
  <2>1. UNCHANGED <<redisVars, stopped, batch, handled, sockVars, inbox>>
    BY <1>1 DEF redisVars, IInv, TypeOK
  <2> QED BY <2>1, IdleMovesKeep DEF Idle
<1>2. CASE ~grouped
  <2> USE <1>2 DEF IInv, sockVars
  <2>1. pos' = Len(log) /\ base' = Len(log) /\ pos <= pos' /\ pos \in Nat /\ pos' \in Nat
    BY DEF TypeOK
  <2>2. TypeOK'
    BY <2>1 DEF TypeOK, Ids
  <2>3. \A h \in Gateways : Unhandled(h)' = Unhandled(h)
    BY DEF Unhandled, TypeOK
  <2>4. /\ \A h \in Gateways : Elems(batch[h]) \cup Elems(handled[h]) \subseteq Nat
        /\ \A s \in Sockets : Elems(inbox[s]) \subseteq Nat
    BY ElemsTyped DEF TypeOK, Ids
  <2>5. BatchInv'
    BY <2>1, <2>4 DEF BatchInv, TypeOK
  <2>6. FreshInv'
    <3>1. ASSUME NEW s \in Sockets, NEW f \in Elems(inbox[s]) PROVE f <= pos'
      <4>1. f \in Nat /\ f <= pos
        BY <2>4 DEF FreshInv
      <4> QED BY <4>1, <2>1
    <3>2. \A h, k \in Gateways :
             /\ \A e \in Elems(Unhandled(h)') : e \notin Elems(handled'[k])
             /\ h # k => \A e \in Elems(Unhandled(h)') : e \notin Elems(Unhandled(k)')
      BY <2>3 DEF FreshInv
    <3>3. \A s \in Sockets : \A e \in Elems(Unhandled(home[s])') :
             \A f \in Elems(inbox'[s]) : f < e
      BY <2>3, DeliveryAssumption DEF FreshInv
    <3>4. inbox' = inbox
      OBVIOUS
    <3> QED BY <3>1, <3>2, <3>3, <3>4 DEF FreshInv
  <2>7. SocketInv' /\ OnlyTheRaceLeaks'
    BY DeliveryAssumption DEF SocketInv, OnlyTheRaceLeaks, Up, TypeOK
  <2>8. TrimInv' /\ AckedWasHandled'
    BY <2>1 DEF TrimInv, AckedWasHandled, TypeOK
  <2>9. OpenSocketSeesAll'
    BY ZenonT(40) DEF OpenSocketSeesAll, HandledSince
  <2> QED BY <2>2, <2>5, <2>6, <2>7, <2>8, <2>9
<1> QED BY <1>1, <1>2

LEMMA UnhandledOfBatch ==
    ASSUME IInv, NEW g \in Gateways
    PROVE  /\ Unhandled(g) \in Seq(Ids) /\ Ascending(Unhandled(g))
           /\ Elems(Unhandled(g)) \subseteq Elems(batch[g])
           /\ \A e \in Elems(Unhandled(g)) : e <= pos
<1>1. batch[g] \in Seq(Ids) /\ batch[g] \in Seq(Nat)
  <2>1. batch[g] \in Seq(Ids) /\ Ids \subseteq Nat
    BY DEF IInv, TypeOK, Ids
  <2> QED BY <2>1, SeqGrows
<1>2. Ascending(batch[g]) /\ \A e \in Elems(batch[g]) : e <= pos
  BY DEF IInv, BatchInv
<1>3. CASE proc[g] = "acking"
  <2>1. batch[g] # <<>> /\ Unhandled(g) = Tail(batch[g])
    BY <1>3 DEF IInv, BatchInv, Unhandled
  <2>2. Tail(batch[g]) \in Seq(Ids) /\ Elems(Tail(batch[g])) \subseteq Elems(batch[g])
    BY <2>1, <1>1, ElemsOfTail
  <2>3. Ascending(Tail(batch[g]))
    BY <2>1, <1>1, <1>2, AscendingTail
  <2> QED BY <2>1, <2>2, <2>3, <1>2
<1>4. CASE proc[g] # "acking"
  <2>1. Unhandled(g) = batch[g]
    BY <1>4 DEF Unhandled
  <2> QED BY <2>1, <1>1, <1>2
<1> QED BY <1>3, <1>4

LEMMA ReadKeeps ==
    ASSUME IInv, NEW g \in Gateways, Read(g)
    PROVE  IInv'
<1> DEFINE last == NewIds[Len(NewIds)]
<1>1. /\ NewIds \in Seq(Ids) /\ Ascending(NewIds) /\ last \in pos + 1 .. Len(log)
      /\ \A e \in Elems(NewIds) : e > pos /\ e <= last
      /\ \A e \in pos + 1 .. last : e \in Elems(NewIds) \/ e <= trimmed
  BY NewIdsFollow DEF IInv, Read
<1>2. pos' = last /\ pending' = pending \cup Elems(NewIds)
  BY DEF Read, PendingRead
<1>3. /\ log' = log /\ trimmed' = trimmed /\ base' = base /\ skipped' = skipped
      /\ grouped' = grouped /\ stopped' = stopped /\ handled' = handled
      /\ inbox' = inbox /\ registry' = registry /\ user' = user
      /\ phase' = phase /\ alive' = alive /\ since' = since
  BY DEF Read, sockVars
<1>4. /\ pos \in Nat /\ pos' \in Nat /\ pos < pos' /\ Len(log) \in Nat
      /\ trimmed \in Nat /\ base \in 0 .. pos
  BY <1>1, <1>2 DEF IInv, TypeOK
<1>5. \/ /\ proc' = [proc EXCEPT ![g] = "answered"]
         /\ batch' = [batch EXCEPT ![g] = NewIds]
      \/ proc' = proc /\ batch' = batch
  BY DEF Read
<1>6. proc[g] = "top" /\ batch[g] = <<>> /\ Unhandled(g) = <<>>
  BY DEF IInv, Read, BatchInv, Unhandled
<1> HIDE DEF last
<1>7. /\ \A h \in Gateways :
            /\ Elems(batch[h]) \cup Elems(handled[h]) \subseteq Nat
            /\ Elems(Unhandled(h)) \subseteq Elems(batch[h])
      /\ \A s \in Sockets : Elems(inbox[s]) \subseteq Nat
      /\ Elems(NewIds) \subseteq Ids /\ Elems(NewIds) \subseteq Nat
  <2>1. Ids \subseteq Nat
    BY DEF Ids
  <2>2. \A h \in Gateways : Elems(batch[h]) \subseteq Ids /\ Elems(handled[h]) \subseteq Ids
    BY ElemsTyped DEF IInv, TypeOK
  <2>3. \A s \in Sockets : Elems(inbox[s]) \subseteq Ids
    BY ElemsTyped DEF IInv, TypeOK
  <2>4. Elems(NewIds) \subseteq Ids
    BY <1>1, ElemsTyped
  <2>5. \A h \in Gateways : Elems(Unhandled(h)) \subseteq Elems(batch[h])
    BY UnhandledOfBatch
  <2> QED BY <2>1, <2>2, <2>3, <2>4, <2>5
<1>8. TypeOK'
  <2>1. pos' \in 0 .. Len(log') /\ base' \in 0 .. pos'
    BY <1>1, <1>2, <1>3, <1>4
  <2>2. pending' \subseteq Ids'
    BY <1>2, <1>3, <1>7 DEF IInv, TypeOK, Ids
  <2>3. proc' \in [Gateways -> {"unstarted", "ensuring", "top", "answered",
                                "acking", "left", "exited"}]
    BY <1>5 DEF IInv, TypeOK
  <2>4. batch' \in [Gateways -> Seq(Ids')]
    BY <1>1, <1>3, <1>5 DEF IInv, TypeOK, Ids
  <2> QED BY <1>3, <2>1, <2>2, <2>3, <2>4 DEF IInv, TypeOK, Ids
<1>9. \A h \in Gateways :
         \/ Unhandled(h)' = Unhandled(h) /\ batch'[h] = batch[h] /\ proc'[h] = proc[h]
         \/ /\ h = g /\ Unhandled(h)' = NewIds /\ batch'[h] = NewIds
            /\ proc'[h] = "answered"
  BY <1>5 DEF IInv, TypeOK, Unhandled
<1>10. BatchInv'
  <2> SUFFICES ASSUME NEW h \in Gateways
               PROVE  /\ proc'[h] \notin {"answered", "acking"} => batch'[h] = <<>>
                      /\ proc'[h] = "acking" =>
                            batch'[h] # <<>> /\ Head(batch'[h]) \in Elems(handled[h])
                      /\ Ascending(batch'[h])
                      /\ \A e \in Elems(batch'[h]) \cup Elems(handled[h]) : e <= pos'
    BY <1>3 DEF BatchInv
  <2>1. \A e \in Elems(batch[h]) \cup Elems(handled[h]) : e <= pos'
    <3> TAKE e \in Elems(batch[h]) \cup Elems(handled[h])
    <3>1. e \in Nat /\ e <= pos
      BY <1>7 DEF IInv, BatchInv
    <3> QED BY <3>1, <1>4
  <2>2. CASE batch'[h] = batch[h] /\ proc'[h] = proc[h]
    BY <2>1, <2>2 DEF IInv, BatchInv
  <2>3. CASE batch'[h] = NewIds /\ proc'[h] = "answered"
    BY <2>1, <2>3, <1>1, <1>2
  <2> QED BY <1>9, <2>2, <2>3
<1>11. FreshInv'
  <2>1. \A h, k \in Gateways :
          /\ \A e \in Elems(NewIds) :
                e \notin Elems(handled[h]) /\ e \notin Elems(Unhandled(h))
          /\ \A e \in Elems(Unhandled(h)) : e \notin Elems(NewIds)
    <3> SUFFICES ASSUME NEW h \in Gateways, NEW e \in Elems(NewIds)
                 PROVE  e \notin Elems(handled[h]) /\ e \notin Elems(Unhandled(h))
      OBVIOUS
    <3>1. e \in Nat /\ ~(e <= pos)
      BY <1>1, <1>4, <1>7
    <3> QED BY <3>1, <1>7 DEF IInv, BatchInv
  <2>2. \A h, k \in Gateways :
          /\ \A e \in Elems(Unhandled(h)') : e \notin Elems(handled'[k])
          /\ h # k => \A e \in Elems(Unhandled(h)') : e \notin Elems(Unhandled(k)')
    BY <2>1, <1>3, <1>9 DEF IInv, FreshInv
  <2>3. ASSUME NEW s \in Sockets, NEW f \in Elems(inbox[s])
        PROVE  f <= pos' /\ \A e \in Elems(NewIds) : f < e
    <3>1. f \in Nat /\ f <= pos
      BY <1>7 DEF IInv, FreshInv
    <3>2. \A e \in Elems(NewIds) : e \in Nat /\ e > pos
      BY <1>1, <1>7
    <3> QED BY <3>1, <3>2, <1>4
  <2>4. \A s \in Sockets : \A e \in Elems(Unhandled(home[s])') :
           \A f \in Elems(inbox'[s]) : f < e
    <3> TAKE s \in Sockets
    <3>1. home[s] \in Gateways
      BY DeliveryAssumption
    <3>2. CASE Unhandled(home[s])' = Unhandled(home[s])
      BY <3>2, <1>3 DEF IInv, FreshInv
    <3>3. CASE Unhandled(home[s])' = NewIds
      BY <3>3, <2>3, <1>3
    <3> QED BY <3>1, <3>2, <3>3, <1>9
  <2>5. \A s \in Sockets : \A f \in Elems(inbox'[s]) : f <= pos'
    BY <2>3, <1>3
  <2> QED BY <2>2, <2>4, <2>5 DEF FreshInv
<1>12. TrimInv'
  <2>1. \A e \in 1 .. trimmed : e > pos' => e > pos
    BY <1>4
  <2> QED BY <2>1, <1>3 DEF IInv, TrimInv
<1>13. SocketInv' /\ OnlyTheRaceLeaks' /\ OpenSocketSeesAll'
  <2>1. \A h \in Gateways : Up(h)' = Up(h)
    BY <1>6, <1>9 DEF Up
  <2>2. SocketInv'
    BY <2>1, <1>3, DeliveryAssumption DEF IInv, SocketInv
  <2>3. OnlyTheRaceLeaks'
    BY <2>1, <1>3 DEF IInv, OnlyTheRaceLeaks
  <2>4. OpenSocketSeesAll'
    BY <1>3, SMTT(30) DEF IInv, OpenSocketSeesAll, HandledSince
  <2> QED BY <2>2, <2>3, <2>4
<1>14. AckedWasHandled'
  <2> SUFFICES ASSUME NEW e \in base + 1 .. pos', e \notin pending', e \notin skipped
               PROVE  \E h \in Gateways : e \in Elems(handled[h])
    BY <1>3 DEF AckedWasHandled
  <2>1. CASE e <= pos
    BY <2>1, <1>2, <1>4 DEF IInv, AckedWasHandled
  <2>2. CASE e > pos
    <3>1. e \in pos + 1 .. last /\ e \notin Elems(NewIds)
      BY <2>2, <1>2, <1>4
    <3>2. e \in 1 .. trimmed
      BY <3>1, <1>1, <1>4
    <3> QED BY <3>2, <2>2 DEF IInv, TrimInv
  <2> QED BY <2>1, <2>2, <1>4
<1> QED BY <1>8, <1>10, <1>11, <1>12, <1>13, <1>14 DEF IInv

LEMMA StopKeeps ==
    ASSUME IInv, NEW g \in Gateways, Stop(g)
    PROVE  IInv'
<1> USE DEF IInv, Stop, redisVars, sockVars
<1>1. TypeOK'
  BY DEF TypeOK, Ids
<1>2. BatchInv' /\ FreshInv'
  BY DEF BatchInv, FreshInv, Unhandled
<1>3. SocketInv' /\ OnlyTheRaceLeaks'
  BY DEF SocketInv, OnlyTheRaceLeaks, Up
<1>4. TrimInv' /\ AckedWasHandled' /\ OpenSocketSeesAll'
  BY DEF TrimInv, AckedWasHandled, OpenSocketSeesAll, HandledSince
<1> QED BY <1>1, <1>2, <1>3, <1>4

\* A gateway that gives up its batch leaves the invariants of batches intact.
LEMMA DropsBatch ==
    ASSUME IInv, NEW g \in Gateways, NEW at \in {"left", "exited"},
           proc' = [proc EXCEPT ![g] = at], batch' = [batch EXCEPT ![g] = <<>>],
           UNCHANGED <<log, pos, handled, inbox>>
    PROVE  BatchInv' /\ FreshInv'
<1> USE DEF IInv
<1>1. \A h \in Gateways :
         \/ Unhandled(h)' = Unhandled(h) /\ batch'[h] = batch[h] /\ proc'[h] = proc[h]
         \/ h = g /\ Unhandled(h)' = <<>> /\ batch'[h] = <<>> /\ proc'[h] = at
  BY DEF TypeOK, Unhandled
<1>2. Elems(<<>>) = {} /\ Ascending(<<>>)
  BY ElemsOfEmpty DEF Ascending
<1>3. BatchInv'
  <2> SUFFICES ASSUME NEW h \in Gateways
               PROVE  /\ proc'[h] \notin {"answered", "acking"} => batch'[h] = <<>>
                      /\ proc'[h] = "acking" =>
                            batch'[h] # <<>> /\ Head(batch'[h]) \in Elems(handled[h])
                      /\ Ascending(batch'[h])
                      /\ \A e \in Elems(batch'[h]) \cup Elems(handled[h]) : e <= pos
    BY DEF BatchInv
  <2>1. CASE batch'[h] = batch[h] /\ proc'[h] = proc[h]
    BY <2>1 DEF BatchInv
  <2>2. CASE batch'[h] = <<>> /\ proc'[h] = at
    BY <2>2, <1>2 DEF BatchInv
  <2> QED BY <1>1, <2>1, <2>2
<1>4. FreshInv'
  <2>1. \A h, k \in Gateways :
          /\ \A e \in Elems(Unhandled(h)') : e \notin Elems(handled'[k])
          /\ h # k => \A e \in Elems(Unhandled(h)') : e \notin Elems(Unhandled(k)')
    BY <1>1, <1>2 DEF FreshInv
  <2>2. \A s \in Sockets : \A e \in Elems(Unhandled(home[s])') :
           \A f \in Elems(inbox'[s]) : f < e
    BY <1>1, <1>2, DeliveryAssumption DEF FreshInv
  <2> QED BY <2>1, <2>2 DEF FreshInv
<1> QED BY <1>3, <1>4

LEMMA AckFailsKeeps ==
    ASSUME IInv, NEW g \in Gateways, AckFails(g)
    PROVE  IInv'
<1> USE DEF IInv, AckFails, sockVars
<1>1. TypeOK'
  BY DEF TypeOK, Ids
<1>2. BatchInv' /\ FreshInv'
  BY DropsBatch
<1>3. SocketInv' /\ OnlyTheRaceLeaks'
  <2>1. \A h \in Gateways : Up(h)' = Up(h)
    BY DEF Up, TypeOK
  <2>2. SocketInv'
    BY <2>1, DeliveryAssumption DEF SocketInv
  <2>3. OnlyTheRaceLeaks'
    BY <2>1 DEF OnlyTheRaceLeaks
  <2> QED BY <2>2, <2>3
<1>4. TrimInv' /\ OpenSocketSeesAll'
  BY DEF TrimInv, OpenSocketSeesAll, HandledSince
<1>5. AckedWasHandled'
  <2>1. Head(batch[g]) \in Elems(handled[g])
    BY DEF BatchInv
  <2> QED BY <2>1 DEF AckedWasHandled
<1> QED BY <1>1, <1>2, <1>3, <1>4, <1>5

LEMMA ExitKeeps ==
    ASSUME IInv, NEW g \in Gateways, Exit(g)
    PROVE  IInv'
<1> USE DEF IInv, Exit, redisVars
<1>1. TypeOK'
  <2>1. batch' \in [Gateways -> Seq(Ids)]
    BY DEF TypeOK
  <2>2. registry' \in [Gateways -> [Users -> SUBSET Sockets]]
    BY DEF TypeOK
  <2>3. alive' \in [Sockets -> BOOLEAN]
    BY DEF TypeOK
  <2>4. phase' \in [Sockets -> {"unused", "resolving", "closeMissed", "serving",
                                "leaked", "ended"}]
    BY DEF TypeOK
  <2> QED BY <2>1, <2>2, <2>3, <2>4 DEF TypeOK, Ids
<1>2. BatchInv' /\ FreshInv'
  BY DropsBatch
<1>3. \A s \in Sockets :
        /\ home[s] = g => phase'[s] = "ended" /\ ~alive'[s]
        /\ home[s] # g => phase'[s] = phase[s] /\ (alive'[s] <=> alive[s])
  BY DEF TypeOK
<1>4. \A h \in Gateways : h # g => (Up(h)' <=> Up(h)) /\ registry'[h] = registry[h]
  BY DEF Up, TypeOK
<1>5. \A u \in Users : registry'[g][u] = {}
  BY DEF TypeOK
<1>6. SocketInv'
  BY <1>3, <1>4, DeliveryAssumption DEF SocketInv
<1>7. OnlyTheRaceLeaks'
  BY <1>3, <1>4, <1>5 DEF OnlyTheRaceLeaks
<1>8. TrimInv' /\ AckedWasHandled'
  BY DEF TrimInv, AckedWasHandled
<1>9. OpenSocketSeesAll'
  BY <1>3 DEF OpenSocketSeesAll, HandledSince
<1> QED BY <1>1, <1>2, <1>6, <1>7, <1>8, <1>9

\* Handling the first entry of `rest`, or none: used for the answer of a read
\* and for an ack, which differ in what they take out of pending.
LEMMA DispatchKeeps ==
    ASSUME IInv, NEW g \in Gateways, proc[g] \in {"answered", "acking"},
           Dispatch(g, Unhandled(g)),
           UNCHANGED <<log, trimmed, grouped, pos, base, skipped, stopped, sockVars>>,
           pending' \subseteq pending,
           \A e \in pending : e \notin pending' => e \in Elems(handled[g])
    PROVE  IInv'
<1> DEFINE rest == Unhandled(g)
           e0 == Head(rest)
<1>1. /\ rest \in Seq(Ids) /\ rest \in Seq(Nat) /\ Ascending(rest)
      /\ \A e \in Elems(rest) : e <= pos
  <2>1. rest \in Seq(Ids) /\ Ids \subseteq Nat
    BY UnhandledOfBatch DEF Ids
  <2> QED BY <2>1, UnhandledOfBatch, SeqGrows
<1>2. /\ batch' = [batch EXCEPT ![g] = rest]
      /\ proc' = [proc EXCEPT ![g] = IF rest = <<>> THEN "top" ELSE "acking"]
      /\ rest = <<>> => handled' = handled /\ inbox' = inbox
      /\ rest # <<>> =>
            /\ handled' = [handled EXCEPT ![g] = Append(@, e0)]
            /\ inbox' = [s \in Sockets |-> IF s \in Recipients(g, log[e0])
                                           THEN Append(inbox[s], e0) ELSE inbox[s]]
  BY DEF Dispatch, NextAwait
<1>3. /\ log' = log /\ trimmed' = trimmed /\ base' = base /\ skipped' = skipped
      /\ pos' = pos /\ grouped' = grouped /\ stopped' = stopped
      /\ registry' = registry /\ user' = user
      /\ phase' = phase /\ alive' = alive /\ since' = since
  BY DEF sockVars
<1>4. /\ \A h \in Gateways : handled[h] \in Seq(Ids) /\ Elems(handled[h]) \subseteq Nat
      /\ \A s \in Sockets : inbox[s] \in Seq(Ids) /\ inbox[s] \in Seq(Nat)
                            /\ Elems(inbox[s]) \subseteq Nat
      /\ pos \in Nat /\ Ids \subseteq Nat
  <2>1. Ids \subseteq Nat /\ pos \in Nat
    BY DEF Ids, IInv, TypeOK
  <2>2. \A h \in Gateways : handled[h] \in Seq(Ids) /\ Elems(handled[h]) \subseteq Ids
    BY ElemsTyped DEF IInv, TypeOK
  <2>3. \A s \in Sockets : inbox[s] \in Seq(Ids) /\ Elems(inbox[s]) \subseteq Ids
    BY ElemsTyped DEF IInv, TypeOK
  <2>4. \A s \in Sockets : inbox[s] \in Seq(Nat)
    BY <2>1, <2>3, SeqGrows
  <2> QED BY <2>1, <2>2, <2>3, <2>4
<1>5. Up(g) /\ \A h \in Gateways : Up(h)' <=> Up(h)
  BY <1>2 DEF IInv, TypeOK, Up
<1>6. TrimInv'
  BY <1>3 DEF IInv, TrimInv
<1> HIDE DEF rest, e0
<1>7. CASE rest = <<>>
  <2>1. \A h \in Gateways :
           \/ Unhandled(h)' = Unhandled(h) /\ batch'[h] = batch[h] /\ proc'[h] = proc[h]
           \/ h = g /\ Unhandled(h)' = <<>> /\ batch'[h] = <<>> /\ proc'[h] = "top"
    BY <1>2, <1>7 DEF IInv, TypeOK, Unhandled
  <2>2. Elems(<<>>) = {} /\ Ascending(<<>>)
    BY ElemsOfEmpty DEF Ascending
  <2>3. handled' = handled /\ inbox' = inbox
    BY <1>2, <1>7
  <2>4. BatchInv'
    <3> SUFFICES ASSUME NEW h \in Gateways
                 PROVE  /\ proc'[h] \notin {"answered", "acking"} => batch'[h] = <<>>
                        /\ proc'[h] = "acking" =>
                              batch'[h] # <<>> /\ Head(batch'[h]) \in Elems(handled[h])
                        /\ Ascending(batch'[h])
                        /\ \A e \in Elems(batch'[h]) \cup Elems(handled[h]) : e <= pos
      BY <1>3, <2>3 DEF BatchInv
    <3>1. CASE batch'[h] = batch[h] /\ proc'[h] = proc[h]
      BY <3>1 DEF IInv, BatchInv
    <3>2. CASE batch'[h] = <<>> /\ proc'[h] = "top"
      BY <3>2, <2>2 DEF IInv, BatchInv
    <3> QED BY <2>1, <3>1, <3>2
  <2>5. FreshInv'
    <3>1. \A h, k \in Gateways :
            /\ \A e \in Elems(Unhandled(h)') : e \notin Elems(handled'[k])
            /\ h # k => \A e \in Elems(Unhandled(h)') : e \notin Elems(Unhandled(k)')
      BY <2>1, <2>2, <2>3 DEF IInv, FreshInv
    <3>2. \A s \in Sockets : \A e \in Elems(Unhandled(home[s])') :
             \A f \in Elems(inbox'[s]) : f < e
      BY <2>1, <2>2, <2>3, DeliveryAssumption DEF IInv, FreshInv
    <3>3. \A s \in Sockets : \A f \in Elems(inbox'[s]) : f <= pos'
      BY <2>3, <1>3 DEF IInv, FreshInv
    <3> QED BY <3>1, <3>2, <3>3 DEF FreshInv
  <2>6. TypeOK'
    BY <1>1, <1>2, <1>3, <1>7, <2>3 DEF IInv, TypeOK, Ids
  <2>7. SocketInv'
    BY <1>3, <1>5, <2>3, DeliveryAssumption DEF IInv, SocketInv
  <2>8. OnlyTheRaceLeaks'
    BY <1>3, <1>5, <2>3 DEF IInv, OnlyTheRaceLeaks
  <2>9. OpenSocketSeesAll'
    BY <1>3, <2>3 DEF IInv, OpenSocketSeesAll, HandledSince
  <2>10. AckedWasHandled'
    BY <1>3, <2>3 DEF IInv, AckedWasHandled
  <2> QED BY <1>6, <2>4, <2>5, <2>6, <2>7, <2>8, <2>9, <2>10 DEF IInv
<1>8. CASE rest # <<>>
  <2>1. /\ e0 \in Ids /\ e0 \in Nat /\ e0 <= pos
        /\ Tail(rest) \in Seq(Ids) /\ Elems(rest) = {e0} \cup Elems(Tail(rest))
        /\ Ascending(Tail(rest)) /\ \A e \in Elems(Tail(rest)) : e0 < e
    BY <1>1, <1>4, <1>8, ElemsOfTail, AscendingTail DEF e0
  <2>2. /\ batch'[g] = rest /\ proc'[g] = "acking" /\ Unhandled(g)' = Tail(rest)
        /\ \A h \in Gateways : h # g =>
              batch'[h] = batch[h] /\ proc'[h] = proc[h] /\ Unhandled(h)' = Unhandled(h)
    BY <1>2, <1>8 DEF IInv, TypeOK, Unhandled
  <2>3. /\ handled'[g] = Append(handled[g], e0)
        /\ \A h \in Gateways : h # g => handled'[h] = handled[h]
        /\ \A h \in Gateways : Elems(handled'[h]) =
              IF h = g THEN Elems(handled[h]) \cup {e0} ELSE Elems(handled[h])
    <3>1. /\ handled'[g] = Append(handled[g], e0)
          /\ \A h \in Gateways : h # g => handled'[h] = handled[h]
      BY <1>2, <1>8 DEF IInv, TypeOK
    <3>2. Elems(Append(handled[g], e0)) = Elems(handled[g]) \cup {e0}
      BY <1>4, <2>1, ElemsOfAppend
    <3> QED BY <3>1, <3>2
  <2>4. \A s \in Sockets :
           \/ /\ s \notin Recipients(g, log[e0]) /\ inbox'[s] = inbox[s]
           \/ /\ s \in Recipients(g, log[e0]) /\ inbox'[s] = Append(inbox[s], e0)
              /\ Elems(inbox'[s]) = Elems(inbox[s]) \cup {e0}
    <3>1. \A s \in Sockets : inbox'[s] = IF s \in Recipients(g, log[e0])
                                       THEN Append(inbox[s], e0) ELSE inbox[s]
      BY <1>2, <1>8
    <3>2. \A s \in Sockets : Elems(Append(inbox[s], e0)) = Elems(inbox[s]) \cup {e0}
      BY <1>4, <2>1, ElemsOfAppend
    <3> QED BY <3>1, <3>2
  <2>5. log[e0] \in Users
    BY <2>1 DEF IInv, TypeOK, Ids
  <2>6. \A s \in Sockets : s \in Recipients(g, log[e0]) =>
           home[s] = g /\ user[s] = log[e0] /\ phase[s] = "serving" /\ alive[s]
    BY <2>5 DEF IInv, Recipients, OnlyTheRaceLeaks
  <2>7. \A s \in Sockets : \A f \in Elems(inbox[s]) : home[s] = g => f < e0
    BY <2>1 DEF IInv, FreshInv, rest
  <2>8. \A s \in Sockets : Ascending(inbox'[s])
    <3> TAKE s \in Sockets
    <3>1. Ascending(inbox[s]) /\ inbox[s] \in Seq(Nat)
      BY <1>4 DEF IInv, SocketInv
    <3>2. CASE s \in Recipients(g, log[e0])
      <4>1. \A f \in Elems(inbox[s]) : f < e0
        BY <3>2, <2>6, <2>7
      <4>2. Ascending(Append(inbox[s], e0))
        BY <3>1, <4>1, <2>1, AscendingAppend
      <4> QED BY <3>2, <4>2, <2>4
    <3>3. CASE s \notin Recipients(g, log[e0])
      BY <3>1, <3>3, <2>4
    <3> QED BY <3>2, <3>3
  <2>9. TypeOK'
    <3>1. handled' \in [Gateways -> Seq(Ids)]
      <4>1. Append(handled[g], e0) \in Seq(Ids)
        BY <1>4, <2>1, ElemsOfAppend
      <4> QED BY <4>1, <1>2, <1>8 DEF IInv, TypeOK
    <3>2. inbox' \in [Sockets -> Seq(Ids)]
      <4>1. \A s \in Sockets : Append(inbox[s], e0) \in Seq(Ids)
        BY <1>4, <2>1, ElemsOfAppend
      <4> QED BY <4>1, <1>2, <1>4, <1>8
    <3>3. batch' \in [Gateways -> Seq(Ids)]
      BY <1>1, <1>2 DEF IInv, TypeOK
    <3>4. proc' \in [Gateways -> {"unstarted", "ensuring", "top", "answered",
                                  "acking", "left", "exited"}]
      BY <1>2 DEF IInv, TypeOK
    <3> QED BY <3>1, <3>2, <3>3, <3>4, <1>3 DEF IInv, TypeOK, Ids
  <2>10. BatchInv'
    <3> SUFFICES ASSUME NEW h \in Gateways
                 PROVE  /\ proc'[h] \notin {"answered", "acking"} => batch'[h] = <<>>
                        /\ proc'[h] = "acking" =>
                              batch'[h] # <<>> /\ Head(batch'[h]) \in Elems(handled'[h])
                        /\ Ascending(batch'[h])
                        /\ \A e \in Elems(batch'[h]) \cup Elems(handled'[h]) : e <= pos
      BY <1>3 DEF BatchInv
    <3>1. CASE h = g
      <4>1. Elems(handled'[g]) = Elems(handled[g]) \cup {e0}
        BY <2>3
      <4>2. \A e \in Elems(handled[g]) : e <= pos
        BY DEF IInv, BatchInv
      <4> QED BY <3>1, <4>1, <4>2, <1>1, <1>8, <2>1, <2>2 DEF e0
    <3>2. CASE h # g
      BY <3>2, <2>2, <2>3 DEF IInv, BatchInv
    <3> QED BY <3>1, <3>2
  <2>11. FreshInv'
    <3>1. \A h \in Gateways : Elems(Unhandled(h)') \subseteq Elems(Unhandled(h))
      BY <2>1, <2>2 DEF rest
    <3>2. \A h \in Gateways : e0 \notin Elems(Unhandled(h)')
      <4>1. e0 \notin Elems(Tail(rest))
        BY <2>1, <1>1, <1>4
      <4>2. \A h \in Gateways : h # g => e0 \notin Elems(Unhandled(h))
        BY <2>1 DEF IInv, FreshInv, rest
      <4> QED BY <4>1, <4>2, <2>2
    <3>3. \A h, k \in Gateways :
            /\ \A e \in Elems(Unhandled(h)') : e \notin Elems(handled'[k])
            /\ h # k => \A e \in Elems(Unhandled(h)') : e \notin Elems(Unhandled(k)')
      <4> SUFFICES ASSUME NEW h \in Gateways, NEW k \in Gateways,
                          NEW e \in Elems(Unhandled(h)')
                   PROVE  /\ e \notin Elems(handled'[k])
                          /\ h # k => e \notin Elems(Unhandled(k)')
        OBVIOUS
      <4>1. e # e0 /\ e \in Elems(Unhandled(h))
        BY <3>1, <3>2
      <4>2. /\ e \notin Elems(handled[k])
            /\ h # k => e \notin Elems(Unhandled(k))
        BY <4>1 DEF IInv, FreshInv
      <4>3. Elems(handled'[k]) \subseteq Elems(handled[k]) \cup {e0}
        BY <2>3
      <4> QED BY <4>1, <4>2, <4>3, <3>1
    <3>4. \A s \in Sockets : \A e \in Elems(Unhandled(home[s])') :
             \A f \in Elems(inbox'[s]) : f < e
      <4> TAKE s \in Sockets
      <4>1. \A e \in Elems(Unhandled(home[s])') : \A f \in Elems(inbox[s]) : f < e
        BY <3>1, DeliveryAssumption DEF IInv, FreshInv
      <4>2. CASE s \in Recipients(g, log[e0])
        <5>1. /\ Elems(inbox'[s]) = Elems(inbox[s]) \cup {e0}
              /\ Unhandled(home[s])' = Tail(rest)
          BY <4>2, <2>2, <2>4, <2>6
        <5>2. \A e \in Elems(Unhandled(home[s])') : e0 < e
          BY <5>1, <2>1
        <5> QED BY <4>1, <5>1, <5>2
      <4>3. CASE s \notin Recipients(g, log[e0])
        BY <4>1, <4>3, <2>4
      <4> QED BY <4>2, <4>3
    <3>5. \A s \in Sockets : \A f \in Elems(inbox'[s]) : f <= pos'
      BY <1>3, <2>1, <2>4 DEF IInv, FreshInv
    <3> QED BY <3>3, <3>4, <3>5 DEF FreshInv
  <2>12. SocketInv'
    <3>1. \A s \in Sockets : phase[s] # "serving" => inbox'[s] = inbox[s]
      BY <2>4, <2>6
    <3>2. \A s \in Sockets : since[s] <= Len(handled'[home[s]])
      <4> TAKE s \in Sockets
      <4>1. /\ home[s] \in Gateways /\ since[s] \in Nat
            /\ Len(handled[home[s]]) \in Nat /\ since[s] <= Len(handled[home[s]])
        BY <1>4, DeliveryAssumption DEF IInv, SocketInv, TypeOK
      <4>2. Len(Append(handled[g], e0)) = Len(handled[g]) + 1
        BY <1>4, <2>1, ElemsOfAppend
      <4> QED BY <4>1, <4>2, <2>3
    <3> QED BY <3>1, <3>2, <1>3, <1>5, <2>8, DeliveryAssumption DEF IInv, SocketInv
  <2>13. OnlyTheRaceLeaks'
    <3>1. \A s \in Sockets : phase[s] # "serving" => inbox'[s] = inbox[s]
      BY <2>4, <2>6
    <3> QED BY <3>1, <1>3, <1>5 DEF IInv, OnlyTheRaceLeaks
  <2>14. AckedWasHandled'
    <3>1. \A h \in Gateways : Elems(handled[h]) \subseteq Elems(handled'[h])
      BY <2>3
    <3> QED BY <3>1, <1>3 DEF IInv, AckedWasHandled
  <2>15. OpenSocketSeesAll'
    <3> SUFFICES ASSUME NEW s \in Sockets, phase[s] = "serving", alive[s]
                 PROVE  Elems(inbox'[s]) = {e \in HandledSince(s)' : log[e] = user[s]}
      BY <1>3, <2>8 DEF OpenSocketSeesAll, Ascending
    <3>1. Elems(inbox[s]) = {e \in HandledSince(s) : log[e] = user[s]}
      BY DEF IInv, OpenSocketSeesAll
    <3>2. CASE home[s] # g
      <4>1. HandledSince(s)' = HandledSince(s)
        BY <3>2, <1>3, <2>3, DeliveryAssumption DEF HandledSince
      <4>2. inbox'[s] = inbox[s]
        BY <3>2, <2>4, <2>6
      <4> QED BY <3>1, <4>1, <4>2
    <3>3. CASE home[s] = g
      <4>1. HandledSince(s)' = HandledSince(s) \cup {e0}
        <5>1. /\ since[s] \in Nat /\ since[s] <= Len(handled[g])
              /\ handled[g] \in Seq(Ids)
          BY <3>3, <1>4 DEF IInv, SocketInv, TypeOK
        <5>2. /\ Len(Append(handled[g], e0)) = Len(handled[g]) + 1
              /\ \A i \in 1 .. Len(handled[g]) : Append(handled[g], e0)[i] = handled[g][i]
              /\ Append(handled[g], e0)[Len(handled[g]) + 1] = e0
          BY <5>1, <2>1
        <5>3. since[s] + 1 .. Len(handled[g]) + 1
                 = (since[s] + 1 .. Len(handled[g])) \cup {Len(handled[g]) + 1}
          BY <5>1
        <5>4. HandledSince(s)' = {Append(handled[g], e0)[i] :
                                     i \in since[s] + 1 .. Len(handled[g]) + 1}
          BY <3>3, <1>3, <2>3, <5>2 DEF HandledSince
        <5>5. HandledSince(s) = {Append(handled[g], e0)[i] :
                                     i \in since[s] + 1 .. Len(handled[g])}
          BY <3>3, <5>1, <5>2 DEF HandledSince
        <5> QED BY <5>2, <5>3, <5>4, <5>5, ZenonT(40)
      <4>2. s \in registry[g][user[s]]
        BY <3>3 DEF IInv, SocketInv
      <4>3. CASE log[e0] = user[s]
        <5>1. s \in Recipients(g, log[e0])
          BY <4>2, <4>3 DEF Recipients
        <5> QED BY <5>1, <4>1, <4>3, <3>1, <2>4
      <4>4. CASE log[e0] # user[s]
        <5>1. inbox'[s] = inbox[s]
          BY <4>4, <2>4, <2>6
        <5> QED BY <5>1, <4>1, <4>4, <3>1
      <4> QED BY <4>3, <4>4
    <3> QED BY <3>2, <3>3
  <2> QED BY <1>6, <2>9, <2>10, <2>11, <2>12, <2>13, <2>14, <2>15 DEF IInv
<1> QED BY <1>7, <1>8

LEMMA BatchArrivesKeeps ==
    ASSUME IInv, NEW g \in Gateways, BatchArrives(g)
    PROVE  IInv'
<1>1. Dispatch(g, Unhandled(g))
  BY DEF BatchArrives, Unhandled
<1>2. UNCHANGED <<log, trimmed, grouped, pos, base, skipped, stopped, sockVars>>
  BY DEF BatchArrives, redisVars
<1>3. proc[g] \in {"answered", "acking"} /\ pending' = pending
  BY DEF BatchArrives, redisVars
<1> QED BY <1>1, <1>2, <1>3, DispatchKeeps

LEMMA AckedKeeps ==
    ASSUME IInv, NEW g \in Gateways, Acked(g)
    PROVE  IInv'
<1>1. Dispatch(g, Unhandled(g))
  BY DEF Acked, Unhandled
<1>2. UNCHANGED <<log, trimmed, grouped, pos, base, skipped, stopped, sockVars>>
  BY DEF Acked
<1>3. proc[g] \in {"answered", "acking"} /\ pending' = pending \ {Head(batch[g])}
  BY DEF Acked
<1>4. Head(batch[g]) \in Elems(handled[g])
  BY DEF Acked, IInv, BatchInv
<1> QED BY <1>1, <1>2, <1>3, <1>4, DispatchKeeps

-----------------------------------------------------------------------------
(* Sockets.                                                                *)

\* A socket's handler leaves the stream, the loops and the inboxes alone.
LEMMA SocketsOnly ==
    ASSUME IInv, UNCHANGED <<redisVars, loopVars, inbox>>
    PROVE  BatchInv' /\ FreshInv' /\ TrimInv' /\ AckedWasHandled'
           /\ \A g \in Gateways : Up(g)' <=> Up(g)
<1> USE DEF IInv, redisVars, loopVars
<1>1. BatchInv' /\ FreshInv'
  BY DEF BatchInv, FreshInv, Unhandled
<1>2. TrimInv' /\ AckedWasHandled'
  BY DEF TrimInv, AckedWasHandled
<1> QED BY <1>1, <1>2 DEF Up

LEMMA ConnectKeeps ==
    ASSUME IInv, NEW s \in Sockets, NEW u \in Users, Connect(s, u)
    PROVE  IInv'
<1> USE DEF IInv, Connect
<1>1. BatchInv' /\ FreshInv' /\ TrimInv' /\ AckedWasHandled'
      /\ \A g \in Gateways : Up(g)' <=> Up(g)
  BY SocketsOnly
<1> USE DEF redisVars, loopVars
<1>2. TypeOK'
  BY DEF TypeOK, Ids
<1>3. /\ phase[s] = "unused" /\ phase'[s] = "resolving" /\ user'[s] = u
      /\ \A t \in Sockets : t # s =>
            phase'[t] = phase[t] /\ user'[t] = user[t] /\ (alive'[t] <=> alive[t])
  BY DEF TypeOK
<1>4. SocketInv'
  <2>1. inbox[s] = <<>> /\ Up(home[s])
    BY <1>3 DEF SocketInv
  <2> QED BY <1>1, <1>3, <2>1, DeliveryAssumption DEF SocketInv
<1>5. OnlyTheRaceLeaks'
  <2>1. \A g \in Gateways, v \in Users : s \notin registry[g][v]
    BY <1>3 DEF OnlyTheRaceLeaks
  <2> QED BY <1>1, <1>3, <2>1 DEF OnlyTheRaceLeaks
<1>6. OpenSocketSeesAll'
  BY <1>3 DEF OpenSocketSeesAll, HandledSince
<1> QED BY <1>1, <1>2, <1>4, <1>5, <1>6

LEMMA UnauthenticatedKeeps ==
    ASSUME IInv, NEW s \in Sockets, Unauthenticated(s)
    PROVE  IInv'
<1> USE DEF IInv, Unauthenticated
<1>1. BatchInv' /\ FreshInv' /\ TrimInv' /\ AckedWasHandled'
      /\ \A g \in Gateways : Up(g)' <=> Up(g)
  BY SocketsOnly
<1> USE DEF redisVars, loopVars
<1>2. TypeOK'
  BY DEF TypeOK, Ids
<1>3. /\ phase[s] \in {"resolving", "closeMissed"} /\ phase'[s] = "ended"
      /\ \A t \in Sockets : t # s =>
            phase'[t] = phase[t] /\ (alive'[t] <=> alive[t])
  BY DEF TypeOK
<1>4. SocketInv'
  BY <1>1, <1>3, DeliveryAssumption DEF SocketInv
<1>5. OnlyTheRaceLeaks'
  <2>1. \A g \in Gateways, v \in Users : s \notin registry[g][v]
    BY <1>3 DEF OnlyTheRaceLeaks
  <2> QED BY <1>1, <1>3, <2>1 DEF OnlyTheRaceLeaks
<1>6. OpenSocketSeesAll'
  BY <1>3 DEF OpenSocketSeesAll, HandledSince
<1> QED BY <1>1, <1>2, <1>4, <1>5, <1>6

\* What a change of one registration does.
LEMMA OneRegistration ==
    ASSUME TypeOK, NEW h \in Gateways, NEW w \in Users, NEW X \in SUBSET Sockets,
           registry' = [registry EXCEPT ![h][w] = X]
    PROVE  /\ registry' \in [Gateways -> [Users -> SUBSET Sockets]]
           /\ \A g \in Gateways, u \in Users :
                 registry'[g][u] = IF g = h /\ u = w THEN X ELSE registry[g][u]
<1>1. registry[h] \in [Users -> SUBSET Sockets]
  BY DEF TypeOK
<1>2. [registry[h] EXCEPT ![w] = X] \in [Users -> SUBSET Sockets]
  BY <1>1
<1>3. registry' = [registry EXCEPT ![h] = [registry[h] EXCEPT ![w] = X]]
  OBVIOUS
<1>4. registry' \in [Gateways -> [Users -> SUBSET Sockets]]
  BY <1>2, <1>3 DEF TypeOK
<1>5. \A g \in Gateways : registry'[g] = IF g = h THEN [registry[h] EXCEPT ![w] = X]
                                                 ELSE registry[g]
  BY <1>3 DEF TypeOK
<1> QED BY <1>1, <1>4, <1>5

LEMMA RegisterKeeps ==
    ASSUME IInv, NEW s \in Sockets, Register(s)
    PROVE  IInv'
<1> USE DEF IInv, Register
<1>1. BatchInv' /\ FreshInv' /\ TrimInv' /\ AckedWasHandled'
      /\ \A g \in Gateways : Up(g)' <=> Up(g)
  BY SocketsOnly
<1> USE DEF redisVars, loopVars
<1>2. /\ home[s] \in Gateways /\ user[s] \in Users /\ Up(home[s])
      /\ inbox[s] = <<>> /\ Len(handled[home[s]]) \in Nat
  <2>1. home[s] \in Gateways
    BY DeliveryAssumption
  <2>2. user[s] \in Users /\ Up(home[s]) /\ inbox[s] = <<>>
    BY DEF SocketInv
  <2>3. Len(handled[home[s]]) \in Nat
    BY <2>1 DEF TypeOK
  <2> QED BY <2>1, <2>2, <2>3
<1>3. /\ registry' \in [Gateways -> [Users -> SUBSET Sockets]]
      /\ \A t \in Sockets, g \in Gateways, u \in Users :
            t \in registry'[g][u] <=>
               t \in registry[g][u] \/ (t = s /\ g = home[s] /\ u = user[s])
  <2> DEFINE X == registry[home[s]][user[s]] \cup {s}
  <2>1. registry' = [registry EXCEPT ![home[s]][user[s]] = X]
    OBVIOUS
  <2>2. X \in SUBSET Sockets
    BY <1>2 DEF TypeOK
  <2>3. TypeOK
    OBVIOUS
  <2> HIDE DEF X, IInv, Register
  <2>4. /\ registry' \in [Gateways -> [Users -> SUBSET Sockets]]
        /\ \A g \in Gateways, u \in Users :
              registry'[g][u] = IF g = home[s] /\ u = user[s] THEN X ELSE registry[g][u]
    BY <1>2, <2>1, <2>2, <2>3, OneRegistration, ZenonT(40)
  <2> QED BY <2>4 DEF X
<1>4. /\ phase'[s] \in {"serving", "leaked"} /\ since'[s] = Len(handled[home[s]])
      /\ phase'[s] = "leaked" => phase[s] = "closeMissed"
      /\ \A t \in Sockets : t # s => phase'[t] = phase[t] /\ since'[t] = since[t]
  BY DEF TypeOK
<1>5. phase'[s] = "leaked" => ~alive[s]
  BY <1>4 DEF SocketInv
<1>6. TypeOK'
  <2>1. registry' \in [Gateways -> [Users -> SUBSET Sockets]]
    BY <1>3
  <2>2. /\ phase' \in [Sockets -> {"unused", "resolving", "closeMissed", "serving",
                                   "leaked", "ended"}]
        /\ since' \in [Sockets -> Nat]
    BY <1>2 DEF TypeOK
  <2> QED BY <2>1, <2>2 DEF TypeOK, Ids
<1>7. SocketInv'
  <2> SUFFICES ASSUME NEW t \in Sockets
               PROVE  /\ phase'[t] = "unused" => ~alive[t] /\ user[t] = NoUser
                      /\ phase'[t] \in {"unused", "resolving", "closeMissed"}
                            => inbox[t] = <<>>
                      /\ phase'[t] \in {"resolving", "closeMissed", "serving", "leaked"}
                            => Up(home[t]) /\ user[t] \in Users
                      /\ phase'[t] = "closeMissed" => ~alive[t]
                      /\ phase'[t] = "serving" => t \in registry'[home[t]][user[t]]
                      /\ since'[t] <= Len(handled[home[t]])
                      /\ Ascending(inbox[t])
    BY <1>1, DeliveryAssumption DEF SocketInv
  <2>1. CASE t = s
    BY <2>1, <1>2, <1>3, <1>4, <1>5 DEF SocketInv
  <2>2. CASE t # s
    BY <2>2, <1>3, <1>4, DeliveryAssumption DEF SocketInv
  <2> QED BY <2>1, <2>2
<1>8. OnlyTheRaceLeaks'
  BY <1>1, <1>2, <1>3, <1>4, <1>5 DEF OnlyTheRaceLeaks
<1>9. OpenSocketSeesAll'
  <2> SUFFICES ASSUME NEW t \in Sockets, phase'[t] = "serving", alive[t]
               PROVE  /\ Elems(inbox[t]) = {e \in HandledSince(t)' : log[e] = user[t]}
                      /\ Ascending(inbox[t])
    BY DEF OpenSocketSeesAll, Ascending
  <2>1. CASE t = s
    <3>1. HandledSince(s)' = {}
      BY <1>2, <1>4 DEF HandledSince
    <3> QED BY <2>1, <3>1, <1>2, ElemsOfEmpty DEF Ascending
  <2>2. CASE t # s
    <3>1. HandledSince(t)' = HandledSince(t) /\ phase[t] = "serving"
      BY <2>2, <1>4 DEF HandledSince
    <3> QED BY <3>1 DEF OpenSocketSeesAll, Ascending
  <2> QED BY <2>1, <2>2
<1> QED BY <1>1, <1>6, <1>7, <1>8, <1>9

LEMMA DisconnectKeeps ==
    ASSUME IInv, NEW s \in Sockets, Disconnect(s)
    PROVE  IInv'
<1> USE DEF IInv, Disconnect
<1>1. BatchInv' /\ FreshInv' /\ TrimInv' /\ AckedWasHandled'
      /\ \A g \in Gateways : Up(g)' <=> Up(g)
  BY SocketsOnly
<1> USE DEF redisVars, loopVars
<1>2. TypeOK'
  BY DEF TypeOK, Ids
<1>3. ~alive'[s] /\ \A t \in Sockets : t # s => (alive'[t] <=> alive[t])
  BY DEF TypeOK
<1>4. SocketInv'
  BY <1>1, <1>3, DeliveryAssumption DEF SocketInv
<1>5. OnlyTheRaceLeaks'
  BY <1>1, <1>3 DEF OnlyTheRaceLeaks
<1>6. OpenSocketSeesAll'
  BY <1>3 DEF OpenSocketSeesAll, HandledSince
<1> QED BY <1>1, <1>2, <1>4, <1>5, <1>6

LEMMA CloseEventKeeps ==
    ASSUME IInv, NEW s \in Sockets, CloseEvent(s)
    PROVE  IInv'
<1> USE DEF IInv, CloseEvent
<1>1. BatchInv' /\ FreshInv' /\ TrimInv' /\ AckedWasHandled'
      /\ \A g \in Gateways : Up(g)' <=> Up(g)
  BY SocketsOnly
<1> USE DEF redisVars, loopVars
<1>2. /\ phase[s] \in {"resolving", "serving"}
      /\ phase[s] = "resolving" => phase'[s] = "closeMissed" /\ registry' = registry
      /\ phase[s] = "serving" =>
            /\ phase'[s] = "ended"
            /\ registry' = [registry EXCEPT ![home[s]][user[s]] = @ \ {s}]
      /\ \A t \in Sockets : t # s => phase'[t] = phase[t]
  BY DEF TypeOK
<1>3. /\ registry' \in [Gateways -> [Users -> SUBSET Sockets]]
      /\ \A t \in Sockets, g \in Gateways, u \in Users :
            t \in registry'[g][u] <=>
               /\ t \in registry[g][u]
               /\ ~(t = s /\ g = home[s] /\ u = user[s] /\ phase[s] = "serving")
  <2>1. CASE phase[s] = "resolving"
    BY <2>1, <1>2 DEF TypeOK
  <2>2. CASE phase[s] = "serving"
    <3>1. home[s] \in Gateways /\ user[s] \in Users
      BY <2>2, DeliveryAssumption DEF SocketInv
    <3>2. registry' = [registry EXCEPT ![home[s]][user[s]] =
                          registry[home[s]][user[s]] \ {s}]
      BY <2>2, <1>2
    <3>3. registry[home[s]][user[s]] \ {s} \in SUBSET Sockets
      BY <3>1 DEF TypeOK
    <3> QED BY <2>2, <3>1, <3>2, <3>3, OneRegistration, ZenonT(40)
  <2> QED BY <1>2, <2>1, <2>2
<1>4. \A g \in Gateways, u \in Users : s \notin registry'[g][u]
  BY <1>2, <1>3 DEF OnlyTheRaceLeaks
<1>5. TypeOK'
  <2>1. registry' \in [Gateways -> [Users -> SUBSET Sockets]]
    BY <1>3
  <2>2. phase' \in [Sockets -> {"unused", "resolving", "closeMissed", "serving",
                                "leaked", "ended"}]
    BY DEF TypeOK
  <2> QED BY <2>1, <2>2 DEF TypeOK, Ids
<1>6. SocketInv'
  BY <1>1, <1>2, <1>3, DeliveryAssumption DEF SocketInv
<1>7. OnlyTheRaceLeaks'
  BY <1>1, <1>2, <1>3, <1>4 DEF OnlyTheRaceLeaks
<1>8. OpenSocketSeesAll'
  BY <1>2 DEF OpenSocketSeesAll, HandledSince
<1> QED BY <1>1, <1>5, <1>6, <1>7, <1>8

-----------------------------------------------------------------------------
LEMMA LoopKeeps ==
    ASSUME IInv, NEW g \in Gateways, Loop(g)
    PROVE  IInv'
<1>1. CASE EnsureGroup(g)
  BY <1>1, EnsureGroupKeeps
<1>2. CASE LeaveLoop(g)
  BY <1>2, IdleMovesKeep DEF LeaveLoop, Idle
<1>3. CASE Read(g)
  BY <1>3, ReadKeeps
<1>4. CASE ReadFails(g)
  BY <1>4, IdleMovesKeep DEF ReadFails, Idle
<1>5. CASE BatchArrives(g)
  BY <1>5, BatchArrivesKeeps
<1>6. CASE Acked(g)
  BY <1>6, AckedKeeps
<1>7. CASE AckFails(g)
  BY <1>7, AckFailsKeeps
<1> QED BY <1>1, <1>2, <1>3, <1>4, <1>5, <1>6, <1>7 DEF Loop

LEMMA ClientKeeps ==
    ASSUME IInv, NEW s \in Sockets, Client(s)
    PROVE  IInv'
BY ConnectKeeps, UnauthenticatedKeeps, RegisterKeeps, DisconnectKeeps, CloseEventKeeps
   DEF Client

LEMMA InitEstablishes == Init => IInv
<1> SUFFICES ASSUME Init PROVE IInv
  OBVIOUS
<1> USE DEF Init
<1>1. TypeOK
  <2>1. <<>> \in Seq(Users) /\ <<>> \in Seq(Ids) /\ Len(<<>>) = 0
    OBVIOUS
  <2>2. /\ batch \in [Gateways -> Seq(Ids)] /\ handled \in [Gateways -> Seq(Ids)]
        /\ inbox \in [Sockets -> Seq(Ids)]
    BY <2>1
  <2>3. /\ registry \in [Gateways -> [Users -> SUBSET Sockets]]
        /\ proc \in [Gateways -> {"unstarted", "ensuring", "top", "answered",
                                  "acking", "left", "exited"}]
        /\ stopped \in [Gateways -> BOOLEAN] /\ alive \in [Sockets -> BOOLEAN]
    OBVIOUS
  <2>4. /\ log \in Seq(Users) /\ Len(log) = 0 /\ Len(log) <= MaxEvents
    BY <2>1, DeliveryAssumption
  <2>5. /\ user \in [Sockets -> Users \cup {NoUser}] /\ since \in [Sockets -> Nat]
        /\ phase \in [Sockets -> {"unused", "resolving", "closeMissed", "serving",
                                  "leaked", "ended"}]
    OBVIOUS
  <2>6. trimmed \in 0 .. Len(log) /\ pos \in 0 .. Len(log) /\ base \in 0 .. pos
    BY <2>4
  <2>7. grouped \in BOOLEAN /\ pending \subseteq Ids /\ skipped \subseteq Ids
    OBVIOUS
  <2> HIDE DEF Init
  <2> QED BY <2>2, <2>3, <2>4, <2>5, <2>6, <2>7 DEF TypeOK
<1>2. /\ \A g \in Gateways : Unhandled(g) = <<>> /\ batch[g] = <<>> /\ handled[g] = <<>>
      /\ \A s \in Sockets : inbox[s] = <<>>
  BY DEF Unhandled
<1>3. Elems(<<>>) = {} /\ Ascending(<<>>) /\ Len(<<>>) = 0
  BY ElemsOfEmpty DEF Ascending
<1>4. BatchInv /\ FreshInv
  BY <1>2, <1>3, DeliveryAssumption DEF BatchInv, FreshInv
<1>5. TrimInv /\ AckedWasHandled
  BY DEF TrimInv, AckedWasHandled
<1>6. SocketInv
  BY <1>2, <1>3, DeliveryAssumption DEF SocketInv
<1>7. OpenSocketSeesAll /\ OnlyTheRaceLeaks
  BY DEF OpenSocketSeesAll, OnlyTheRaceLeaks
<1> QED BY <1>1, <1>4, <1>5, <1>6, <1>7 DEF IInv

\* The inductive invariant of the delivery of events.
THEOREM DeliveryInductive == Spec => []IInv
<1>1. IInv /\ [Next]_vars => IInv'
  <2> SUFFICES ASSUME IInv, [Next]_vars PROVE IInv'
    OBVIOUS
  <2>1. ASSUME NEW u \in Users, Publish(u) PROVE IInv'
    BY <2>1, PublishKeeps
  <2>2. ASSUME NEW g \in Gateways, Boot(g) PROVE IInv'
    BY <2>2, IdleMovesKeep DEF Boot, Idle
  <2>3. ASSUME NEW g \in Gateways, Loop(g) PROVE IInv'
    BY <2>3, LoopKeeps
  <2>4. ASSUME NEW g \in Gateways, Stop(g) PROVE IInv'
    BY <2>4, StopKeeps
  <2>5. ASSUME NEW g \in Gateways, Exit(g) PROVE IInv'
    BY <2>5, ExitKeeps
  <2>6. ASSUME NEW s \in Sockets, Client(s) PROVE IInv'
    BY <2>6, ClientKeeps
  <2>7. CASE UNCHANGED vars
    <3> USE <2>7 DEF IInv, vars, redisVars, loopVars, sockVars
    <3>1. TypeOK'
      BY DEF TypeOK, Ids
    <3>2. BatchInv' /\ FreshInv'
      BY DEF BatchInv, FreshInv, Unhandled
    <3>3. TrimInv' /\ AckedWasHandled'
      BY DEF TrimInv, AckedWasHandled
    <3>4. SocketInv' /\ OnlyTheRaceLeaks'
      BY DEF SocketInv, OnlyTheRaceLeaks, Up
    <3>5. OpenSocketSeesAll'
      BY DEF OpenSocketSeesAll, HandledSince
    <3> QED BY <3>1, <3>2, <3>3, <3>4, <3>5
  <2> QED BY <2>1, <2>2, <2>3, <2>4, <2>5, <2>6, <2>7 DEF Next
<1> QED BY <1>1, InitEstablishes, PTL DEF Spec

\* Every variable of the fan-out keeps its type.
THEOREM DeliveryTyping == Spec => []TypeOK
<1>1. IInv => TypeOK
  BY DEF IInv
<1> QED BY <1>1, DeliveryInductive, PTL

\* XACK follows sendTo (consumer.ts:66-72), so whatever fails, crashes or
\* overlaps, nothing is acknowledged that was not fanned out.
THEOREM NothingAckedUnhandled == Spec => []AckedWasHandled
<1>1. IInv => AckedWasHandled
  BY DEF IInv
<1> QED BY <1>1, DeliveryInductive, PTL

\* A registered socket that is open has got all that its gateway handled for
\* its user, once and in order.
THEOREM OpenSocketsAreServed == Spec => []OpenSocketSeesAll
<1>1. IInv => OpenSocketSeesAll
  BY DEF IInv
<1> QED BY <1>1, DeliveryInductive, PTL

\* The registry keeps closed sockets only because of the race in /ws.
THEOREM RegistryLeaksOnlyByRace == Spec => []OnlyTheRaceLeaks
<1>1. IInv => OnlyTheRaceLeaks
  BY DEF IInv
<1> QED BY <1>1, DeliveryInductive, PTL

-----------------------------------------------------------------------------
(* The refinement.                                                         *)

\* Handling an entry is one FanOut of the channel.
LEMMA DispatchFansOut ==
    ASSUME IInv, NEW g \in Gateways, Dispatch(g, Unhandled(g)),
           UNCHANGED <<log, user>>
    PROVE  [Channel!Next]_(Channel!vars)
<1> DEFINE rest == Unhandled(g)
           e0 == Head(rest)
           to == Recipients(g, log[e0])
           Fanned == UNION {Elems(handled[h]) : h \in Gateways}
<1>1. rest \in Seq(Ids)
  BY UnhandledOfBatch
<1>2. CASE rest = <<>>
  <2>1. handled' = handled /\ inbox' = inbox
    BY <1>2 DEF Dispatch
  <2> QED BY <2>1 DEF Channel!vars
<1>3. CASE rest # <<>>
  <2>1. /\ e0 \in Ids /\ e0 \in Elems(rest)
    BY <1>1, <1>3, ElemsOfTail
  <2>2. /\ handled' = [handled EXCEPT ![g] = Append(@, e0)]
        /\ inbox' = [s \in Sockets |-> IF s \in to THEN Append(inbox[s], e0) ELSE inbox[s]]
    BY <1>3 DEF Dispatch
  <2>3. Elems(Append(handled[g], e0)) = Elems(handled[g]) \cup {e0}
    BY <2>1, ElemsOfAppend DEF IInv, TypeOK
  <2>4. Fanned' = Fanned \cup {e0}
    <3>1. \A h \in Gateways : Elems(handled'[h]) =
             IF h = g THEN Elems(handled[h]) \cup {e0} ELSE Elems(handled[h])
      BY <2>2, <2>3 DEF IInv, TypeOK
    <3> QED BY <3>1
  <2>5. e0 \notin Fanned
    BY <2>1 DEF IInv, FreshInv
  <2>6. e0 \in DOMAIN log /\ log[e0] \in Users
    BY <2>1 DEF IInv, TypeOK, Ids
  <2>7. \A s \in to : s \in Sockets /\ user[s] = log[e0] /\ home[s] = g
    BY <2>6 DEF Recipients, IInv, OnlyTheRaceLeaks, TypeOK
  <2>8. \A s \in to : \A i \in DOMAIN inbox[s] : inbox[s][i] < e0
    BY <2>1, <2>7 DEF IInv, FreshInv, Elems
  <2>9. to \in SUBSET Sockets
    BY <2>7
  <2> HIDE DEF e0, to
  <2>10. Channel!FanOut(e0, to)
    BY <2>2, <2>4, <2>5, <2>6, <2>7, <2>8 DEF Channel!FanOut
  <2> QED BY <2>6, <2>9, <2>10 DEF Channel!Next
<1> QED BY <1>2, <1>3

\* The detailed fan-out implements EventChannel: what consumer.ts and
\* registry.ts promise a client holds over crashes, restarts and failures.
THEOREM Refinement == Spec => ChannelSpec
<1>1. Init => Channel!Init
  <2> SUFFICES ASSUME Init PROVE Channel!Init
    OBVIOUS
  <2>1. \A g \in Gateways : Elems(handled[g]) = {}
    BY ElemsOfEmpty DEF Init
  <2> QED BY <2>1 DEF Init, Channel!Init
<1>2. IInv /\ [Next]_vars => [Channel!Next]_(Channel!vars)
  <2> SUFFICES ASSUME IInv, [Next]_vars PROVE [Channel!Next]_(Channel!vars)
    OBVIOUS
  <2>1. ASSUME UNCHANGED <<log, user, handled, inbox>>
        PROVE  [Channel!Next]_(Channel!vars)
    BY <2>1 DEF Channel!vars
  <2>2. ASSUME NEW u \in Users, Publish(u) PROVE [Channel!Next]_(Channel!vars)
    <3>1. Channel!Publish(u)
      BY <2>2 DEF Publish, Channel!Publish, loopVars, sockVars
    <3> QED BY <3>1 DEF Channel!Next
  <2>3. ASSUME NEW s \in Sockets, NEW u \in Users, Connect(s, u)
        PROVE  [Channel!Next]_(Channel!vars)
    <3>1. user[s] = NoUser
      BY <2>3 DEF Connect, IInv, SocketInv
    <3>2. Channel!Open(s, u)
      BY <2>3, <3>1 DEF Connect, Channel!Open, redisVars, loopVars
    <3> QED BY <3>2 DEF Channel!Next
  <2>4. ASSUME NEW g \in Gateways, BatchArrives(g) \/ Acked(g)
        PROVE  [Channel!Next]_(Channel!vars)
    <3>1. Dispatch(g, Unhandled(g))
      BY <2>4 DEF BatchArrives, Acked, Unhandled
    <3>2. UNCHANGED <<log, user>>
      BY <2>4 DEF BatchArrives, Acked, redisVars, sockVars
    <3> QED BY <3>1, <3>2, DispatchFansOut
  <2>5. ASSUME NEW g \in Gateways,
               \/ Boot(g) \/ EnsureGroup(g) \/ LeaveLoop(g) \/ Read(g) \/ ReadFails(g)
               \/ AckFails(g) \/ Stop(g) \/ Exit(g)
        PROVE  [Channel!Next]_(Channel!vars)
    BY <2>1, <2>5 DEF Boot, EnsureGroup, LeaveLoop, Read, ReadFails, AckFails, Stop,
       Exit, redisVars, sockVars
  <2>6. ASSUME NEW s \in Sockets,
               Unauthenticated(s) \/ Register(s) \/ Disconnect(s) \/ CloseEvent(s)
        PROVE  [Channel!Next]_(Channel!vars)
    BY <2>1, <2>6 DEF Unauthenticated, Register, Disconnect, CloseEvent, redisVars,
       loopVars
  <2>7. CASE UNCHANGED vars
    BY <2>1, <2>7 DEF vars, redisVars, loopVars, sockVars
  <2> QED BY <2>2, <2>3, <2>4, <2>5, <2>6, <2>7 DEF Next, Loop, Client
<1> QED BY <1>1, <1>2, DeliveryInductive, PTL DEF Spec, ChannelSpec, Channel!Spec
=============================================================================
