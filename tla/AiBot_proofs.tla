---------------------------- MODULE AiBot_proofs ----------------------------
(***************************************************************************)
(* Theorems about AiBot, for any cap, lookback, row limit and bounds:      *)
(* typing, the inductive invariant, and the safety properties that follow. *)
(***************************************************************************)
EXTENDS AiBot, FiniteSetTheorems, WellFoundedInduction, TLAPS

-----------------------------------------------------------------------------
Orders == [id : Lots, side : {"buy", "sell"}, lots : SUBSET Lots]

\* The types of the venue and the generator, and of everything else.
VenueTyped ==
    /\ now \in 0 .. MaxPeriod /\ candles \subseteq 1 .. now
    /\ gen \in {"fetching", "sleeping", "yielded"}
    /\ lastTs \in 0 .. now /\ forming \subseteq candles

BotTyped ==
    /\ run \in Runs /\ today \in Days
    /\ loop \in {"next", "between", "submit", "ended"}
    /\ intent \in [side : {"buy", "sell", "none"}, lots : SUBSET Lots]
    /\ closes \in 0 .. Lookback
    /\ slot \in [seq : 0 .. MaxSeq, action : Actions, seen : 0 .. MaxSeq]
    /\ consumed \in 0 .. MaxSeq /\ held \subseteq Lots
    /\ comp \in {"asleep", "consulting", "announcing", "flagging", "dead"}
    /\ day \in 0 .. MaxDays /\ consults \in Nat /\ flagged \in BOOLEAN
    /\ seq \in 0 .. MaxSeq /\ snap \in 0 .. MaxSeq /\ acted \in 0 .. MaxSeq
    /\ executed \subseteq Executions /\ open \subseteq Executions
    /\ unfilled \subseteq Executions
    /\ orders \in Seq(Orders)
    /\ asked \in [Runs -> [Days -> Nat]] /\ failed \in [Runs -> [Days -> Nat]]
    /\ flags \in [Runs -> [Days -> Nat]]

\* An order is in flight exactly while the loop is in submit.
LoopInv ==
    /\ loop # "submit" => intent = NoIntent
    /\ loop = "submit" => intent.side \in {"buy", "sell"}

\* How the decisions made, in the slot and acted on are counted; what the next
\* bar will act on was known to a consult under way.
SeqInv ==
    /\ consumed <= slot.seq /\ slot.seq = seq /\ acted <= consumed
    /\ comp = "consulting" =>
          /\ seq < MaxSeq /\ acted <= snap
          /\ Fresher => acted + 1 <= snap
    /\ AtMostOneBehind

\* Orders are named by decisions no later than the last one consumed, and a buy
\* is the lot it is named by.
OrderInv ==
    /\ \A i \in DOMAIN orders :
          /\ orders[i].id[1] <= run
          /\ orders[i].id[1] = run => orders[i].id[2] <= consumed
          /\ orders[i].side = "buy" => orders[i].lots = {orders[i].id}
    /\ ActedOnce

\* The parts of HeldAgainstPosition: what sells unwind, and the position.
SellsUnwindBuys ==
    \A j \in DOMAIN orders : orders[j].side = "sell" =>
        \A lot \in orders[j].lots :
            /\ lot[1] = orders[j].id[1]
            /\ \E i \in 1 .. j - 1 : orders[i].side = "buy" /\ orders[i].lots = {lot}
            /\ \A i \in 1 .. j - 1 :
                  orders[i].side = "sell" => lot \notin orders[i].lots

PositionExplained ==
    /\ \A unit \in Short : Outstanding("buy", unit)
    /\ \A unit \in Units \ Position : unit[1] \in held =>
          Outstanding("buy", unit) \/ unit[1] \in intent.lots
    /\ \A unit \in Position : unit[1] \notin held =>
          \/ Outstanding("sell", unit)
          \/ unit[1][1] < run \/ unit[1] \in intent.lots

LEMMA HeldParts == HeldAgainstPosition <=> SellsUnwindBuys /\ PositionExplained
BY DEF HeldAgainstPosition, SellsUnwindBuys, PositionExplained

\* A unit of an order whose submit has returned: executed, open or over.
Known(side, unit) == <<side, unit>> \in executed \cup open \cup unfilled

\* Whatever becomes of the orders: what was sold was bought before and is not
\* held; what is held was ordered and has not been sold; what was bought in
\* this run and is not held has been sold.
UnitInv ==
    \A unit \in Units :
        /\ Known("buy", unit) =>
              unit[1][1] < run \/ (unit[1][1] = run /\ unit[1][2] <= consumed)
        /\ Known("sell", unit) => Known("buy", unit) /\ unit[1] \notin held
        /\ unit[1] \in held => Known("buy", unit) \/ unit[1] \in intent.lots
        /\ Known("buy", unit) /\ unit[1][1] = run /\ unit[1] \notin held =>
              Known("sell", unit) \/ unit[1] \in intent.lots
        /\ intent.side = "sell" /\ unit[1] \in intent.lots => Known("buy", unit)

\* What is held was bought in this run and not sold since.
HeldInv ==
    /\ \A lot \in held :
          /\ lot[1] = run
          /\ \E i \in DOMAIN orders : orders[i].side = "buy" /\ orders[i].lots = {lot}
          /\ \A i \in DOMAIN orders : orders[i].side = "sell" => lot \notin orders[i].lots
    /\ intent.side = "buy" =>
          /\ intent.lots \subseteq held
          /\ \A lot \in intent.lots : lot[1] = run /\ lot[2] <= consumed
    /\ intent.side = "sell" => held = {}
    /\ SellsUnwindBuys /\ UnitInv

\* The companion's counters and what was spent.
InFlight == IF comp = "consulting" THEN 1 ELSE 0
CostInv ==
    /\ day <= today
    /\ comp \in {"consulting", "announcing", "flagging"} => day # 0
    /\ \A r \in Runs, d \in Days :
          r > run \/ (r = run /\ d > day) =>
              asked[r][d] = 0 /\ failed[r][d] = 0 /\ flags[r][d] = 0
    /\ day = 0 => consults = 0 /\ ~flagged
    /\ day # 0 /\ comp # "dead" =>
          asked[run][day] = failed[run][day] + consults + InFlight
    /\ Cap > 0 /\ comp = "consulting" => consults < Cap
    /\ flagged => Cap > 0 /\ consults = Cap
    /\ day # 0 /\ (~flagged \/ comp = "flagging") => flags[run][day] = 0
    /\ comp = "flagging" => flagged
    /\ BudgetKept

\* The inductive invariant.
IInv ==
    /\ VenueTyped /\ BotTyped /\ LoopInv /\ SeqInv /\ OrderInv /\ HeldInv /\ CostInv

-----------------------------------------------------------------------------
(* The bar source.                                                         *)

\* A non-empty set of periods has a last one.
LEMMA LastPeriod ==
    ASSUME NEW n \in Nat, NEW S \in SUBSET (0 .. n), S # {}
    PROVE  Max(S) \in S /\ \A c \in S : c <= Max(S)
<1> DEFINE T == {n - c : c \in S}
<1>1. T \subseteq Nat /\ T # {}
  <2>1. PICK c \in S : TRUE
    OBVIOUS
  <2>2. n - c \in T
    BY <2>1
  <2>3. \A d \in S : n - d \in Nat
    OBVIOUS
  <2> QED BY <2>2, <2>3
<1>2. PICK m \in T : \A y \in T : ~(<<y, m>> \in OpToRel(<, Nat))
  BY <1>1, NatLessThanWellFounded, WFMin
<1>3. \A y \in T : m <= y
  <2> SUFFICES ASSUME NEW y \in T, y < m PROVE FALSE
    BY <1>1
  <2>1. y \in Nat /\ m \in Nat /\ y < m
    BY <1>1
  <2>2. <<y, m>> \in OpToRel(<, Nat)
    BY <2>1 DEF OpToRel
  <2> QED BY <2>2, <1>2
<1>4. PICK c \in S : m = n - c
  BY <1>2
<1>5. \A d \in S : d <= c
  <2> TAKE d \in S
  <2>1. n - d \in T
    OBVIOUS
  <2>2. n - c <= n - d
    BY <2>1, <1>3, <1>4
  <2>3. c \in Int /\ d \in Int /\ n \in Int
    OBVIOUS
  <2> HIDE DEF T
  <2> QED BY <2>2, <2>3, SMTT(30)
<1> QED BY <1>5 DEF Max

\* A non-empty answer has a row to choose, and it is one of the venue's candles.
LEMMA ChosenRow ==
    ASSUME VenueTyped, Rows # {}
    PROVE  LatestClosed(Rows) \in candles
<1>1. /\ now \in Nat /\ Rows \subseteq candles /\ candles \subseteq 0 .. now
      /\ Rows \in SUBSET (0 .. now)
  <2>1. Rows \subseteq candles
    BY DEF Rows
  <2>2. now \in Nat /\ candles \subseteq 0 .. now
    BY BarSourceAssumption DEF VenueTyped
  <2> QED BY <2>1, <2>2
<1>2. Max(Rows) \in Rows
  BY <1>1, LastPeriod
<1>3. CASE Cardinality(Rows) >= 2
  <2>1. Rows \ {Max(Rows)} # {}
    <3> SUFFICES ASSUME Rows \ {Max(Rows)} = {} PROVE FALSE
      OBVIOUS
    <3>1. Rows = {Max(Rows)}
      BY <1>2
    <3>2. Cardinality({Max(Rows)}) = 1
      BY FS_Singleton
    <3> QED BY <3>1, <3>2, <1>3
  <2>2. Max(Rows \ {Max(Rows)}) \in Rows
    BY <1>1, <2>1, LastPeriod
  <2> QED BY <2>2, <1>1, <1>3 DEF LatestClosed
<1>4. CASE ~(Cardinality(Rows) >= 2)
  BY <1>1, <1>2, <1>4 DEF LatestClosed
<1> QED BY <1>3, <1>4

\* The chosen row is the current period only if no earlier one is in the window.
LEMMA ChosenIsClosed ==
    ASSUME VenueTyped, Rows # {}, LatestClosed(Rows) = now,
           NEW d \in candles, d < now
    PROVE  ~(now < d + Window)
<1> SUFFICES ASSUME now < d + Window PROVE FALSE
  OBVIOUS
<1>1. /\ now \in Nat /\ candles \in SUBSET (0 .. now) /\ now \in candles
      /\ Limit \in Nat \ {0, 1} /\ \A c \in candles : c \in Nat /\ c <= now
      /\ Window \in Nat \ {0}
  BY ChosenRow, BarSourceAssumption DEF VenueTyped
<1>2. Rows \in SUBSET candles /\ Rows \in SUBSET (0 .. now)
  BY <1>1 DEF Rows
<1> DEFINE before == candles \ {now}
           p == Max(before)
<1>3. p \in before /\ \A c \in before : c <= p
  <2>1. before \in SUBSET (0 .. now) /\ before # {}
    BY <1>1
  <2> QED BY <1>1, <2>1, LastPeriod
<1>4. p \in Rows
  <2>1. {c \in candles : c > p} \in SUBSET {now}
    <3>1. p \in candles
      BY <1>3
    <3>2. p \in Nat /\ \A c \in candles : c \in Nat
      BY <1>1, <3>1, Zenon
    <3>3. ASSUME NEW c \in candles, c > p PROVE c = now
      <4>1. c <= p \/ c = now
        BY <1>3
      <4> HIDE DEF p
      <4> QED BY <3>2, <3>3, <4>1
    <3> QED BY <3>3
  <2>2. Cardinality({c \in candles : c > p}) <= 1
    <3>1. IsFiniteSet({now}) /\ Cardinality({now}) = 1
      BY FS_Singleton
    <3> QED BY <2>1, <3>1, FS_Subset
  <2>3. Cardinality({c \in candles : c > p}) \in Nat
    BY <2>1, FS_Singleton, FS_Subset, FS_CardinalityType
  <2>4. Cardinality({c \in candles : c > p}) < Limit
    BY <1>1, <2>2, <2>3
  <2>5. p + Window > now
    <3>1. d \in before
      BY <1>1
    <3>2. d <= p /\ p \in candles
      BY <1>3, <3>1
    <3>3. p \in Nat /\ d \in Nat
      BY <1>1, <3>2, Zenon
    <3> HIDE DEF p
    <3> QED BY <1>1, <3>2, <3>3
  <2> QED BY <1>3, <2>4, <2>5 DEF Rows
<1>5. now \in Rows
  <2>1. {c \in candles : c > now} = {}
    <3>1. \A c \in candles : ~(c > now)
      BY <1>1
    <3> QED BY <3>1
  <2>2. Cardinality({c \in candles : c > now}) < Limit /\ now + Window > now
    BY <1>1, <2>1, FS_EmptySet
  <2> QED BY <1>1, <2>2 DEF Rows
<1>6. Cardinality(Rows) >= 2
  <2>1. IsFiniteSet(0 .. now)
    BY <1>1, FS_Interval
  <2>2. IsFiniteSet(Rows)
    BY <1>2, <2>1, FS_Subset
  <2>3. Cardinality({p} \cup {now}) = 2
    <3>1. now \notin {p} /\ IsFiniteSet({p}) /\ Cardinality({p}) = 1
      BY <1>3, FS_Singleton
    <3>2. Cardinality({p} \cup {now}) = Cardinality({p}) + 1
      BY <3>1, FS_AddElement
    <3> QED BY <3>1, <3>2
  <2>4. {p} \cup {now} \in SUBSET Rows
    BY <1>4, <1>5
  <2>5. Cardinality(Rows) \in Nat /\ Cardinality({p} \cup {now}) <= Cardinality(Rows)
    BY <2>2, <2>4, FS_Subset, FS_CardinalityType
  <2> QED BY <2>3, <2>5
<1>7. Max(Rows) = now
  <2>1. Max(Rows) \in Rows /\ \A c \in Rows : c <= Max(Rows)
    BY <1>1, <1>2, <1>5, LastPeriod
  <2>2. Max(Rows) \in candles /\ now <= Max(Rows)
    BY <1>2, <1>5, <2>1
  <2>3. Max(Rows) \in Nat /\ Max(Rows) <= now
    BY <1>1, <2>2, Zenon
  <2> HIDE DEF p
  <2> QED BY <1>1, <2>2, <2>3
<1>8. Max(Rows \ {now}) \in Rows \ {now}
  <2>1. Rows \ {now} \in SUBSET (0 .. now) /\ Rows \ {now} # {}
    BY <1>2, <1>3, <1>4
  <2> QED BY <1>1, <2>1, LastPeriod
<1> QED BY <1>6, <1>7, <1>8 DEF LatestClosed

LEMMA PeriodTyped == ASSUME VenueTyped, Period PROVE VenueTyped'
<1>1. now \in Nat /\ MaxPeriod \in Nat /\ now < MaxPeriod /\ now' = now + 1
  BY BarSourceAssumption DEF VenueTyped, Period
<1>2. candles \subseteq 1 .. now /\ candles' \in {candles, candles \cup {now + 1}}
  BY DEF VenueTyped, Period
<1>3. now' \in 0 .. MaxPeriod /\ candles' \subseteq 1 .. now'
  BY <1>1, <1>2
<1>4. lastTs' \in 0 .. now' /\ forming' \subseteq candles' /\ gen' = gen
  BY <1>1, <1>2 DEF VenueTyped, Period, genVars
<1> QED BY <1>3, <1>4 DEF VenueTyped

LEMMA YieldTyped == ASSUME VenueTyped, Yield PROVE VenueTyped'
<1>1. LatestClosed(Rows) \in candles
  BY ChosenRow DEF Yield, HasNews
<1>2. now \in Nat /\ candles \subseteq 1 .. now
  BY BarSourceAssumption DEF VenueTyped
<1>3. lastTs' = LatestClosed(Rows) /\ lastTs' \in candles
  BY <1>1 DEF Yield
<1>4. lastTs' \in 0 .. now
  BY <1>2, <1>3
<1>5. forming' \subseteq candles
  BY <1>3 DEF Yield, VenueTyped
<1> QED BY <1>4, <1>5 DEF Yield, VenueTyped, venueVars

LEMMA GeneratorTyped ==
    ASSUME VenueTyped, NoNews \/ PollAgain \/ AskNext PROVE VenueTyped'
BY DEF VenueTyped, NoNews, PollAgain, AskNext, venueVars

-----------------------------------------------------------------------------
(* The bar loop.                                                           *)

\* What was not read or written is not disturbed.
LEMMA HeldSame ==
    ASSUME HeldInv, UNCHANGED <<run, intent, held, orders, venueOrders>>,
           consumed \in Nat, consumed' \in Nat, consumed <= consumed',
           held \subseteq Lots, intent.lots \subseteq Lots
    PROVE  HeldInv'
<1>1. /\ SellsUnwindBuys /\ UnitInv
      /\ \A side, unit : Known(side, unit)' = Known(side, unit)
  BY DEF HeldInv, Known, venueOrders
<1>2. SellsUnwindBuys'
  BY <1>1 DEF SellsUnwindBuys
<1>3. UnitInv'
  <2> SUFFICES ASSUME NEW unit \in Units, Known("buy", unit), unit[1][1] = run,
                      unit[1][2] <= consumed
               PROVE  unit[1][2] <= consumed'
    BY <1>1, Zenon DEF UnitInv
  <2>1. unit[1][2] \in Nat
    BY AiBotAssumption DEF Units, Lots
  <2> QED BY <2>1
<1>4. \A lot \in intent.lots : lot[2] <= consumed => lot[2] <= consumed'
  <2> TAKE lot \in intent.lots
  <2>1. lot[2] \in Nat
    BY AiBotAssumption DEF Lots
  <2> QED BY <2>1
<1> QED BY <1>2, <1>3, <1>4 DEF HeldInv

\* ... by whoever leaves the bar loop alone, as seen from the invariant.
LEMMA HeldKept ==
    ASSUME HeldInv, BotTyped,
           UNCHANGED <<run, intent, held, consumed, orders, venueOrders>>
    PROVE  HeldInv'
<1>1. /\ consumed \in Nat /\ held \subseteq Lots /\ intent.lots \subseteq Lots
      /\ consumed' \in Nat /\ consumed <= consumed'
  BY DEF BotTyped
<1> QED BY <1>1, HeldSame

\* Whoever only waits, or the calendar, leaves the bot's invariants alone.
LEMMA WaitingKeeps ==
    ASSUME IInv,
           UNCHANGED <<run, intent, stateVars, compVars, histVars, costVars>>,
           today' \in Days, today <= today',
           loop' = loop \/ (loop # "submit" /\ loop' \in {"next", "between"})
    PROVE  BotTyped' /\ LoopInv' /\ SeqInv' /\ OrderInv' /\ HeldInv' /\ CostInv'
<1> USE DEF IInv, stateVars, compVars, histVars, costVars
<1>1. BotTyped'
  BY DEF BotTyped, venueOrders
<1>2. LoopInv'
  BY DEF LoopInv
<1>3. SeqInv'
  BY DEF SeqInv, AtMostOneBehind, Fresher
<1>4. OrderInv'
  BY DEF OrderInv, ActedOnce
<1>5. HeldInv'
  <2>1. /\ HeldInv /\ BotTyped
        /\ UNCHANGED <<run, intent, held, consumed, orders, venueOrders>>
    OBVIOUS
  <2> HIDE DEF IInv, stateVars, compVars, histVars, costVars
  <2> QED BY <2>1, HeldKept
<1>6. CostInv'
  <2>1. day' <= today'
    BY AiBotAssumption DEF CostInv, BotTyped, Days
  <2> QED BY <2>1 DEF CostInv, BudgetKept, InFlight
<1> QED BY <1>1, <1>2, <1>3, <1>4, <1>5, <1>6

LEMMA BarClosedKeeps == ASSUME IInv, BarClosed PROVE IInv'
<1>1. VenueTyped'
  BY YieldTyped DEF IInv, BarClosed
<1>2. today' \in Days /\ today <= today'
  BY AiBotAssumption DEF IInv, BotTyped, Days, BarClosed
<1> QED BY <1>1, <1>2, WaitingKeeps DEF IInv, BarClosed

LEMMA NextBarKeeps == ASSUME IInv, NextBar PROVE IInv'
<1>1. VenueTyped'
  BY GeneratorTyped DEF IInv, NextBar
<1>2. today' \in Days /\ today <= today'
  BY AiBotAssumption DEF IInv, BotTyped, Days, NextBar
<1> QED BY <1>1, <1>2, WaitingKeeps DEF IInv, NextBar

LEMMA PollKeeps == ASSUME IInv, Poll PROVE IInv'
<1>1. VenueTyped'
  BY GeneratorTyped DEF IInv, Poll
<1>2. today' \in Days /\ today <= today'
  BY AiBotAssumption DEF IInv, BotTyped, Days, Poll
<1> QED BY <1>1, <1>2, WaitingKeeps DEF IInv, Poll, loopVars

LEMMA MidnightKeeps == ASSUME IInv, Midnight PROVE IInv'
<1>1. VenueTyped'
  BY DEF IInv, VenueTyped, Midnight, venueVars, genVars
<1>2. today' \in Days /\ today <= today'
  BY AiBotAssumption DEF IInv, BotTyped, Days, Midnight
<1> QED BY <1>1, <1>2, WaitingKeeps DEF IInv, Midnight, loopVars

LEMMA MarketKeeps == ASSUME IInv, Market PROVE IInv'
<1>1. VenueTyped'
  BY PeriodTyped DEF IInv, Market
<1>2. today' \in Days /\ today <= today'
  BY AiBotAssumption DEF IInv, BotTyped, Days, Market
<1> QED BY <1>1, <1>2, WaitingKeeps DEF IInv, Market, loopVars

LEMMA StutterKeeps == ASSUME IInv, UNCHANGED vars PROVE IInv'
<1>1. VenueTyped'
  BY DEF IInv, VenueTyped, vars, venueVars, genVars
<1>2. today' \in Days /\ today <= today'
  BY AiBotAssumption DEF IInv, BotTyped, Days, vars
<1> QED BY <1>1, <1>2, WaitingKeeps DEF IInv, vars, loopVars

\* What was not read or written is not disturbed.
LEMMA OrderSame ==
    ASSUME OrderInv, UNCHANGED <<run, consumed, orders>> PROVE OrderInv'
BY DEF OrderInv, ActedOnce

LEMMA CostSame ==
    ASSUME CostInv, UNCHANGED <<run, today, comp, day, consults, flagged, costVars>>
    PROVE  CostInv'
BY DEF CostInv, BudgetKept, InFlight, costVars

LEMMA VenueSame ==
    ASSUME VenueTyped, UNCHANGED <<venueVars, genVars>> PROVE VenueTyped'
BY DEF VenueTyped, venueVars, genVars

\* What the outcome of the order in flight adds to the units known.
LEMMA OutcomeAdds ==
    ASSUME Outcome
    PROVE  executed' \cup open' \cup unfilled'
              = (executed \cup open \cup unfilled) \cup UnitsOf(intent)
<1>1. PICK done \in SUBSET UnitsOf(intent) :
          /\ executed' = executed \cup done
          /\ \/ /\ open' = open \cup (UnitsOf(intent) \ done)
                /\ UNCHANGED unfilled
             \/ /\ unfilled' = unfilled \cup (UnitsOf(intent) \ done)
                /\ UNCHANGED open
  BY DEF Outcome
<1> HIDE DEF UnitsOf
<1> QED BY <1>1

\* Whatever becomes of an order, holdings and orders stay explained.
LEMMA OutcomeKeepsHeld ==
    ASSUME HeldInv, BotTyped, LoopInv, loop = "submit", Outcome,
           intent' = NoIntent, UNCHANGED <<run, consumed, held, orders>>
    PROVE  /\ HeldInv' /\ executed' \subseteq Executions
           /\ open' \subseteq Executions /\ unfilled' \subseteq Executions
<1>1. /\ intent.side \in {"buy", "sell"} /\ intent.lots \subseteq Lots
      /\ intent'.side = "none" /\ intent'.lots = {}
  BY DEF LoopInv, BotTyped, NoIntent
<1>2. /\ executed' \subseteq Executions /\ open' \subseteq Executions
      /\ unfilled' \subseteq Executions
  <2>1. UnitsOf(intent) \subseteq Executions
    BY <1>1 DEF UnitsOf, Executions, Units
  <2> HIDE DEF UnitsOf, Executions
  <2> QED BY <2>1 DEF Outcome, BotTyped
<1>3. \A side \in {"buy", "sell"}, unit \in Units :
         Known(side, unit)' <=>
             Known(side, unit) \/ (side = intent.side /\ unit[1] \in intent.lots)
  <2> TAKE side \in {"buy", "sell"}, unit \in Units
  <2>1. <<side, unit>> \in UnitsOf(intent) <=>
            side = intent.side /\ unit[1] \in intent.lots
    BY DEF UnitsOf, Units
  <2> HIDE DEF UnitsOf
  <2> QED BY <2>1, OutcomeAdds DEF Known
<1>4. SellsUnwindBuys'
  BY DEF HeldInv, SellsUnwindBuys
<1>5. UnitInv'
  <2> SUFFICES ASSUME NEW unit \in Units
               PROVE
        /\ Known("buy", unit)' =>
              unit[1][1] < run \/ (unit[1][1] = run /\ unit[1][2] <= consumed)
        /\ Known("sell", unit)' => Known("buy", unit)' /\ unit[1] \notin held
        /\ unit[1] \in held => Known("buy", unit)'
        /\ Known("buy", unit)' /\ unit[1][1] = run /\ unit[1] \notin held =>
              Known("sell", unit)'
    BY <1>1, Zenon DEF UnitInv
  <2>1. \A side \in {"buy", "sell"} : Known(side, unit)' <=>
             Known(side, unit) \/ (side = intent.side /\ unit[1] \in intent.lots)
    BY <1>3
  <2>2. /\ Known("buy", unit) =>
              unit[1][1] < run \/ (unit[1][1] = run /\ unit[1][2] <= consumed)
        /\ Known("sell", unit) => Known("buy", unit) /\ unit[1] \notin held
        /\ unit[1] \in held => Known("buy", unit) \/ unit[1] \in intent.lots
        /\ Known("buy", unit) /\ unit[1][1] = run /\ unit[1] \notin held =>
              Known("sell", unit) \/ unit[1] \in intent.lots
        /\ intent.side = "sell" /\ unit[1] \in intent.lots => Known("buy", unit)
    BY DEF HeldInv, UnitInv
  <2>3. /\ intent.side = "buy" => intent.lots \subseteq held
        /\ intent.side = "buy" /\ unit[1] \in intent.lots =>
              unit[1][1] = run /\ unit[1][2] <= consumed
        /\ intent.side = "sell" => held = {}
    BY DEF HeldInv
  <2> QED BY <1>1, <2>1, <2>2, <2>3
<1>6. HeldInv'
  BY <1>1, <1>4, <1>5 DEF HeldInv
<1> QED BY <1>2, <1>6

\* What the venue does later moves units among those known.
LEMMA VenueKeeps == ASSUME IInv, Venue PROVE IInv'
<1>1. /\ UNCHANGED <<venueVars, genVars, run, today, loopVars, stateVars, compVars,
                     acted, orders, costVars>>
      /\ executed' \cup open' \cup unfilled' = executed \cup open \cup unfilled
  <2>1. CASE ExecutesLater
    BY <2>1 DEF ExecutesLater
  <2>2. CASE RestIsOver
    <3>1. PICK i \in DOMAIN orders :
              /\ open' = open \ UnitsOf(orders[i])
              /\ unfilled' = unfilled \cup (UnitsOf(orders[i]) \cap open)
      BY <2>2 DEF RestIsOver
    <3>2. executed' \cup open' \cup unfilled' = executed \cup open \cup unfilled
      BY <2>2, <3>1 DEF RestIsOver
    <3> QED BY <2>2, <3>2 DEF RestIsOver
  <2> QED BY <2>1, <2>2 DEF Venue
<1>2. VenueTyped'
  BY <1>1, VenueSame DEF IInv
<1>3. /\ executed' \subseteq Executions /\ open' \subseteq Executions
      /\ unfilled' \subseteq Executions
  BY <1>1 DEF IInv, BotTyped
<1>4. BotTyped'
  BY <1>1, <1>3 DEF IInv, BotTyped, loopVars, stateVars, compVars, costVars
<1>5. LoopInv' /\ SeqInv'
  BY <1>1 DEF IInv, LoopInv, SeqInv, AtMostOneBehind, Fresher, loopVars, stateVars,
              compVars
<1>6. OrderInv' /\ CostInv'
  BY <1>1, OrderSame, CostSame DEF IInv, stateVars, compVars
<1>7. HeldInv'
  <2>1. \A side, unit : Known(side, unit)' = Known(side, unit)
    BY <1>1 DEF Known
  <2>2. /\ HeldInv /\ UNCHANGED <<run, intent, held, consumed, orders>>
    BY <1>1 DEF IInv, loopVars, stateVars
  <2>3. UnitInv'
    BY <2>1, <2>2, Zenon DEF HeldInv, UnitInv
  <2>4. SellsUnwindBuys'
    BY <2>2 DEF HeldInv, SellsUnwindBuys
  <2> QED BY <2>2, <2>3, <2>4 DEF HeldInv
<1> QED BY <1>2, <1>4, <1>5, <1>6, <1>7 DEF IInv

LEMMA SubmittedKeeps == ASSUME IInv, Submitted PROVE IInv'
<1> USE DEF IInv, Submitted
<1>1. VenueTyped'
  BY VenueSame
<1>2. /\ HeldInv' /\ executed' \subseteq Executions
      /\ open' \subseteq Executions /\ unfilled' \subseteq Executions
  BY OutcomeKeepsHeld DEF stateVars
<1>3. intent' \in [side : {"buy", "sell", "none"}, lots : SUBSET Lots]
  BY DEF NoIntent
<1>4. BotTyped'
  BY <1>2, <1>3 DEF BotTyped, stateVars, compVars, costVars
<1>5. LoopInv'
  BY DEF LoopInv
<1>6. SeqInv'
  BY DEF SeqInv, AtMostOneBehind, Fresher, stateVars, compVars
<1>7. OrderInv'
  BY OrderSame DEF stateVars
<1>8. CostInv'
  BY CostSame DEF compVars
<1> QED BY <1>1, <1>2, <1>4, <1>5, <1>6, <1>7, <1>8

LEMMA EndsKeeps == ASSUME IInv, Ends PROVE IInv'
<1> USE DEF IInv, Ends
<1>1. VenueTyped'
  BY VenueSame
<1>2. /\ HeldInv' /\ executed' \subseteq Executions
      /\ open' \subseteq Executions /\ unfilled' \subseteq Executions
  <2>1. CASE loop = "submit"
    BY <2>1, OutcomeKeepsHeld DEF stateVars
  <2>2. CASE loop # "submit"
    BY <2>2, HeldKept DEF stateVars, LoopInv, BotTyped, venueOrders
  <2> QED BY <2>1, <2>2
<1>3. intent' \in [side : {"buy", "sell", "none"}, lots : SUBSET Lots]
  BY DEF NoIntent
<1>4. BotTyped'
  BY <1>2, <1>3 DEF BotTyped, stateVars, costVars
<1>5. LoopInv'
  BY DEF LoopInv
<1>6. SeqInv'
  BY DEF SeqInv, AtMostOneBehind, Fresher, stateVars
<1>7. OrderInv'
  BY OrderSame DEF stateVars
<1>8. CostInv'
  BY DEF CostInv, BudgetKept, costVars
<1> QED BY <1>1, <1>2, <1>4, <1>5, <1>6, <1>7, <1>8

LEMMA RestartKeeps == ASSUME IInv, Restart PROVE IInv'
<1> USE DEF IInv, Restart
<1>1. /\ run \in Nat /\ run' = run + 1 /\ run' \in Runs
      /\ \A r \in Runs : r \in Nat
  BY AiBotAssumption DEF BotTyped, Runs
<1>2. VenueTyped'
  BY BarSourceAssumption DEF VenueTyped, venueVars
<1>3. BotTyped'
  <2>1. slot' \in [seq : 0 .. MaxSeq, action : Actions, seen : 0 .. MaxSeq]
    BY AiBotAssumption DEF NoSignal, Actions
  <2>2. closes' \in 0 .. Lookback /\ day' \in 0 .. MaxDays /\ consults' \in Nat
    BY AiBotAssumption
  <2>3. consumed' \in 0 .. MaxSeq /\ seq' \in 0 .. MaxSeq /\ snap' \in 0 .. MaxSeq
    BY AiBotAssumption
  <2>4. acted' \in 0 .. MaxSeq
    BY AiBotAssumption
  <2> QED BY <1>1, <2>1, <2>2, <2>3, <2>4 DEF BotTyped, costVars, venueOrders
<1>4. LoopInv'
  BY DEF LoopInv
<1>5. SeqInv'
  BY DEF SeqInv, AtMostOneBehind, Fresher, NoSignal
<1>6. OrderInv'
  <2>1. ActedOnce'
    BY DEF OrderInv, ActedOnce
  <2>2. \A i \in DOMAIN orders : orders[i].id[1] \in Nat
    <3> TAKE i \in DOMAIN orders
    <3>1. orders[i] \in Orders
      BY DEF BotTyped
    <3>2. orders[i].id[1] \in Runs
      BY <3>1 DEF Orders, Lots
    <3> QED BY <3>2, <1>1
  <2>3. \A i \in DOMAIN orders : orders[i].id[1] < run'
    BY <1>1, <2>2 DEF OrderInv
  <2> QED BY <1>1, <2>1, <2>2, <2>3 DEF OrderInv
<1>7. HeldInv'
  <2>1. /\ intent'.side = "none" /\ intent'.lots = {} /\ held' = {}
        /\ UNCHANGED <<orders, executed, open, unfilled>>
    BY DEF LoopInv, NoIntent, venueOrders
  <2>2. HeldInv /\ run' = run + 1 /\ run \in Nat
    BY <1>1
  <2> HIDE DEF IInv, Restart
  <2>3. SellsUnwindBuys'
    BY <2>1, <2>2 DEF HeldInv, SellsUnwindBuys
  <2>4. \A side, unit : Known(side, unit)' = Known(side, unit)
    BY <2>1 DEF Known
  <2>5. UnitInv'
    <3> SUFFICES ASSUME NEW unit \in Units
                 PROVE  /\ Known("buy", unit) => unit[1][1] < run'
                        /\ Known("sell", unit) => Known("buy", unit)
                        /\ ~(Known("buy", unit) /\ unit[1][1] = run')
      BY <2>1, <2>4, Zenon DEF UnitInv
    <3>1. unit[1][1] \in Nat
      BY AiBotAssumption DEF Units, Lots, Runs
    <3>2. Known("buy", unit) => unit[1][1] < run \/ unit[1][1] = run
      BY <2>2 DEF HeldInv, UnitInv
    <3>3. Known("sell", unit) => Known("buy", unit)
      BY <2>2 DEF HeldInv, UnitInv
    <3> QED BY <2>2, <3>1, <3>2, <3>3
  <2> QED BY <2>1, <2>3, <2>5 DEF HeldInv
<1>8. CostInv'
  <2>1. \A r \in Runs, d \in Days :
           r > run => asked[r][d] = 0 /\ failed[r][d] = 0 /\ flags[r][d] = 0
    BY DEF CostInv
  <2>2. \A r \in Runs : r >= run' => r > run
    BY <1>1
  <2>3. today \in Nat
    BY AiBotAssumption DEF BotTyped, Days
  <2> QED BY <1>1, <2>1, <2>2, <2>3 DEF CostInv, BudgetKept, costVars
<1> QED BY <1>2, <1>3, <1>4, <1>5, <1>6, <1>7, <1>8

-----------------------------------------------------------------------------
(* The companion.                                                          *)

\* A history counter of one run and day goes up by one.
LEMMA Bumped ==
    ASSUME NEW f \in [Runs -> [Days -> Nat]], NEW r \in Runs, NEW d \in Days,
           NEW g, g = [f EXCEPT ![r][d] = @ + 1]
    PROVE  /\ g \in [Runs -> [Days -> Nat]] /\ g[r][d] = f[r][d] + 1
           /\ \A s \in Runs, e \in Days : ~(s = r /\ e = d) => g[s][e] = f[s][e]
<1>1. g = [f EXCEPT ![r] = [f[r] EXCEPT ![d] = f[r][d] + 1]]
  OBVIOUS
<1> QED BY <1>1

LEMMA TickKeeps == ASSUME IInv, Tick PROVE IInv'
<1> USE DEF IInv, Tick
<1>1. /\ VenueTyped' /\ OrderInv' /\ HeldInv'
  BY VenueSame, OrderSame, HeldKept DEF stateVars, loopVars, histVars, venueOrders
<1>2. LoopInv'
  BY DEF LoopInv, loopVars
<1>3. snap' \in 0 .. MaxSeq /\ acted <= snap' /\ (Fresher => acted + 1 <= snap')
  BY AiBotAssumption DEF SeqInv, BotTyped, Snapshot, Fresher
<1>4. /\ today \in Nat /\ day' = today /\ day' \in 0 .. MaxDays
      /\ consults' \in Nat /\ flagged' \in BOOLEAN
      /\ comp' \in {"asleep", "consulting", "flagging"}
  <2>1. today \in Nat /\ day' = today /\ day' \in 0 .. MaxDays
    BY AiBotAssumption DEF BotTyped, Days
  <2>2. consults' \in Nat
    BY DEF BotTyped, ConsultsToday
  <2>3. flagged' \in BOOLEAN
    BY DEF BotTyped, FlaggedToday
  <2>4. comp' \in {"asleep", "consulting", "flagging"}
    OBVIOUS
  <2> QED BY <2>1, <2>2, <2>3, <2>4
<1>5. /\ run \in Runs /\ today \in Days
      /\ asked \in [Runs -> [Days -> Nat]] /\ asked' \in [Runs -> [Days -> Nat]]
      /\ comp' # "consulting" => asked' = asked
      /\ comp' = "consulting" => asked'[run][today] = asked[run][today] + 1
      /\ \A r \in Runs, d \in Days :
            ~(r = run /\ d = today) => asked'[r][d] = asked[r][d]
  <2>1. run \in Runs /\ today \in Days /\ asked \in [Runs -> [Days -> Nat]]
    BY DEF BotTyped
  <2>2. \/ comp' # "consulting" /\ asked' = asked
        \/ /\ comp' = "consulting"
           /\ asked' = [asked EXCEPT ![run][today] = @ + 1]
    OBVIOUS
  <2> HIDE DEF IInv, Tick
  <2> QED BY <2>1, <2>2, Bumped
<1>51. BotTyped'
  BY <1>3, <1>4, <1>5 DEF BotTyped, loopVars, stateVars, histVars, venueOrders
<1>6. SeqInv'
  BY <1>3 DEF SeqInv, AtMostOneBehind, Fresher, stateVars, histVars
<1>7. CostInv'
  <2>1. /\ CostInv /\ comp = "asleep" /\ UNCHANGED <<run, today, failed, flags>>
        /\ consults \in Nat /\ day \in Nat /\ Cap \in Nat
        /\ failed \in [Runs -> [Days -> Nat]] /\ flags \in [Runs -> [Days -> Nat]]
    BY AiBotAssumption DEF BotTyped
  <2>2. /\ today # 0 /\ asked[run][today] \in Nat /\ failed[run][today] \in Nat
        /\ flags[run][today] \in Nat
    BY <2>1, <1>4, <1>5, AiBotAssumption DEF Days
  <2>3. asked[run][today] = failed[run][today] + consults'
    BY <2>1, <1>4, <1>5, <2>2 DEF CostInv, ConsultsToday, Rolled, InFlight
  <2>4. flagged' => Cap > 0 /\ consults' = Cap
    <3>1. FlaggedToday => Cap > 0 /\ ConsultsToday = Cap
      BY <2>1 DEF CostInv, ConsultsToday, FlaggedToday, Rolled
    <3>2. CapHit => Cap > 0 /\ ConsultsToday = Cap
      <4>1. Cap > 0 => asked[run][today] <= failed[run][today] + Cap
        BY <2>1, <1>5 DEF CostInv, BudgetKept
      <4>2. consults' = ConsultsToday
        OBVIOUS
      <4> HIDE DEF IInv, Tick
      <4>3. Cap > 0 => consults' <= Cap
        BY <4>1, <1>4, <2>1, <2>2, <2>3
      <4>4. consults' \in Nat
        BY <1>4
      <4>5. ConsultsToday \in Nat
        BY <4>2, <4>4
      <4> QED BY <4>2, <4>3, <4>5, <2>1 DEF CapHit
    <3> QED BY <3>1, <3>2
  <2>5. FlaggedToday \/ flags[run][today] = 0
    BY <2>1, <1>4, <1>5, <2>2 DEF CostInv, FlaggedToday, Rolled
  <2>6. flagged' \/ ~FlaggedToday
    BY <1>4
  <2>7. comp' = "flagging" => flagged' /\ ~FlaggedToday
    BY <1>4
  <2>8. comp' = "consulting" => ~CapHit /\ flagged' = FlaggedToday
    OBVIOUS
  <2>9. Cap > 0 /\ comp' = "consulting" => consults' < Cap
    BY <2>8, <1>4, <2>1 DEF CapHit
  <2>10. comp' # "announcing"
    BY <1>4
  <2>11. \A r \in Runs, d \in Days :
            r > run \/ (r = run /\ d > today) =>
                asked'[r][d] = 0 /\ failed[r][d] = 0 /\ flags[r][d] = 0
    <3> SUFFICES ASSUME NEW r \in Runs, NEW d \in Days,
                        r > run \/ (r = run /\ d > today)
                 PROVE  asked'[r][d] = 0 /\ failed[r][d] = 0 /\ flags[r][d] = 0
      OBVIOUS
    <3>1. r > run \/ (r = run /\ d > day)
      BY <2>1, <1>4, AiBotAssumption DEF CostInv, Days
    <3>2. ~(r = run /\ d = today)
      BY <1>4, <1>5, AiBotAssumption DEF Days, Runs
    <3> QED BY <2>1, <1>5, <3>1, <3>2 DEF CostInv
  <2>12. BudgetKept'
    <3> SUFFICES ASSUME Cap > 0, NEW r \in Runs, NEW d \in Days
                 PROVE  /\ asked'[r][d] <= failed[r][d] + Cap
                        /\ flags[r][d] <= 1
                        /\ flags[r][d] = 1 => asked'[r][d] = failed[r][d] + Cap
      BY <2>1 DEF BudgetKept
    <3>1. /\ asked[r][d] <= failed[r][d] + Cap /\ flags[r][d] <= 1
          /\ flags[r][d] = 1 => asked[r][d] = failed[r][d] + Cap
      BY <2>1 DEF CostInv, BudgetKept
    <3>2. CASE r = run /\ d = today /\ comp' = "consulting"
      <4>1. flags[run][today] = 0
        BY <3>2, <2>4, <2>5, <2>8, <2>9, <1>4, <2>1
      <4>2. asked'[run][today] <= failed[run][today] + Cap
        BY <3>2, <1>4, <1>5, <2>1, <2>2, <2>3, <2>9
      <4> QED BY <3>2, <4>1, <4>2
    <3>3. CASE ~(r = run /\ d = today /\ comp' = "consulting")
      BY <3>1, <3>3, <1>5
    <3> QED BY <3>2, <3>3
  <2>13. asked'[run][today] = failed[run][today] + consults' + InFlight'
    BY <1>4, <1>5, <2>2, <2>3 DEF InFlight
  <2> HIDE DEF IInv, Tick
  <2> QED BY <1>4, <2>1, <2>2, <2>4, <2>5, <2>6, <2>7, <2>9, <2>11, <2>12, <2>13
       DEF CostInv
<1> QED BY <1>1, <1>2, <1>51, <1>6, <1>7

LEMMA DecideKeeps == ASSUME IInv, Decide PROVE IInv'
<1> USE DEF IInv, Decide
<1>1. /\ VenueTyped' /\ OrderInv' /\ HeldInv'
  BY VenueSame, OrderSame, HeldKept DEF loopVars, histVars, venueOrders
<1>2. LoopInv'
  BY DEF LoopInv, loopVars
<1>3. /\ seq \in Nat /\ seq < MaxSeq /\ acted <= snap /\ snap \in 0 .. MaxSeq
      /\ seq' = seq + 1 /\ seq' \in 0 .. MaxSeq /\ consumed \in Nat /\ acted \in Nat
      /\ run \in Runs /\ day \in Days
      /\ asked \in [Runs -> [Days -> Nat]] /\ failed \in [Runs -> [Days -> Nat]]
  <2>1. /\ seq \in Nat /\ seq < MaxSeq /\ acted <= snap /\ snap \in 0 .. MaxSeq
        /\ seq' = seq + 1 /\ seq' \in 0 .. MaxSeq
    BY AiBotAssumption DEF SeqInv, BotTyped
  <2>2. consumed \in Nat /\ acted \in Nat /\ run \in Runs
        /\ asked \in [Runs -> [Days -> Nat]] /\ failed \in [Runs -> [Days -> Nat]]
        /\ day \in 0 .. MaxDays
    BY AiBotAssumption DEF BotTyped
  <2>3. day # 0
    BY DEF CostInv
  <2>4. day \in Days
    BY <2>2, <2>3, AiBotAssumption DEF Days
  <2> QED BY <2>1, <2>2, <2>4
<1>4. /\ slot'.seq = seq' /\ slot'.seen = snap
      /\ slot' \in [seq : 0 .. MaxSeq, action : Actions, seen : 0 .. MaxSeq]
  BY <1>3
<1>7. BotTyped'
  BY <1>3, <1>4, SMTT(30) DEF BotTyped, loopVars, histVars, venueOrders, costVars
<1>8. SeqInv'
  BY <1>3, <1>4 DEF SeqInv, AtMostOneBehind, Fresher, BotTyped, histVars
<1>9. CostInv'
  <2>1. /\ CostInv /\ comp = "consulting" /\ comp' = "announcing"
        /\ UNCHANGED <<run, today, day, flagged, asked, failed, flags>>
        /\ consults' = consults + 1 /\ consults \in Nat /\ Cap \in Nat
        /\ asked[run][day] \in Nat /\ failed[run][day] \in Nat
    BY <1>3, AiBotAssumption DEF BotTyped, costVars
  <2> HIDE DEF IInv, Decide
  <2>2. day # 0 /\ ~flagged
    BY <2>1 DEF CostInv
  <2>3. asked[run][day] = failed[run][day] + consults' + InFlight'
    BY <2>1, <2>2 DEF CostInv, InFlight
  <2> QED BY <2>1, <2>2, <2>3 DEF CostInv, BudgetKept
<1> QED BY <1>1, <1>2, <1>7, <1>8, <1>9

LEMMA ConsultFailsKeeps == ASSUME IInv, ConsultFails PROVE IInv'
<1> USE DEF IInv, ConsultFails
<1>1. /\ VenueTyped' /\ OrderInv' /\ HeldInv'
  BY VenueSame, OrderSame, HeldKept DEF loopVars, stateVars, histVars, venueOrders
<1>2. /\ run \in Runs /\ day \in Days /\ flags \in [Runs -> [Days -> Nat]]
      /\ asked \in [Runs -> [Days -> Nat]] /\ failed \in [Runs -> [Days -> Nat]]
      /\ consults \in Nat /\ Cap \in Nat
  <2>1. day \in 0 .. MaxDays /\ day # 0
    BY DEF BotTyped, CostInv
  <2>2. day \in Days
    BY <2>1, AiBotAssumption DEF Days
  <2> QED BY <2>2, AiBotAssumption DEF BotTyped
<1>21. /\ failed' \in [Runs -> [Days -> Nat]] /\ failed'[run][day] = failed[run][day] + 1
       /\ \A r \in Runs, d \in Days :
             ~(r = run /\ d = day) => failed'[r][d] = failed[r][d]
  BY <1>2, Bumped
<1>22. BotTyped' /\ LoopInv'
  BY <1>21 DEF BotTyped, LoopInv, loopVars, stateVars, histVars, venueOrders
<1>3. SeqInv'
  BY DEF SeqInv, AtMostOneBehind, Fresher, stateVars, histVars
<1>4. CostInv'
  <2>1. /\ CostInv /\ comp = "consulting" /\ comp' = "asleep"
        /\ UNCHANGED <<run, today, day, consults, flagged, asked, flags>>
        /\ asked[run][day] \in Nat /\ failed[run][day] \in Nat
        /\ flags[run][day] \in Nat
    BY <1>2
  <2> HIDE DEF IInv, ConsultFails
  <2>2. /\ day # 0 /\ ~flagged /\ flags[run][day] = 0
        /\ asked[run][day] = failed'[run][day] + consults + InFlight'
    <3>1. day # 0 /\ ~flagged
      BY <2>1, <1>2 DEF CostInv
    <3>2. flags[run][day] = 0 /\ asked[run][day] = failed[run][day] + consults + 1
      BY <2>1, <3>1 DEF CostInv, InFlight
    <3>3. failed'[run][day] = failed[run][day] + 1 /\ InFlight' = 0
      BY <2>1, <1>21 DEF InFlight
    <3> QED BY <2>1, <1>2, <3>1, <3>2, <3>3
  <2>3. BudgetKept'
    <3> SUFFICES ASSUME Cap > 0, NEW r \in Runs, NEW d \in Days
                 PROVE  /\ asked[r][d] <= failed'[r][d] + Cap
                        /\ flags[r][d] <= 1
                        /\ flags[r][d] = 1 => asked[r][d] = failed'[r][d] + Cap
      BY <2>1 DEF BudgetKept
    <3>1. /\ asked[r][d] <= failed[r][d] + Cap /\ flags[r][d] <= 1
          /\ flags[r][d] = 1 => asked[r][d] = failed[r][d] + Cap
      BY <2>1 DEF CostInv, BudgetKept
    <3>2. CASE r = run /\ d = day
      BY <3>1, <3>2, <1>2, <1>21, <2>1, <2>2
    <3>3. CASE ~(r = run /\ d = day)
      BY <3>1, <3>3, <1>21
    <3> QED BY <3>2, <3>3
  <2>4. \A r \in Runs, d \in Days :
           r > run \/ (r = run /\ d > day) => failed'[r][d] = failed[r][d]
    BY <1>2, <1>21, AiBotAssumption DEF Runs, Days
  <2> QED BY <2>1, <2>2, <2>3, <2>4 DEF CostInv
<1> QED BY <1>1, <1>22, <1>3, <1>4

LEMMA AnnounceFailsKeeps == ASSUME IInv, AnnounceFails PROVE IInv'
<1> USE DEF IInv, AnnounceFails
<1>1. /\ VenueTyped' /\ OrderInv' /\ HeldInv'
  BY VenueSame, OrderSame, HeldKept DEF loopVars, stateVars, histVars, venueOrders
<1>2. BotTyped' /\ LoopInv'
  BY DEF BotTyped, LoopInv, loopVars, stateVars, histVars, venueOrders, costVars
<1>3. SeqInv'
  BY DEF SeqInv, AtMostOneBehind, Fresher, stateVars, histVars
<1>4. CostInv'
  BY DEF CostInv, BudgetKept, costVars
<1> QED BY <1>1, <1>2, <1>3, <1>4

LEMMA AnnouncedKeeps == ASSUME IInv, Announced PROVE IInv'
<1> USE DEF IInv, Announced
<1>1. /\ VenueTyped' /\ OrderInv' /\ HeldInv'
  BY VenueSame, OrderSame, HeldKept DEF loopVars, stateVars, histVars, venueOrders
<1>2. /\ run \in Runs /\ day \in Days /\ flags \in [Runs -> [Days -> Nat]]
      /\ CostInv /\ Cap \in Nat
      /\ UNCHANGED <<run, today, day, consults, flagged, asked, failed>>
      /\ asked \in [Runs -> [Days -> Nat]] /\ failed \in [Runs -> [Days -> Nat]]
      /\ consults \in Nat
  <2>1. /\ run \in Runs /\ day \in 0 .. MaxDays /\ flags \in [Runs -> [Days -> Nat]]
        /\ CostInv /\ Cap \in Nat
        /\ UNCHANGED <<run, today, day, consults, flagged, asked, failed>>
        /\ asked \in [Runs -> [Days -> Nat]] /\ failed \in [Runs -> [Days -> Nat]]
        /\ consults \in Nat
    BY AiBotAssumption DEF BotTyped
  <2>2. day # 0
    BY DEF CostInv
  <2>3. day \in Days
    BY <2>1, <2>2, AiBotAssumption DEF Days
  <2> QED BY <2>1, <2>3
<1>3. LoopInv' /\ SeqInv'
  BY DEF LoopInv, SeqInv, AtMostOneBehind, Fresher, loopVars, stateVars, histVars
<1>4. CASE comp = "announcing"
  <2>1. UNCHANGED flags
    BY <1>4
  <2>2. BotTyped'
    BY <1>2, <2>1 DEF BotTyped, loopVars, stateVars, histVars, venueOrders
  <2>3. CostInv'
    BY <1>4, <1>2, <2>1 DEF CostInv, BudgetKept, InFlight
  <2> QED BY <1>1, <1>3, <2>2, <2>3
<1>5. CASE comp = "flagging"
  <2>1. flags' = [flags EXCEPT ![run][day] = @ + 1]
    BY <1>5
  <2>2. /\ flags' \in [Runs -> [Days -> Nat]] /\ flags'[run][day] = flags[run][day] + 1
        /\ \A r \in Runs, d \in Days :
              ~(r = run /\ d = day) => flags'[r][d] = flags[r][d]
    BY <1>2, <2>1, Bumped
  <2>3. BotTyped'
    BY <1>2, <2>2 DEF BotTyped, loopVars, stateVars, histVars, venueOrders
  <2>4. comp' = "asleep"
    OBVIOUS
  <2> HIDE DEF IInv, Announced
  <2>5. /\ day # 0 /\ flags[run][day] = 0 /\ flagged /\ InFlight = 0 /\ InFlight' = 0
        /\ asked[run][day] = failed[run][day] + consults
        /\ Cap > 0 /\ consults = Cap
    BY <1>2, <1>5, <2>4 DEF CostInv, InFlight
  <2>6. BudgetKept'
    <3> SUFFICES ASSUME Cap > 0, NEW r \in Runs, NEW d \in Days
                 PROVE  /\ asked'[r][d] <= failed'[r][d] + Cap /\ flags'[r][d] <= 1
                        /\ flags'[r][d] = 1 => asked'[r][d] = failed'[r][d] + Cap
      BY DEF BudgetKept
    <3>1. CASE r = run /\ d = day
      BY <3>1, <1>2, <2>2, <2>5
    <3>2. CASE ~(r = run /\ d = day)
      <4>1. flags'[r][d] = flags[r][d] /\ asked' = asked /\ failed' = failed
        BY <3>2, <1>2, <2>2
      <4> QED BY <4>1, <1>2 DEF CostInv, BudgetKept
    <3> QED BY <3>1, <3>2
  <2>7. \A r \in Runs, d \in Days :
           r > run \/ (r = run /\ d > day) => flags'[r][d] = flags[r][d]
    BY <1>2, <2>2, AiBotAssumption DEF Runs, Days
  <2>8. CostInv'
    BY <1>2, <2>4, <2>5, <2>6, <2>7 DEF CostInv
  <2> QED BY <1>1, <1>3, <2>3, <2>8 DEF IInv
<1> QED BY <1>4, <1>5

-----------------------------------------------------------------------------
(* A bar that reaches the strategy.                                        *)

\* What appending an order leaves and adds.
LEMMA Appended ==
    ASSUME orders \in Seq(Orders), NEW o \in Orders, orders' = Append(orders, o)
    PROVE  /\ orders' \in Seq(Orders) /\ Len(orders) \in Nat
           /\ DOMAIN orders = 1 .. Len(orders)
           /\ DOMAIN orders' = 1 .. Len(orders) + 1
           /\ orders'[Len(orders) + 1] = o
           /\ \A i \in 1 .. Len(orders) : orders'[i] = orders[i]
OBVIOUS

\* The order of a bar, if there is one, is the first of its decision.
LEMMA BarOrder ==
    ASSUME IInv, BarOpen
    PROVE  /\ Side \in {"none", "buy", "sell"}
           /\ Side = "none" => intent' = NoIntent /\ held' = held /\ orders' = orders
           /\ Side = "buy" => /\ Fresher
                              /\ intent' = [side |-> "buy", lots |-> Bought]
                              /\ held' = held \cup Bought
           /\ Side = "sell" => /\ Fresher
                               /\ intent' = [side |-> "sell", lots |-> held]
                               /\ held' = {}
           /\ Side # "none" =>
                 /\ orders' = Append(orders, [id |-> <<run, slot.seq>>, side |-> Side,
                                              lots |-> intent'.lots])
                 /\ <<run, slot.seq>> \in Lots
           /\ Fresher => consumed' = slot.seq /\ acted' = acted + 1
           /\ ~Fresher => consumed' = consumed /\ acted' = acted
           /\ intent = NoIntent
<1>1. /\ Side \in {"none", "buy", "sell"} /\ (Side # "none" => Fresher)
  BY DEF Side
<1>2. Fresher => <<run, slot.seq>> \in Lots
  BY AiBotAssumption DEF IInv, BotTyped, Lots, Fresher
<1>3. intent = NoIntent
  BY DEF IInv, LoopInv, BarOpen
<1> QED BY <1>1, <1>2, <1>3 DEF BarOpen, OnBar, HeldAfter, ConsumedAfter

LEMMA BarOpenKeeps == ASSUME IInv, BarOpen PROVE IInv'
<1> DEFINE id == <<run, slot.seq>>
           o == [id |-> id, side |-> Side, lots |-> intent'.lots]
           n == Len(orders)
<1>1. VenueTyped'
  BY YieldTyped DEF IInv, BarOpen
<1>2. CostInv'
  BY CostSame DEF IInv, BarOpen, compVars
<1>3. /\ UNCHANGED <<run, slot, seq, comp, snap, executed, open, unfilled>>
      /\ closes' = WindowAfter /\ BotTyped /\ HeldInv /\ OrderInv /\ SeqInv
      /\ loop' = IF Side = "none" THEN "between" ELSE "submit"
  BY DEF IInv, BarOpen, OnBar, compVars, venueOrders
<1>4. SeqInv'
  <2>1. /\ consumed <= slot.seq /\ acted <= consumed /\ slot.seq = seq
        /\ consumed \in Nat /\ acted \in Nat /\ slot.seq \in Nat
    BY <1>3, AiBotAssumption DEF SeqInv, BotTyped
  <2>2. ~(slot.seq > consumed')
    BY <2>1, BarOrder DEF Fresher
  <2>3. consumed' <= slot.seq /\ acted' <= consumed'
    BY <2>1, BarOrder DEF Fresher
  <2>4. comp = "consulting" => seq < MaxSeq /\ acted' <= snap
    BY <1>3, BarOrder DEF SeqInv
  <2> QED BY <1>3, <2>1, <2>2, <2>3, <2>4 DEF SeqInv, AtMostOneBehind, Fresher
<1>5. intent' \in [side : {"buy", "sell", "none"}, lots : SUBSET Lots]
  <2>1. CASE Side = "none"
    BY <2>1, BarOrder DEF NoIntent
  <2>2. CASE Side = "buy"
    BY <2>2, BarOrder DEF Bought
  <2>3. CASE Side = "sell"
    BY <2>3, <1>3, BarOrder DEF BotTyped
  <2> QED BY <2>1, <2>2, <2>3, BarOrder
<1>6. held' \subseteq Lots
  BY <1>3, BarOrder DEF Bought, BotTyped
<1>7. Side # "none" => o \in Orders /\ orders' = Append(orders, o)
  BY <1>5, BarOrder DEF Orders
<1>8. orders' \in Seq(Orders)
  BY <1>3, <1>7, Appended, BarOrder DEF BotTyped
<1>9. BotTyped'
  <2>1. closes' \in 0 .. Lookback
    BY <1>3, AiBotAssumption DEF BotTyped, WindowAfter
  <2>2. consumed' \in 0 .. MaxSeq /\ acted' \in 0 .. MaxSeq
    <3>1. slot.seq \in 0 .. MaxSeq /\ acted \in 0 .. MaxSeq /\ consumed \in 0 .. MaxSeq
      BY <1>3 DEF BotTyped
    <3>2. acted <= consumed
      BY <1>3 DEF SeqInv
    <3> QED BY <3>1, <3>2, BarOrder, AiBotAssumption DEF Fresher
  <2> QED BY <1>3, <1>5, <1>6, <1>8, <2>1, <2>2
       DEF BotTyped, BarOpen, compVars, costVars
<1>10. LoopInv'
  BY <1>3, BarOrder DEF LoopInv, NoIntent
<1>11. OrderInv'
  <2>1. CASE Side = "none"
    <3>1. /\ orders' = orders /\ run' = run /\ consumed \in Nat /\ consumed <= consumed'
          /\ consumed' \in Nat
      BY <2>1, <1>3, BarOrder, AiBotAssumption DEF BotTyped, Fresher
    <3>2. \A i \in DOMAIN orders : orders[i].id[2] \in Nat
      <4> TAKE i \in DOMAIN orders
      <4>1. orders[i] \in Orders
        BY <1>3 DEF BotTyped
      <4> QED BY <4>1, AiBotAssumption DEF Orders, Lots
    <3>3. ActedOnce'
      BY <1>3, <3>1 DEF OrderInv, ActedOnce
    <3> QED BY <1>3, <3>1, <3>2, <3>3 DEF OrderInv
  <2>2. CASE Side # "none"
    <3>1. /\ n \in Nat /\ DOMAIN orders = 1 .. n /\ DOMAIN orders' = 1 .. n + 1
          /\ orders'[n + 1] = o /\ \A i \in 1 .. n : orders'[i] = orders[i]
      BY <1>3, <1>7, <2>2, Appended DEF BotTyped
    <3>2. /\ run \in Nat /\ slot.seq \in Nat /\ consumed \in Nat
          /\ consumed < slot.seq /\ consumed' = slot.seq
      BY <1>3, <2>2, BarOrder, AiBotAssumption DEF BotTyped, Fresher, Runs
    <3>3. \A i \in 1 .. n : orders[i].id[1] \in Nat /\ orders[i].id[2] \in Nat
      <4> TAKE i \in 1 .. n
      <4>1. orders[i] \in Orders
        BY <1>3, <3>1 DEF BotTyped
      <4> QED BY <4>1, AiBotAssumption DEF Orders, Lots, Runs
    <3>4. \A i \in 1 .. n : /\ orders[i].id[1] <= run
                            /\ orders[i].id[1] = run => orders[i].id[2] <= consumed
                            /\ orders[i].side = "buy" => orders[i].lots = {orders[i].id}
      BY <1>3, <3>1 DEF OrderInv
    <3>5. /\ o.id[1] = run /\ o.id[2] = slot.seq
          /\ o.side = "buy" => o.lots = {o.id}
      BY <2>2, BarOrder DEF Bought
    <3>6. ActedOnce'
      <4> SUFFICES ASSUME NEW i \in 1 .. n + 1, NEW j \in 1 .. n + 1, i < j
                   PROVE  \/ orders'[i].id[1] < orders'[j].id[1]
                          \/ /\ orders'[i].id[1] = orders'[j].id[1]
                             /\ orders'[i].id[2] < orders'[j].id[2]
        BY <3>1 DEF ActedOnce
      <4>1. i \in 1 .. n
        BY <3>1
      <4>2. CASE j \in 1 .. n
        <5>1. orders'[i] = orders[i] /\ orders'[j] = orders[j]
          BY <4>1, <4>2, <3>1
        <5>2. i \in DOMAIN orders /\ j \in DOMAIN orders /\ ActedOnce
          BY <4>1, <4>2, <1>3, <3>1 DEF OrderInv
        <5>3. \/ orders[i].id[1] < orders[j].id[1]
              \/ orders[i].id[1] = orders[j].id[1] /\ orders[i].id[2] < orders[j].id[2]
          BY <5>2 DEF ActedOnce
        <5> QED BY <5>1, <5>3
      <4>3. CASE j = n + 1
        <5>1. orders'[i].id = orders[i].id /\ orders'[j].id = o.id
          BY <4>1, <4>3, <3>1
        <5>2. orders[i].id[1] <= run /\ orders[i].id[1] \in Nat /\ orders[i].id[2] \in Nat
          BY <4>1, <3>3, <3>4
        <5>3. orders[i].id[1] = run => orders[i].id[2] < slot.seq
          BY <4>1, <3>2, <3>4, <5>2
        <5> QED BY <5>1, <5>2, <5>3, <3>2, <3>5
      <4> QED BY <3>1, <4>2, <4>3
    <3>7. \A i \in 1 .. n + 1 :
             /\ orders'[i].id[1] <= run
             /\ orders'[i].id[1] = run => orders'[i].id[2] <= slot.seq
             /\ orders'[i].side = "buy" => orders'[i].lots = {orders'[i].id}
      <4> TAKE i \in 1 .. n + 1
      <4>1. CASE i \in 1 .. n
        <5>1. orders'[i] = orders[i]
          BY <4>1, <3>1
        <5>2. orders[i].id[1] = run => orders[i].id[2] <= slot.seq
          BY <4>1, <3>2, <3>3, <3>4
        <5> QED BY <4>1, <5>1, <5>2, <3>4
      <4>2. CASE i = n + 1
        <5>1. orders'[i] = o
          BY <4>2, <3>1
        <5> HIDE DEF o
        <5> QED BY <5>1, <3>2, <3>5
      <4> QED BY <3>1, <4>1, <4>2
    <3> QED BY <1>3, <3>1, <3>2, <3>6, <3>7 DEF OrderInv
  <2> QED BY <2>1, <2>2
<1>12. HeldInv'
  <2>1. CASE Side = "none"
    <3>1. consumed \in Nat /\ consumed' \in Nat /\ consumed <= consumed'
      BY <1>3, BarOrder, AiBotAssumption DEF BotTyped, Fresher
    <3>2. UNCHANGED <<run, intent, held, orders, venueOrders>>
      BY <2>1, <1>3, BarOrder DEF venueOrders
    <3>3. held \subseteq Lots /\ intent.lots \subseteq Lots
      BY <1>3 DEF BotTyped
    <3> QED BY <1>3, <3>1, <3>2, <3>3, HeldSame
  <2>2. CASE Side # "none"
    <3>1. /\ n \in Nat /\ DOMAIN orders = 1 .. n /\ DOMAIN orders' = 1 .. n + 1
          /\ orders'[n + 1] = o /\ \A i \in 1 .. n : orders'[i] = orders[i]
      BY <1>3, <1>7, <2>2, Appended DEF BotTyped
    <3>2. intent = NoIntent /\ intent.lots = {}
      BY BarOrder DEF NoIntent
    <3>3. \A i \in 1 .. n : orders[i].side = "sell" => id \notin orders[i].lots
      <4> SUFFICES ASSUME NEW j \in 1 .. n, orders[j].side = "sell", id \in orders[j].lots
                   PROVE  FALSE
        OBVIOUS
      <4>1. PICK i \in 1 .. j - 1 : orders[i].side = "buy" /\ orders[i].lots = {id}
        BY <1>3, <3>1 DEF HeldInv, SellsUnwindBuys
      <4>2. i \in 1 .. n
        BY <3>1
      <4>3. orders[i].id = id
        BY <1>3, <3>1, <4>1, <4>2 DEF OrderInv
      <4>4. orders[i].id[2] <= consumed
        BY <1>3, <3>1, <4>2, <4>3 DEF OrderInv
      <4> QED BY <1>3, <2>2, <4>3, <4>4, BarOrder, AiBotAssumption DEF Fresher, BotTyped
    <3>4. \A lot \in held :
             /\ lot[1] = run
             /\ \E i \in 1 .. n : orders[i].side = "buy" /\ orders[i].lots = {lot}
             /\ \A i \in 1 .. n : orders[i].side = "sell" => lot \notin orders[i].lots
      BY <1>3, <3>1 DEF HeldInv
    <3>5. \A unit \in Units :
             /\ Known("buy", unit) =>
                   /\ unit[1][1] < run \/ (unit[1][1] = run /\ unit[1][2] <= consumed')
                   /\ unit[1] # id
             /\ Known("sell", unit) => Known("buy", unit) /\ unit[1] \notin held
             /\ unit[1] \in held => Known("buy", unit)
             /\ Known("buy", unit) /\ unit[1][1] = run /\ unit[1] \notin held =>
                   Known("sell", unit)
             /\ \A side : Known(side, unit)' = Known(side, unit)
      <4> TAKE unit \in Units
      <4>1. unit[1][1] \in Nat /\ unit[1][2] \in Nat /\ run \in Nat
        <5>1. run \in Nat
          BY <1>3, AiBotAssumption DEF BotTyped, Runs
        <5>2. unit[1] \in Lots
          BY DEF Units
        <5> QED BY <5>1, <5>2, AiBotAssumption DEF Lots, Runs
      <4>2. consumed \in Nat /\ slot.seq \in Nat /\ consumed < slot.seq
            /\ consumed' = slot.seq
        BY <1>3, <2>2, BarOrder, AiBotAssumption DEF BotTyped, Fresher
      <4>3. /\ Known("buy", unit) =>
                  unit[1][1] < run \/ (unit[1][1] = run /\ unit[1][2] <= consumed)
            /\ Known("sell", unit) => Known("buy", unit) /\ unit[1] \notin held
            /\ unit[1] \in held => Known("buy", unit)
            /\ Known("buy", unit) /\ unit[1][1] = run /\ unit[1] \notin held =>
                  Known("sell", unit)
        BY <1>3, <3>2 DEF HeldInv, UnitInv
      <4>4. unit[1] = id => unit[1][1] = run /\ unit[1][2] = slot.seq
        OBVIOUS
      <4>5. \A side : Known(side, unit)' = Known(side, unit)
        BY <1>3 DEF Known
      <4> QED BY <4>1, <4>2, <4>3, <4>4, <4>5
    <3>6. \A j \in 1 .. n : orders[j].side = "sell" =>
             \A lot \in orders[j].lots :
                /\ lot[1] = orders[j].id[1]
                /\ \E i \in 1 .. j - 1 : orders[i].side = "buy" /\ orders[i].lots = {lot}
                /\ \A i \in 1 .. j - 1 :
                      orders[i].side = "sell" => lot \notin orders[i].lots
      BY <1>3, <3>1 DEF HeldInv, SellsUnwindBuys
    <3>7. run' = run /\ id[1] = run /\ run \in Nat
      BY <1>3, AiBotAssumption DEF BotTyped, Runs
    <3>8. SellsUnwindBuys'
      <4> SUFFICES ASSUME NEW j \in 1 .. n + 1, orders'[j].side = "sell",
                          NEW lot \in orders'[j].lots
                   PROVE  /\ lot[1] = orders'[j].id[1]
                          /\ \E i \in 1 .. j - 1 :
                                orders'[i].side = "buy" /\ orders'[i].lots = {lot}
                          /\ \A i \in 1 .. j - 1 :
                                orders'[i].side = "sell" => lot \notin orders'[i].lots
        BY <3>1 DEF SellsUnwindBuys
      <4>1. \A i \in 1 .. j - 1 : i \in 1 .. n /\ orders'[i] = orders[i]
        BY <3>1
      <4>2. CASE j \in 1 .. n
        <5>1. orders'[j] = orders[j]
          BY <4>2, <3>1
        <5>2. /\ lot[1] = orders[j].id[1]
              /\ \A i \in 1 .. j - 1 :
                    orders[i].side = "sell" => lot \notin orders[i].lots
          BY <4>2, <5>1, <3>6
        <5>3. PICK i \in 1 .. j - 1 : orders[i].side = "buy" /\ orders[i].lots = {lot}
          BY <4>2, <5>1, <3>6
        <5>4. orders'[i].side = "buy" /\ orders'[i].lots = {lot}
          BY <4>1, <5>3
        <5> QED BY <4>1, <5>1, <5>2, <5>4
      <4>3. CASE j = n + 1
        <5>1. orders'[j] = o /\ o.id = id /\ o.side = Side /\ o.lots = intent'.lots
          BY <4>3, <3>1
        <5>2. Side = "sell" /\ intent'.lots = held
          BY <5>1, BarOrder
        <5>3. lot \in held /\ j - 1 = n
          BY <4>3, <5>1, <5>2, <3>1
        <5> HIDE DEF o, id
        <5>4. /\ lot[1] = run
              /\ \A i \in 1 .. n : orders[i].side = "sell" => lot \notin orders[i].lots
          BY <5>3, <3>4
        <5>5. PICK i \in 1 .. n : orders[i].side = "buy" /\ orders[i].lots = {lot}
          BY <5>3, <3>4
        <5>6. orders'[j].id[1] = run
          BY <5>1, <3>7
        <5>7. i \in 1 .. j - 1 /\ orders'[i].side = "buy" /\ orders'[i].lots = {lot}
          BY <4>1, <5>3, <5>5
        <5> QED BY <4>1, <5>3, <5>4, <5>6, <5>7
      <4> QED BY <3>1, <4>2, <4>3
    <3>9. CASE Side = "buy"
      <4>1. /\ intent'.side = "buy" /\ intent'.lots = {id} /\ held' = held \cup {id}
            /\ o.side = "buy" /\ o.lots = {id}
        BY <3>9, BarOrder DEF Bought
      <4>0. id[1] = run /\ id[2] <= consumed'
        BY <1>3, <2>2, BarOrder, AiBotAssumption DEF BotTyped, Fresher
      <4> HIDE DEF id, o
      <4>2. UnitInv'
        <5> SUFFICES ASSUME NEW unit \in Units
                     PROVE
          /\ Known("buy", unit) =>
                unit[1][1] < run \/ (unit[1][1] = run /\ unit[1][2] <= consumed')
          /\ Known("sell", unit) => Known("buy", unit) /\ unit[1] \notin held'
          /\ unit[1] \in held' => Known("buy", unit) \/ unit[1] \in intent'.lots
          /\ Known("buy", unit) /\ unit[1][1] = run /\ unit[1] \notin held' =>
                Known("sell", unit) \/ unit[1] \in intent'.lots
          /\ intent'.side # "sell"
          BY <3>5, <3>7, Zenon DEF UnitInv
        <5>1. unit[1] \in held' <=> unit[1] \in held \/ unit[1] = id
          BY <4>1
        <5>2. unit[1] = id => unit[1] \in intent'.lots
          BY <4>1
        <5> QED BY <3>5, <4>1, <5>1, <5>2
      <4>3. \A lot \in held' :
               /\ lot[1] = run
               /\ \E i \in 1 .. n + 1 : orders'[i].side = "buy" /\ orders'[i].lots = {lot}
               /\ \A i \in 1 .. n + 1 : orders'[i].side = "sell" => lot \notin orders'[i].lots
        <5> TAKE lot \in held'
        <5>1. lot[1] = run
          BY <3>4, <3>7, <4>1
        <5>2. \A i \in 1 .. n + 1 : orders'[i].side = "sell" => lot \notin orders'[i].lots
          <6> TAKE i \in 1 .. n + 1
          <6>1. CASE i = n + 1
            BY <6>1, <3>1, <4>1
          <6>2. CASE i \in 1 .. n
            BY <6>2, <3>1, <3>3, <3>4, <4>1
          <6> QED BY <3>1, <6>1, <6>2
        <5>3. CASE lot = id
          <6>1. n + 1 \in 1 .. n + 1
            BY <3>1
          <6> QED BY <5>1, <5>2, <5>3, <6>1, <3>1, <4>1
        <5>4. CASE lot \in held
          <6>1. PICK i \in 1 .. n : orders[i].side = "buy" /\ orders[i].lots = {lot}
            BY <5>4, <3>4
          <6>2. i \in 1 .. n + 1 /\ orders'[i] = orders[i]
            BY <3>1
          <6> QED BY <5>1, <5>2, <6>1, <6>2
        <5> QED BY <4>1, <5>3, <5>4
      <4>4. \A lot \in intent'.lots : lot[1] = run /\ lot[2] <= consumed'
        BY <3>7, <4>0, <4>1
      <4>5. intent'.lots \subseteq held' /\ intent'.side # "sell"
        BY <4>1
      <4> QED BY <3>1, <3>7, <3>8, <4>1, <4>2, <4>3, <4>4, <4>5 DEF HeldInv
    <3>10. CASE Side = "sell"
      <4>1. intent'.side = "sell" /\ intent'.lots = held /\ held' = {}
        BY <3>10, BarOrder
      <4>2. UnitInv'
        <5> SUFFICES ASSUME NEW unit \in Units
                     PROVE
          /\ Known("buy", unit) =>
                unit[1][1] < run \/ (unit[1][1] = run /\ unit[1][2] <= consumed')
          /\ Known("sell", unit) => Known("buy", unit) /\ unit[1] \notin held'
          /\ unit[1] \in held' => Known("buy", unit) \/ unit[1] \in intent'.lots
          /\ Known("buy", unit) /\ unit[1][1] = run /\ unit[1] \notin held' =>
                Known("sell", unit) \/ unit[1] \in intent'.lots
          /\ intent'.side = "sell" /\ unit[1] \in intent'.lots => Known("buy", unit)
          BY <3>5, <3>7, Zenon DEF UnitInv
        <5> QED BY <3>5, <4>1
      <4> QED BY <3>7, <3>8, <4>1, <4>2 DEF HeldInv
    <3> QED BY <2>2, <3>9, <3>10, BarOrder
  <2> QED BY <2>1, <2>2
<1> QED BY <1>1, <1>2, <1>4, <1>9, <1>10, <1>11, <1>12 DEF IInv

-----------------------------------------------------------------------------
(* The invariant, and what follows from it.                                *)

LEMMA InitHolds == Init => IInv
<1> SUFFICES ASSUME Init PROVE IInv
  OBVIOUS
<1> USE DEF Init
<1>1. VenueTyped
  BY BarSourceAssumption DEF VenueTyped, BarInit
<1>2. orders \in Seq(Orders) /\ DOMAIN orders = {}
  OBVIOUS
<1>3. BotTyped
  <2>1. /\ run \in Runs /\ today \in Days /\ closes \in 0 .. Lookback
        /\ consumed \in 0 .. MaxSeq /\ seq \in 0 .. MaxSeq /\ snap \in 0 .. MaxSeq
        /\ acted \in 0 .. MaxSeq /\ day \in 0 .. MaxDays
    BY AiBotAssumption DEF Runs, Days
  <2>2. slot \in [seq : 0 .. MaxSeq, action : Actions, seen : 0 .. MaxSeq]
    BY AiBotAssumption DEF NoSignal, Actions
  <2>3. intent \in [side : {"buy", "sell", "none"}, lots : SUBSET Lots]
    BY DEF NoIntent
  <2>4. /\ asked \in [Runs -> [Days -> Nat]] /\ failed \in [Runs -> [Days -> Nat]]
        /\ flags \in [Runs -> [Days -> Nat]]
    OBVIOUS
  <2> QED BY <1>2, <2>1, <2>2, <2>3, <2>4 DEF BotTyped
<1>4. LoopInv /\ SeqInv
  BY DEF LoopInv, SeqInv, AtMostOneBehind, Fresher, NoSignal
<1>5. OrderInv
  BY <1>2 DEF OrderInv, ActedOnce
<1>6. HeldInv
  BY <1>2 DEF HeldInv, SellsUnwindBuys, UnitInv, Known, NoIntent
<1>7. CostInv
  BY AiBotAssumption DEF CostInv, BudgetKept, InFlight
<1> QED BY <1>1, <1>3, <1>4, <1>5, <1>6, <1>7 DEF IInv

\* The invariant holds in every state an AI bot reaches.
THEOREM AiInductive == Spec => []IInv
<1>1. IInv /\ [Next]_vars => IInv'
  <2> SUFFICES ASSUME IInv, [Next]_vars PROVE IInv'
    OBVIOUS
  <2>1. CASE BarLoop
    BY <2>1, BarOpenKeeps, BarClosedKeeps, NextBarKeeps, PollKeeps, SubmittedKeeps
       DEF BarLoop
  <2>2. CASE Companion
    BY <2>2, TickKeeps, DecideKeeps, ConsultFailsKeeps, AnnouncedKeeps,
       AnnounceFailsKeeps DEF Companion
  <2>3. CASE Ends \/ Restart
    BY <2>3, EndsKeeps, RestartKeeps
  <2>4. CASE Midnight \/ Market
    BY <2>4, MidnightKeeps, MarketKeeps
  <2>5. CASE Over \/ UNCHANGED vars
    BY <2>5, StutterKeeps DEF Over
  <2> QED BY <2>1, <2>2, <2>3, <2>4, <2>5, VenueKeeps DEF Next
<1> QED BY InitHolds, <1>1, PTL DEF Spec

\* Every variable keeps its type: windows, counters, slots and positions.
THEOREM AiTyping == Spec => []TypeOK
<1>1. IInv => TypeOK
  BY DEF IInv, VenueTyped, BotTyped, TypeOK
<1> QED BY <1>1, AiInductive, PTL

\* A bar is yielded while its period goes on only if no other candle is in the
\* window of the request: with whatever periods left out, however late the polls
\* and however many the rows.
THEOREM FormingBarsAreAlone == Spec => []FormingIsAlone
<1>1. Init => FormingIsAlone
  BY DEF Init, BarInit, FormingIsAlone
<1>2. IInv /\ FormingIsAlone /\ [Next]_vars => FormingIsAlone'
  <2> SUFFICES ASSUME IInv, FormingIsAlone, [Next]_vars PROVE FormingIsAlone'
    OBVIOUS
  <2>1. now \in Nat /\ candles \subseteq 1 .. now /\ VenueTyped
    BY BarSourceAssumption DEF IInv, VenueTyped
  <2>2. CASE Yield
    <3>1. candles' = candles /\ Rows # {} /\ LatestClosed(Rows) \in candles
      BY <2>1, <2>2, ChosenRow DEF Yield, HasNews, venueVars
    <3>2. \A c \in forming' \ forming : c = now /\ LatestClosed(Rows) = now
      BY <2>2 DEF Yield
    <3>3. \A c \in forming' \ forming :
             c \in candles /\ ~\E d \in candles : d < c /\ c < d + Window
      BY <2>1, <3>1, <3>2, ChosenIsClosed
    <3> QED BY <3>1, <3>3 DEF FormingIsAlone
  <2>3. CASE Period
    <3>1. candles' \in {candles, candles \cup {now + 1}} /\ forming' = forming
      BY <2>3 DEF Period, genVars
    <3>2. \A c \in candles : ~(now + 1 < c)
      BY <2>1
    <3> QED BY <3>1, <3>2 DEF FormingIsAlone
  <2>4. CASE UNCHANGED <<candles, forming>>
    BY <2>4 DEF FormingIsAlone
  <2>5. Yield \/ Period \/ UNCHANGED <<candles, forming>>
    BY DEF Next, BarLoop, Companion, Ends, Restart, Midnight, Market, Over, vars, venueVars,
           genVars, BarOpen, BarClosed, NextBar, Poll, Submitted, Tick, Decide, ConsultFails,
           Announced, AnnounceFails, NoNews, PollAgain, AskNext, Venue, ExecutesLater,
           RestIsOver
  <2> QED BY <2>2, <2>3, <2>4, <2>5
<1> QED BY <1>1, <1>2, AiInductive, PTL DEF Spec

\* No decision leads to two orders, whatever the interleaving of the two
\* coroutines and however often the bot is started.
THEOREM DecisionsActOnce == Spec => []ActedOnce
<1>1. IInv => ActedOnce
  BY DEF IInv, OrderInv
<1> QED BY <1>1, AiInductive, PTL

\* The decision in the slot was made knowing all the decisions acted on, or all
\* but the one that was in the slot before it.
THEOREM DecisionsAreTimely == Spec => []AtMostOneBehind
<1>1. IInv => AtMostOneBehind
  BY DEF IInv, SeqInv
<1> QED BY <1>1, AiInductive, PTL

\* The invariant explains the difference between what is held and the position.
LEMMA Explained == ASSUME IInv PROVE PositionExplained
<1>1. HeldInv /\ BotTyped /\ UnitInv
  BY DEF IInv, HeldInv
<1>2. \A side, unit : Known(side, unit) <=>
                          <<side, unit>> \in executed \/ Outstanding(side, unit)
  BY DEF Known, Outstanding
<1>3. ASSUME NEW unit \in Units
      PROVE  /\ unit \in Position <=> /\ <<"buy", unit>> \in executed
                                    /\ <<"sell", unit>> \notin executed
             /\ unit \in Short <=> /\ <<"sell", unit>> \in executed
                                 /\ <<"buy", unit>> \notin executed
  BY DEF Position, Short, Done
<1>4. Position \subseteq Units /\ Short \subseteq Units
  BY DEF Position, Short, Done
<1>5. \A unit \in Short : Outstanding("buy", unit)
  BY <1>1, <1>2, <1>3, <1>4 DEF UnitInv
<1>6. \A unit \in Units \ Position : unit[1] \in held =>
          Outstanding("buy", unit) \/ unit[1] \in intent.lots
  BY <1>1, <1>2, <1>3 DEF UnitInv
<1>7. \A unit \in Position : unit[1] \notin held =>
          \/ Outstanding("sell", unit)
          \/ unit[1][1] < run \/ unit[1] \in intent.lots
  BY <1>1, <1>2, <1>3, <1>4 DEF UnitInv
<1> QED BY <1>5, <1>6, <1>7 DEF PositionExplained

\* The quantity the bot believes it holds departs from its position only by
\* units that have not executed, yet or for good, and by earlier runs, however
\* the venue splits, delays or drops the executions.
THEOREM HoldingsAreExplained == Spec => []HeldAgainstPosition
<1>1. IInv => HeldAgainstPosition
  BY HeldParts, Explained DEF IInv, HeldInv
<1> QED BY <1>1, AiInductive, PTL

\* The cap on consults holds for every start and day but for those that failed,
\* and is announced once.
THEOREM CapIsKept == Spec => []BudgetKept
<1>1. IInv => BudgetKept
  BY DEF IInv, CostInv
<1> QED BY <1>1, AiInductive, PTL
=============================================================================
