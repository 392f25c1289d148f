---------------------------- MODULE Replay_proofs -----------------------------
(***************************************************************************)
(* The theorems of Replay: the backtest and the paper bot agree, strategy  *)
(* and ledger agree, the strategies keep their promises over a whole run   *)
(* and what they remember of it stands for all of it, and the market's     *)
(* hours are kept.  They hold for every scenario: every stream of bars,    *)
(* every time the bot joins, every parameter the constructors accept.      *)
(*                                                                         *)
(* Each invariant is BaseInv, the shape of the state, and what has to be   *)
(* known besides; a step is nothing, Joins, or BarComes(bar).              *)
(***************************************************************************)
EXTENDS Replay, Strategies_proofs

-----------------------------------------------------------------------------
(* Orders, in the backtest and at the bot's venue.                         *)

\* The venues, and the locals of the two sides for a state of the strategy.
Venues == [mark : Int, resting : Seq(Intents)]
TestLocals(st) == [st : {st}, venue : Venues, cash : Int, pos : Int]
LiveLocals(st, mark) ==
    [st : {st}, venue : Venues, pos : Int, cashOut : Int, mark : {mark}, refused : Int]

\* What a market order fills at, and an order that rests.
MarketFill(intent, mark) == Fill(intent.side, intent.qty, Slipped(mark, intent.side))
Rests(venue, intent) == [venue EXCEPT !.resting = Append(@, intent)]
HasMark(x) == ~(x.venue.mark <= 0)

FillTypes(intent, fill) ==
    /\ fill.side = intent.side /\ fill.qty = intent.qty /\ fill.price \in Int /\ fill.fee \in Int
    /\ intent.qty * fill.price \in Int /\ Signed(intent.side, intent.qty) \in Int
    /\ Signed(intent.side, intent.qty * fill.price) \in Int
\* A fill is well formed.
LEMMA FillOK ==
    ASSUME NEW intent \in Intents, NEW mark \in Int
    PROVE  FillTypes(intent, MarketFill(intent, mark))
<1> DEFINE side == intent.side
           qty == intent.qty
<1>1. \A a \in Int : a \div 10000 \in Int
    OBVIOUS
<1>2. side \in {"buy", "sell"} /\ qty \in Nat
    BY DEF Intents
<1> HIDE DEF side, qty
<1>3. (mark * SlippageBps) \div 10000 \in Int
  <2>1. mark * SlippageBps \in Int
      BY VenueAssumption
  <2> QED BY <1>1, <2>1
<1>4. Slipped(mark, side) \in Int
  <2> DEFINE adj == (mark * SlippageBps) \div 10000
  <2>1. adj \in Int
      BY <1>3
  <2>2. Slipped(mark, side) = IF side = "buy" THEN mark + adj ELSE mark - adj
      BY DEF Slipped
  <2> HIDE DEF adj
  <2> QED BY <2>1, <2>2
<1> DEFINE price == Slipped(mark, side)
<1> HIDE DEF price
<1>5. price \in Int
    BY <1>4 DEF price
<1>6. qty * price \in Int
    BY <1>2, <1>5
<1>7. (qty * price) * FeeBps \in Int
    BY <1>6, VenueAssumption
<1>8. ((qty * price) * FeeBps) \div 10000 \in Int
    BY <1>1, <1>7
<1>9. MarketFill(intent, mark) = [side |-> side, qty |-> qty, price |-> price,
                                  fee |-> ((qty * price) * FeeBps) \div 10000]
    BY DEF MarketFill, Fill, side, qty, price
<1>10. Signed(side, qty) \in Int /\ Signed(side, qty * price) \in Int
    BY <1>2, <1>6 DEF Signed
<1> QED BY <1>5, <1>6, <1>8, <1>9, <1>10 DEF FillTypes, side, qty

\* A venue stays one when an order rests.
LEMMA RestsOK ==
    ASSUME NEW venue \in Venues, NEW intent \in Intents
    PROVE  Rests(venue, intent) \in Venues /\ Rests(venue, intent).mark = venue.mark
BY DEF Rests, Venues

\* An order has at most one fill, and the backtest books it.
LEMMA TestPlaceBooks ==
    ASSUME NEW t, NEW intent
    PROVE  LET result == Place(t.venue, intent)
               start == [t EXCEPT !.venue = result.venue]
           IN  /\ result.fills = <<>> => TestPlace(t, intent) = start
               /\ \A f : result.fills = <<f>> => TestPlace(t, intent) = TestFill(start, f)
<1> DEFINE result == Place(t.venue, intent)
           fills == result.fills
           start == [t EXCEPT !.venue = result.venue]
           Books(g) == g = [k \in 0 .. Len(fills) |->
                               IF k = 0 THEN start ELSE TestFill(g[k - 1], fills[k])]
           booked == CHOOSE g : Books(g)
<1>1. TestPlace(t, intent) = booked[Len(fills)]
    BY DEF TestPlace
<1> HIDE DEF fills, start
<1>2. ASSUME fills = <<>> PROVE booked[Len(fills)] = start
  <2> DEFINE g == [k \in 0 .. 0 |-> start]
  <2>1. Len(fills) = 0 /\ 0 .. 0 = {0}
      BY <1>2
  <2>2. Books(g)
      BY <2>1
  <2>3. Books(booked)
      BY <2>2
  <2> HIDE DEF booked
  <2> QED BY <2>1, <2>3
<1>3. ASSUME NEW f, fills = <<f>> PROVE booked[Len(fills)] = TestFill(start, f)
  <2> DEFINE g == [k \in 0 .. 1 |-> IF k = 0 THEN start ELSE TestFill(start, f)]
  <2>1. Len(fills) = 1 /\ fills[1] = f /\ 0 .. 1 = {0, 1}
      BY <1>3
  <2>2. Books(g)
      BY <2>1
  <2>3. Books(booked)
      BY <2>2
  <2> HIDE DEF booked
  <2>4. booked[0] = start
      BY <2>1, <2>3
  <2>5. booked[1] = TestFill(booked[0], fills[1])
      BY <2>1, <2>3
  <2> QED BY <2>1, <2>4, <2>5
<1> QED BY <1>1, <1>2, <1>3 DEF fills, start

\* ... and so does the bot.
LEMMA LivePlaceBooks ==
    ASSUME NEW l, NEW intent, NEW open
    PROVE  LET result == GuardedPlace(l.venue, intent, open)
               start == [l EXCEPT !.venue = result.venue,
                                  !.refused = IF result.status # "rejected" THEN @
                                              ELSE @ + Signed(intent.side, intent.qty)]
           IN  /\ result.fills = <<>> => LivePlace(l, intent, open) = start
               /\ \A f : result.fills = <<f>> => LivePlace(l, intent, open) = LedgerFill(start, f)
<1> DEFINE result == GuardedPlace(l.venue, intent, open)
           fills == result.fills
           start == [l EXCEPT !.venue = result.venue,
                              !.refused = IF result.status # "rejected" THEN @
                                          ELSE @ + Signed(intent.side, intent.qty)]
           Books(g) == g = [k \in 0 .. Len(fills) |->
                               IF k = 0 THEN start ELSE LedgerFill(g[k - 1], fills[k])]
           booked == CHOOSE g : Books(g)
<1>1. LivePlace(l, intent, open) = booked[Len(fills)]
    BY DEF LivePlace
<1> HIDE DEF fills, start
<1>2. ASSUME fills = <<>> PROVE booked[Len(fills)] = start
  <2> DEFINE g == [k \in 0 .. 0 |-> start]
  <2>1. Len(fills) = 0 /\ 0 .. 0 = {0}
      BY <1>2
  <2>2. Books(g)
      BY <2>1
  <2>3. Books(booked)
      BY <2>2
  <2> HIDE DEF booked
  <2> QED BY <2>1, <2>3
<1>3. ASSUME NEW f, fills = <<f>> PROVE booked[Len(fills)] = LedgerFill(start, f)
  <2> DEFINE g == [k \in 0 .. 1 |-> IF k = 0 THEN start ELSE LedgerFill(start, f)]
  <2>1. Len(fills) = 1 /\ fills[1] = f /\ 0 .. 1 = {0, 1}
      BY <1>3
  <2>2. Books(g)
      BY <2>1
  <2>3. Books(booked)
      BY <2>2
  <2> HIDE DEF booked
  <2>4. booked[0] = start
      BY <2>1, <2>3
  <2>5. booked[1] = LedgerFill(booked[0], fills[1])
      BY <2>1, <2>3
  <2> QED BY <2>1, <2>4, <2>5
<1> QED BY <1>1, <1>2, <1>3 DEF fills, start

\* What an order does to the backtest: a limit order rests, a market order
\* fills at the mark, or is refused without one.
TestRests(t, new, intent) ==
    new.venue = Rests(t.venue, intent) /\ new.pos = t.pos /\ new.cash = t.cash
TestFills(t, new, intent) ==
    LET fill == MarketFill(intent, t.venue.mark)
    IN  /\ new.venue = t.venue /\ new.pos = t.pos + Signed(intent.side, intent.qty)
        /\ new.cash = t.cash - Signed(intent.side, intent.qty * fill.price) - fill.fee
\* An order of the backtest rests, is dropped, or fills and is booked.
LEMMA TestPlaceStep ==
    ASSUME NEW st, NEW t \in TestLocals(st), NEW intent \in Intents
    PROVE  LET new == TestPlace(t, intent)
           IN  /\ new \in TestLocals(st)
               /\ intent.type = "limit" => TestRests(t, new, intent)
               /\ (intent.type # "limit" /\ ~HasMark(t)) => new = t
               /\ (intent.type # "limit" /\ HasMark(t)) => TestFills(t, new, intent)
<1> DEFINE new == TestPlace(t, intent)
           fill == MarketFill(intent, t.venue.mark)
           after == Rests(t.venue, intent)
<1>1. /\ t.venue \in Venues /\ t.venue.mark \in Int /\ t.pos \in Int /\ t.cash \in Int
      /\ intent.side \in {"buy", "sell"} /\ intent.qty \in Nat
    BY DEF TestLocals, Venues, Intents
<1>2. /\ fill.side = intent.side /\ fill.qty = intent.qty /\ fill.price \in Int /\ fill.fee \in Int
      /\ Signed(intent.side, intent.qty) \in Int
      /\ Signed(intent.side, intent.qty * fill.price) \in Int
    BY <1>1, FillOK DEF FillTypes
<1>3. after \in Venues /\ after.mark = t.venue.mark
    BY <1>1, RestsOK
<1> HIDE DEF after, fill
<1>4. CASE intent.type = "limit"
  <2>1. Place(t.venue, intent).venue = after /\ Place(t.venue, intent).fills = <<>>
      BY <1>4 DEF Place, Rests, after
  <2>2. new = [t EXCEPT !.venue = after]
      BY <2>1, TestPlaceBooks
  <2>3. new \in TestLocals(st) /\ new.venue = after /\ new.pos = t.pos /\ new.cash = t.cash
      BY <1>3, <2>2 DEF TestLocals
  <2> QED BY <1>3, <1>4, <2>3 DEF after, TestRests
<1>5. CASE intent.type # "limit" /\ ~HasMark(t)
  <2>1. Place(t.venue, intent).venue = t.venue /\ Place(t.venue, intent).fills = <<>>
      BY <1>5 DEF Place, HasMark
  <2>2. new = [t EXCEPT !.venue = Place(t.venue, intent).venue]
      BY <2>1, TestPlaceBooks
  <2>3. new = t
      BY <2>1, <2>2 DEF TestLocals
  <2> QED BY <1>5, <2>3
<1>6. CASE intent.type # "limit" /\ HasMark(t)
  <2>1. Place(t.venue, intent).venue = t.venue /\ Place(t.venue, intent).fills = <<fill>>
      BY <1>6 DEF Place, MarketFill, fill, HasMark
  <2>2. new = TestFill([t EXCEPT !.venue = t.venue], fill)
      BY <2>1, TestPlaceBooks
  <2>3. [t EXCEPT !.venue = t.venue] = t
      BY DEF TestLocals
  <2>4. new = [t EXCEPT !.pos = t.pos + Signed(intent.side, intent.qty),
                        !.cash = t.cash - Signed(intent.side, intent.qty * fill.price) - fill.fee]
      BY <1>2, <2>2, <2>3 DEF TestFill, TestLocals
  <2>5. /\ t.pos + Signed(intent.side, intent.qty) \in Int
        /\ t.cash - Signed(intent.side, intent.qty * fill.price) - fill.fee \in Int
      BY <1>1, <1>2
  <2>6. /\ new \in TestLocals(st) /\ new.venue = t.venue
        /\ new.pos = t.pos + Signed(intent.side, intent.qty)
        /\ new.cash = t.cash - Signed(intent.side, intent.qty * fill.price) - fill.fee
      BY <2>4, <2>5 DEF TestLocals
  <2> QED BY <1>6, <2>6 DEF fill, TestFills
<1> QED BY <1>4, <1>5, <1>6

\* What an order does to the bot: it rests, it is refused and remembered as
\* refused, or it fills at the mark.
LiveRests(l, new, intent) ==
    /\ new.venue = Rests(l.venue, intent)
    /\ new.pos = l.pos /\ new.cashOut = l.cashOut /\ new.refused = l.refused
LiveRefused(l, new, intent) ==
    /\ new.venue = l.venue /\ new.pos = l.pos /\ new.cashOut = l.cashOut
    /\ new.refused = l.refused + Signed(intent.side, intent.qty)
LiveFills(l, new, intent) ==
    LET fill == MarketFill(intent, l.venue.mark)
    IN  /\ new.venue = l.venue /\ new.pos = l.pos + Signed(intent.side, intent.qty)
        /\ new.refused = l.refused
        /\ new.cashOut = l.cashOut + Signed(intent.side, intent.qty * fill.price) + fill.fee

\* An order of the bot does the same while the market is open.
LEMMA LivePlaceOpen ==
    ASSUME NEW st, NEW mark, NEW l \in LiveLocals(st, mark), NEW intent \in Intents
    PROVE  LET new == LivePlace(l, intent, TRUE)
           IN  /\ new \in LiveLocals(st, mark)
               /\ intent.type = "limit" => LiveRests(l, new, intent)
               /\ (intent.type # "limit" /\ ~HasMark(l)) => LiveRefused(l, new, intent)
               /\ (intent.type # "limit" /\ HasMark(l)) => LiveFills(l, new, intent)
<1> DEFINE new == LivePlace(l, intent, TRUE)
           fill == MarketFill(intent, l.venue.mark)
           signed == Signed(intent.side, intent.qty)
           after == Rests(l.venue, intent)
           result == GuardedPlace(l.venue, intent, TRUE)
           start(r) == [l EXCEPT !.venue = r.venue,
                                 !.refused = IF r.status # "rejected" THEN @ ELSE @ + signed]
<1>1. /\ l.venue \in Venues /\ l.venue.mark \in Int /\ l.pos \in Int /\ l.cashOut \in Int
      /\ l.refused \in Int /\ intent.side \in {"buy", "sell"} /\ intent.qty \in Nat
    BY DEF LiveLocals, Venues, Intents
<1>2. /\ fill.side = intent.side /\ fill.qty = intent.qty /\ fill.price \in Int /\ fill.fee \in Int
      /\ signed \in Int /\ intent.qty * fill.price \in Int
      /\ Signed(intent.side, intent.qty * fill.price) \in Int
    BY <1>1, FillOK DEF FillTypes
<1>3. after \in Venues /\ after.mark = l.venue.mark
    BY <1>1, RestsOK
<1>4. /\ result.fills = <<>> => new = start(result)
      /\ \A f : result.fills = <<f>> => new = LedgerFill(start(result), f)
    BY LivePlaceBooks
<1> HIDE DEF after, fill, signed, new
<1>5. CASE intent.type = "limit"
  <2>1. result.venue = after /\ result.fills = <<>> /\ result.status = "submitted"
      BY <1>5 DEF Place, Rests, after, GuardedPlace
  <2>2. new = [l EXCEPT !.venue = after, !.refused = l.refused]
      BY <1>4, <2>1
  <2>3. /\ new \in LiveLocals(st, mark) /\ new.venue = after /\ new.pos = l.pos
        /\ new.cashOut = l.cashOut /\ new.refused = l.refused
      BY <1>1, <1>3, <2>2 DEF LiveLocals
  <2> QED BY <1>5, <2>3 DEF after, new, LiveRests
<1>6. CASE intent.type # "limit" /\ ~HasMark(l)
  <2>1. result.venue = l.venue /\ result.fills = <<>> /\ result.status = "rejected"
      BY <1>6 DEF Place, GuardedPlace, HasMark
  <2>2. new = [l EXCEPT !.venue = l.venue, !.refused = l.refused + signed]
      BY <1>4, <2>1
  <2>3. l.refused + signed \in Int
      BY <1>1, <1>2
  <2>4. /\ new \in LiveLocals(st, mark) /\ new.venue = l.venue /\ new.pos = l.pos
        /\ new.cashOut = l.cashOut /\ new.refused = l.refused + signed
      BY <1>1, <2>2, <2>3 DEF LiveLocals
  <2> QED BY <1>6, <2>4 DEF new, signed, LiveRefused
<1>7. CASE intent.type # "limit" /\ HasMark(l)
  <2>1. result.venue = l.venue /\ result.fills = <<fill>> /\ result.status = "filled"
      BY <1>7 DEF Place, MarketFill, fill, GuardedPlace, HasMark
  <2>2. new = LedgerFill([l EXCEPT !.venue = l.venue, !.refused = l.refused], fill)
      BY <1>4, <2>1
  <2>3. [l EXCEPT !.venue = l.venue, !.refused = l.refused] = l
      BY DEF LiveLocals
  <2> DEFINE out == IF fill.side = "buy" THEN l.cashOut + (fill.qty * fill.price + fill.fee)
                                         ELSE l.cashOut - (fill.qty * fill.price - fill.fee)
  <2>4. new = [l EXCEPT !.pos = l.pos + Signed(fill.side, fill.qty), !.cashOut = out]
      BY <2>2, <2>3 DEF LedgerFill, LiveLocals
  <2>5. Signed(fill.side, fill.qty) = signed
      BY <1>2 DEF signed
  <2> DEFINE notional == intent.qty * fill.price
  <2> HIDE DEF notional
  <2>6. notional \in Int /\ fill.qty * fill.price = notional
      BY <1>2 DEF notional
  <2>7. out = l.cashOut + Signed(intent.side, notional) + fill.fee
      BY <1>1, <1>2, <2>6 DEF Signed
  <2>8. out \in Int /\ l.pos + signed \in Int
      BY <1>1, <1>2, <2>6, <2>7 DEF notional
  <2> HIDE DEF out
  <2>9. /\ new \in LiveLocals(st, mark) /\ new.venue = l.venue
        /\ new.pos = l.pos + signed /\ new.cashOut = out /\ new.refused = l.refused
      BY <1>1, <2>4, <2>5, <2>8 DEF LiveLocals
  <2> QED BY <1>7, <2>7, <2>9 DEF fill, new, signed, notional, LiveFills
<1> QED BY <1>5, <1>6, <1>7

\* While the market is closed every order is refused.
LEMMA LivePlaceShut ==
    ASSUME NEW st, NEW mark, NEW l \in LiveLocals(st, mark), NEW intent \in Intents
    PROVE  LET new == LivePlace(l, intent, FALSE)
           IN  new \in LiveLocals(st, mark) /\ LiveRefused(l, new, intent)
<1> DEFINE new == LivePlace(l, intent, FALSE)
           signed == Signed(intent.side, intent.qty)
           result == GuardedPlace(l.venue, intent, FALSE)
           start(r) == [l EXCEPT !.venue = r.venue,
                                 !.refused = IF r.status # "rejected" THEN @ ELSE @ + signed]
<1>1. /\ l.venue \in Venues /\ l.pos \in Int /\ l.cashOut \in Int /\ l.refused \in Int
      /\ signed \in Int
    BY DEF LiveLocals, Intents, Signed
<1>2. result.venue = l.venue /\ result.fills = <<>> /\ result.status = "rejected"
    BY DEF GuardedPlace
<1>3. /\ result.fills = <<>> => new = start(result)
      /\ \A f : result.fills = <<f>> => new = LedgerFill(start(result), f)
    BY LivePlaceBooks
<1> HIDE DEF signed
<1>4. new = [l EXCEPT !.venue = l.venue, !.refused = l.refused + signed]
    BY <1>2, <1>3
<1> HIDE DEF new
<1>5. l.refused + signed \in Int
    BY <1>1
<1>6. /\ new \in LiveLocals(st, mark) /\ new.venue = l.venue /\ new.pos = l.pos
      /\ new.cashOut = l.cashOut /\ new.refused = l.refused + signed
    BY <1>1, <1>4, <1>5 DEF LiveLocals
<1> QED BY <1>6 DEF new, signed, LiveRefused

\* The bot's locals stay well formed, whatever the hours.
LEMMA LivePlaceStep ==
    ASSUME NEW st, NEW mark, NEW l \in LiveLocals(st, mark), NEW intent \in Intents,
           NEW open \in BOOLEAN
    PROVE  LivePlace(l, intent, open) \in LiveLocals(st, mark)
<1>1. open = TRUE \/ open = FALSE
    OBVIOUS
<1>2. LivePlace(l, intent, TRUE) \in LiveLocals(st, mark)
    BY LivePlaceOpen
<1>3. LivePlace(l, intent, FALSE) \in LiveLocals(st, mark)
    BY LivePlaceShut
<1> QED BY <1>1, <1>2, <1>3

\* The orders of a bar, one after the other, in the backtest ...
TestRun(g, t, intents) ==
    /\ g[0] = t /\ \A k \in 1 .. Len(intents) : g[k] = TestPlace(g[k - 1], intents[k])
    /\ TestOrders(t, intents) = g[Len(intents)]
\* There is such a run, and it ends in TestOrders.
LEMMA TestRunExists ==
    ASSUME NEW st, NEW t \in TestLocals(st), NEW intents \in Seq(Intents)
    PROVE  \E g \in [0 .. Len(intents) -> TestLocals(st)] : TestRun(g, t, intents)
<1> DEFINE D == TestLocals(st)
           n == Len(intents)
           F == [k \in 1 .. n |-> [x \in D |-> TestPlace(x, intents[k])]]
           Places(g) == g = [k \in 0 .. n |->
                                IF k = 0 THEN t ELSE TestPlace(g[k - 1], intents[k])]
           placed == CHOOSE g : Places(g)
<1>1. n \in Nat /\ \A k \in 1 .. n : intents[k] \in Intents
    OBVIOUS
<1>2. \A k \in 1 .. n : \A x \in D : TestPlace(x, intents[k]) \in D
    BY <1>1, TestPlaceStep
<1>3. F \in [1 .. n -> [D -> D]]
    BY <1>2
<1>4. Unfolds(n, D, t, F)
  <2> HIDE DEF F, n, D
  <2>1. t \in D
      BY DEF D
  <2> QED BY <1>1, <1>3, <2>1, Recursion
<1>5. PICK g \in [0 .. n -> D] : g[0] = t /\ \A k \in 1 .. n : g[k] = F[k][g[k - 1]]
  <2> HIDE DEF F, n, D
  <2> QED BY <1>4 DEF Unfolds
<1>6. \A k \in 1 .. n : g[k] = TestPlace(g[k - 1], intents[k])
  <2>1. \A k \in 1 .. n : k - 1 \in 0 .. n
      BY <1>1
  <2>2. \A k \in 1 .. n : \A x \in D : F[k][x] = TestPlace(x, intents[k])
      OBVIOUS
  <2> HIDE DEF F, D
  <2> QED BY <1>5, <2>1, <2>2
<1>7. Places(g)
  <2> HIDE DEF D
  <2>1. \A k \in 0 .. n : k # 0 => k \in 1 .. n
      BY <1>1
  <2> QED BY <1>5, <1>6, <2>1
<1>8. Places(placed)
    BY <1>7
<1>9. TestOrders(t, intents) = placed[n]
    BY DEF TestOrders
<1> HIDE DEF placed, D
<1>10. placed[0] = t /\ \A k \in 1 .. n : placed[k] = TestPlace(placed[k - 1], intents[k])
  <2>1. 0 \in 0 .. n /\ \A k \in 1 .. n : k \in 0 .. n /\ k # 0
      BY <1>1
  <2> QED BY <1>8, <2>1
<1> DEFINE Q == {k \in 0 .. n : placed[k] \in D}
<1>11. 0 \in Q
    BY <1>1, <1>10 DEF D
<1>12. ASSUME NEW k \in 0 .. n - 1, k \in Q PROVE k + 1 \in Q
  <2>1. k + 1 \in 1 .. n /\ (k + 1) - 1 = k
      BY <1>1
  <2>2. placed[k + 1] = TestPlace(placed[k], intents[k + 1])
      BY <1>10, <2>1
  <2> QED BY <1>2, <1>12, <2>1, <2>2
<1>13. 0 .. n \subseteq Q
  <2> HIDE DEF Q, n
  <2> QED BY <1>1, <1>11, <1>12, BoundedInduction
<1>14. placed \in [0 .. n -> D]
  <2>1. placed = [k \in 0 .. n |-> placed[k]]
      BY <1>8
  <2>2. \A k \in 0 .. n : placed[k] \in D
      BY <1>13
  <2> QED BY <2>1, <2>2
<1> QED BY <1>9, <1>10, <1>14 DEF TestRun, D

\* ... and at the bot's venue.
LiveRun(g, l, intents, open) ==
    /\ g[0] = l /\ \A k \in 1 .. Len(intents) : g[k] = LivePlace(g[k - 1], intents[k], open[k])
    /\ LiveOrders(l, intents, open) = g[Len(intents)]
\* There is such a run, and it ends in LiveOrders.
LEMMA LiveRunExists ==
    ASSUME NEW st, NEW mark, NEW l \in LiveLocals(st, mark), NEW intents \in Seq(Intents),
           NEW open \in [1 .. Len(intents) -> BOOLEAN]
    PROVE  \E g \in [0 .. Len(intents) -> LiveLocals(st, mark)] : LiveRun(g, l, intents, open)
<1> DEFINE D == LiveLocals(st, mark)
           n == Len(intents)
           F == [k \in 1 .. n |-> [x \in D |-> LivePlace(x, intents[k], open[k])]]
           Places(g) == g = [k \in 0 .. n |->
                                IF k = 0 THEN l ELSE LivePlace(g[k - 1], intents[k], open[k])]
           placed == CHOOSE g : Places(g)
<1>1. n \in Nat /\ \A k \in 1 .. n : intents[k] \in Intents /\ open[k] \in BOOLEAN
    OBVIOUS
<1>2. \A k \in 1 .. n : \A x \in D : LivePlace(x, intents[k], open[k]) \in D
    BY <1>1, LivePlaceStep
<1>3. F \in [1 .. n -> [D -> D]]
    BY <1>2
<1>4. Unfolds(n, D, l, F)
  <2> HIDE DEF F, n, D
  <2>1. l \in D
      BY DEF D
  <2> QED BY <1>1, <1>3, <2>1, Recursion
<1>5. PICK g \in [0 .. n -> D] : g[0] = l /\ \A k \in 1 .. n : g[k] = F[k][g[k - 1]]
  <2> HIDE DEF F, n, D
  <2> QED BY <1>4 DEF Unfolds
<1>6. \A k \in 1 .. n : g[k] = LivePlace(g[k - 1], intents[k], open[k])
  <2>1. \A k \in 1 .. n : k - 1 \in 0 .. n
      BY <1>1
  <2>2. \A k \in 1 .. n : \A x \in D : F[k][x] = LivePlace(x, intents[k], open[k])
      OBVIOUS
  <2> HIDE DEF F, D
  <2> QED BY <1>5, <2>1, <2>2
<1>7. Places(g)
  <2> HIDE DEF D
  <2>1. \A k \in 0 .. n : k # 0 => k \in 1 .. n
      BY <1>1
  <2> QED BY <1>5, <1>6, <2>1
<1>8. Places(placed)
    BY <1>7
<1>9. LiveOrders(l, intents, open) = placed[n]
    BY DEF LiveOrders
<1> HIDE DEF placed, D
<1>10. placed[0] = l /\ \A k \in 1 .. n : placed[k] = LivePlace(placed[k - 1], intents[k], open[k])
  <2>1. 0 \in 0 .. n /\ \A k \in 1 .. n : k \in 0 .. n /\ k # 0
      BY <1>1
  <2> QED BY <1>8, <2>1
<1> DEFINE Q == {k \in 0 .. n : placed[k] \in D}
<1>11. 0 \in Q
    BY <1>1, <1>10 DEF D
<1>12. ASSUME NEW k \in 0 .. n - 1, k \in Q PROVE k + 1 \in Q
  <2>1. k + 1 \in 1 .. n /\ (k + 1) - 1 = k
      BY <1>1
  <2>2. placed[k + 1] = LivePlace(placed[k], intents[k + 1], open[k + 1])
      BY <1>10, <2>1
  <2> QED BY <1>2, <1>12, <2>1, <2>2
<1>13. 0 .. n \subseteq Q
  <2> HIDE DEF Q, n
  <2> QED BY <1>1, <1>11, <1>12, BoundedInduction
<1>14. placed \in [0 .. n -> D]
  <2>1. placed = [k \in 0 .. n |-> placed[k]]
      BY <1>8
  <2>2. \A k \in 0 .. n : placed[k] \in D
      BY <1>13
  <2> QED BY <2>1, <2>2
<1> QED BY <1>9, <1>10, <1>14 DEF LiveRun, D

\* The orders of a bar keep the backtest's locals well formed.
LEMMA TestOrdersOK ==
    ASSUME NEW st, NEW t \in TestLocals(st), NEW intents \in Seq(Intents)
    PROVE  /\ TestOrders(t, intents) \in TestLocals(st)
           /\ intents = <<>> => TestOrders(t, intents) = t
<1> DEFINE n == Len(intents)
<1>1. PICK g \in [0 .. n -> TestLocals(st)] : TestRun(g, t, intents)
    BY TestRunExists
<1>2. n \in Nat /\ n \in 0 .. n /\ (intents = <<>> => n = 0)
    OBVIOUS
<1> QED BY <1>1, <1>2 DEF TestRun

\* The orders of a bar keep the bot's locals well formed.
LEMMA LiveOrdersOK ==
    ASSUME NEW st, NEW mark, NEW l \in LiveLocals(st, mark), NEW intents \in Seq(Intents),
           NEW open \in [1 .. Len(intents) -> BOOLEAN]
    PROVE  /\ LiveOrders(l, intents, open) \in LiveLocals(st, mark)
           /\ intents = <<>> => LiveOrders(l, intents, open) = l
<1> DEFINE n == Len(intents)
<1>1. PICK g \in [0 .. n -> LiveLocals(st, mark)] : LiveRun(g, l, intents, open)
    BY LiveRunExists
<1>2. n \in Nat /\ n \in 0 .. n /\ (intents = <<>> => n = 0)
    OBVIOUS
<1> QED BY <1>1, <1>2 DEF LiveRun

\* With the same venue and position, and the market open, the orders of a bar
\* leave the two with the same venue and position, and take from the one's cash
\* what they add to the other's outlay.
Agrees(t, l, total) ==
    t.venue = l.venue /\ t.pos = l.pos /\ t.cash + l.cashOut = total
\* One order keeps the two sides in agreement.
LEMMA PlaceAgrees ==
    ASSUME NEW st, NEW mark, NEW t \in TestLocals(st), NEW l \in LiveLocals(st, mark),
           NEW total \in Int, Agrees(t, l, total), NEW intent \in Intents
    PROVE  Agrees(TestPlace(t, intent), LivePlace(l, intent, TRUE), total)
<1> DEFINE a == TestPlace(t, intent)
           b == LivePlace(l, intent, TRUE)
           fill == MarketFill(intent, t.venue.mark)
           notional == Signed(intent.side, intent.qty * fill.price)
<1>1. /\ t.venue.mark \in Int /\ t.cash \in Int /\ l.cashOut \in Int
      /\ t.venue = l.venue /\ t.pos = l.pos /\ t.cash + l.cashOut = total
    BY DEF TestLocals, LiveLocals, Venues, Agrees
<1>2. notional \in Int /\ fill.fee \in Int
    BY <1>1, FillOK DEF FillTypes
<1>3. CASE intent.type = "limit"
  <2>1. TestRests(t, a, intent)
      BY <1>3, TestPlaceStep
  <2>2. LiveRests(l, b, intent)
      BY <1>3, LivePlaceOpen
  <2> HIDE DEF a, b
  <2>3. Agrees(a, b, total)
      BY <1>1, <2>1, <2>2 DEF Agrees, TestRests, LiveRests
  <2> QED BY <2>3 DEF a, b
<1> HIDE DEF notional, fill
<1>4. CASE intent.type # "limit" /\ ~HasMark(t)
  <2>1. a = t
      BY <1>4, TestPlaceStep
  <2>2. ~HasMark(l)
      BY <1>1, <1>4 DEF HasMark
  <2>3. LiveRefused(l, b, intent)
      BY <1>4, <2>2, LivePlaceOpen
  <2> HIDE DEF a, b
  <2>4. Agrees(a, b, total)
      BY <1>1, <2>1, <2>3 DEF Agrees, LiveRefused
  <2> QED BY <2>4 DEF a, b
<1>5. CASE intent.type # "limit" /\ HasMark(t)
  <2>1. /\ a.venue = t.venue /\ a.pos = t.pos + Signed(intent.side, intent.qty)
        /\ a.cash = t.cash - notional - fill.fee
    <3>1. TestFills(t, a, intent)
        BY <1>5, TestPlaceStep
    <3> HIDE DEF a
    <3> QED BY <3>1 DEF TestFills, notional, fill
  <2>2. /\ b.venue = l.venue /\ b.pos = l.pos + Signed(intent.side, intent.qty)
        /\ b.cashOut = l.cashOut + notional + fill.fee
    <3>1. HasMark(l)
        BY <1>1, <1>5 DEF HasMark
    <3>2. LiveFills(l, b, intent)
        BY <1>5, <3>1, LivePlaceOpen
    <3> HIDE DEF b
    <3> QED BY <1>1, <3>2 DEF LiveFills, notional, fill
  <2> HIDE DEF a, b
  <2>3. a.cash + b.cashOut = total
      BY <1>1, <1>2, <2>1, <2>2
  <2>4. Agrees(a, b, total)
      BY <1>1, <2>1, <2>2, <2>3 DEF Agrees
  <2> QED BY <2>4 DEF a, b
<1> QED BY <1>3, <1>4, <1>5

\* So do the orders of a bar.
LEMMA OrdersAgree ==
    ASSUME NEW st, NEW mark, NEW t \in TestLocals(st), NEW l \in LiveLocals(st, mark),
           NEW total \in Int, Agrees(t, l, total), NEW intents \in Seq(Intents),
           NEW open \in [1 .. Len(intents) -> BOOLEAN], \A k \in 1 .. Len(intents) : open[k]
    PROVE  Agrees(TestOrders(t, intents), LiveOrders(l, intents, open), total)
<1> DEFINE n == Len(intents)
<1>1. PICK g \in [0 .. n -> TestLocals(st)] : TestRun(g, t, intents)
    BY TestRunExists
<1>2. PICK h \in [0 .. n -> LiveLocals(st, mark)] : LiveRun(h, l, intents, open)
    BY LiveRunExists
<1> DEFINE Q == {k \in 0 .. n : Agrees(g[k], h[k], total)}
<1>3. n \in Nat /\ \A k \in 1 .. n : intents[k] \in Intents
    OBVIOUS
<1>4. 0 \in Q
    BY <1>1, <1>2, <1>3 DEF TestRun, LiveRun
<1>5. ASSUME NEW k \in 0 .. n - 1, k \in Q PROVE k + 1 \in Q
  <2>1. k + 1 \in 1 .. n /\ (k + 1) - 1 = k /\ k \in 0 .. n /\ k + 1 \in 0 .. n
      BY <1>3
  <2>2. /\ g[k + 1] = TestPlace(g[k], intents[k + 1])
        /\ h[k + 1] = LivePlace(h[k], intents[k + 1], TRUE)
    <3>1. g[k + 1] = TestPlace(g[k], intents[k + 1]) /\ h[k + 1] = LivePlace(h[k], intents[k + 1], open[k + 1])
        BY <1>1, <1>2, <2>1 DEF TestRun, LiveRun
    <3>2. open[k + 1] = TRUE
        BY <2>1
    <3> QED BY <3>1, <3>2
  <2>3. g[k] \in TestLocals(st) /\ h[k] \in LiveLocals(st, mark) /\ intents[k + 1] \in Intents
      BY <1>1, <1>2, <1>3, <2>1
  <2>4. Agrees(g[k], h[k], total)
      BY <1>5
  <2>5. Agrees(g[k + 1], h[k + 1], total)
      BY <2>2, <2>3, <2>4, PlaceAgrees
  <2> QED BY <2>1, <2>5
<1>6. 0 .. n \subseteq Q
  <2> HIDE DEF Q, n
  <2> QED BY <1>3, <1>4, <1>5, BoundedInduction
<1>7. n \in Q
    BY <1>3, <1>6
<1> QED BY <1>1, <1>2, <1>7 DEF TestRun, LiveRun

\* What market orders add to the position, and what is refused of it.
Signs(intents) == [i \in 1 .. Len(intents) |-> Signed(intents[i].side, intents[i].qty)]
\* They are numbers, one per order.
LEMMA SignsOK ==
    ASSUME NEW intents \in Seq(Intents)
    PROVE  Signs(intents) \in Seq(Int) /\ Len(Signs(intents)) = Len(intents)
<1>1. Len(intents) \in Nat /\ \A i \in 1 .. Len(intents) : intents[i] \in Intents
    OBVIOUS
<1>2. \A i \in 1 .. Len(intents) : Signed(intents[i].side, intents[i].qty) \in Int
    BY <1>1 DEF Signed, Intents
<1>3. Signs(intents) \in [1 .. Len(intents) -> Int]
    BY <1>2 DEF Signs
<1> QED BY <1>1, <1>3

\* The orders of a bar change position and refusals by their sum.
LEMMA OrdersNet ==
    ASSUME NEW st, NEW mark, NEW l \in LiveLocals(st, mark), NEW intents \in Seq(Intents),
           \A i \in 1 .. Len(intents) : intents[i].type = "market",
           NEW open \in [1 .. Len(intents) -> BOOLEAN]
    PROVE  LET new == LiveOrders(l, intents, open)
               allOpen == \A k \in 1 .. Len(intents) : open[k]
           IN  /\ new.pos + new.refused = l.pos + l.refused + Total(Signs(intents))
               /\ (allOpen /\ l.venue.mark > 0) => new.refused = l.refused
<1> DEFINE n == Len(intents)
           signs == Signs(intents)
           sums == Sums(signs)
           allOpen == \A k \in 1 .. n : open[k]
<1>1. PICK g \in [0 .. n -> LiveLocals(st, mark)] : LiveRun(g, l, intents, open)
    BY LiveRunExists
<1>2. /\ signs \in Seq(Int) /\ Len(signs) = n /\ n \in Nat
      /\ \A k \in 1 .. n : signs[k] = Signed(intents[k].side, intents[k].qty)
    BY SignsOK DEF Signs
<1>3. /\ sums \in [0 .. n -> Int] /\ sums[0] = 0 /\ Total(signs) = sums[n]
      /\ \A k \in 1 .. n : sums[k] = sums[k - 1] + signs[k]
    BY <1>2, SumsExist
<1> HIDE DEF sums, signs
<1>4. l.pos \in Int /\ l.refused \in Int /\ l.venue.mark \in Int
    BY DEF LiveLocals, Venues
<1> DEFINE Holds(k) == /\ g[k].pos + g[k].refused = l.pos + l.refused + sums[k]
                       /\ g[k].venue.mark = l.venue.mark
                       /\ (allOpen /\ l.venue.mark > 0) => g[k].refused = l.refused
           Q == {k \in 0 .. n : Holds(k)}
<1>5. 0 \in Q
    BY <1>1, <1>2, <1>3, <1>4 DEF LiveRun
<1>6. ASSUME NEW k \in 0 .. n - 1, k \in Q PROVE k + 1 \in Q
  <2> DEFINE signed == Signed(intents[k + 1].side, intents[k + 1].qty)
             old == g[k]
             new == g[k + 1]
  <2>1. k + 1 \in 1 .. n /\ (k + 1) - 1 = k /\ k \in 0 .. n /\ k + 1 \in 0 .. n
      BY <1>2
  <2>2. new = LivePlace(old, intents[k + 1], open[k + 1])
      BY <1>1, <2>1 DEF LiveRun
  <2>3. old \in LiveLocals(st, mark) /\ intents[k + 1] \in Intents /\ intents[k + 1].type # "limit"
      BY <1>1, <2>1
  <2>4. sums[k + 1] = sums[k] + signed /\ sums[k] \in Int /\ signed \in Int
    <3>1. sums[k] \in Int
        BY <1>3, <2>1
    <3>2. signed \in Int
        BY <2>3 DEF Signed, Intents
    <3>3. sums[k + 1] = sums[k] + signs[k + 1] /\ signs[k + 1] = signed
        BY <1>2, <1>3, <2>1
    <3> QED BY <3>1, <3>2, <3>3
  <2>5. /\ old.pos + old.refused = l.pos + l.refused + sums[k]
        /\ old.venue.mark = l.venue.mark
        /\ (allOpen /\ l.venue.mark > 0) => old.refused = l.refused
      BY <1>6
  <2>6. old.pos \in Int /\ old.refused \in Int
      BY <2>3 DEF LiveLocals
  <2>7. /\ new.venue.mark = old.venue.mark
        /\ \/ ~(allOpen /\ old.venue.mark > 0) /\ new.pos = old.pos /\ new.refused = old.refused + signed
           \/ new.pos = old.pos + signed /\ new.refused = old.refused
    <3>1. CASE open[k + 1]
      <4>1. new = LivePlace(old, intents[k + 1], TRUE)
          BY <2>1, <2>2, <3>1
      <4>2. \/ LiveRefused(old, new, intents[k + 1]) /\ ~HasMark(old)
            \/ LiveFills(old, new, intents[k + 1])
        <5> DEFINE intent == intents[k + 1]
        <5> HIDE DEF old, new, intent, allOpen
        <5>1. LET placed == LivePlace(old, intent, TRUE)
              IN  /\ (intent.type # "limit" /\ ~HasMark(old)) => LiveRefused(old, placed, intent)
                  /\ (intent.type # "limit" /\ HasMark(old)) => LiveFills(old, placed, intent)
            BY <2>3, LivePlaceOpen DEF intent
        <5> QED BY <2>3, <4>1, <5>1 DEF intent
      <4> HIDE DEF old, new
      <4>3. ~HasMark(old) => ~(old.venue.mark > 0)
          BY <1>4, <2>5 DEF HasMark
      <4>4. CASE LiveRefused(old, new, intents[k + 1]) /\ ~HasMark(old)
          BY <4>3, <4>4 DEF LiveRefused, signed
      <4>5. CASE LiveFills(old, new, intents[k + 1])
          BY <4>5 DEF LiveFills, signed
      <4> QED BY <4>2, <4>4, <4>5
    <3>2. CASE ~open[k + 1]
      <4>1. new = LivePlace(old, intents[k + 1], FALSE)
          BY <2>1, <2>2, <3>2
      <4>2. LiveRefused(old, new, intents[k + 1])
        <5> DEFINE intent == intents[k + 1]
        <5> HIDE DEF old, new, intent, allOpen
        <5>1. LiveRefused(old, LivePlace(old, intent, FALSE), intent)
            BY <2>3, LivePlaceShut DEF intent
        <5> QED BY <4>1, <5>1 DEF intent
      <4>3. ~allOpen
          BY <2>1, <3>2
      <4> HIDE DEF old, new, allOpen
      <4> QED BY <4>2, <4>3 DEF LiveRefused, signed
    <3> QED BY <3>1, <3>2
  <2> HIDE DEF old, new, signed
  <2>8. new.pos + new.refused = l.pos + l.refused + sums[k + 1]
    <3>1. new.pos + new.refused = old.pos + old.refused + signed
        BY <2>4, <2>6, <2>7
    <3> QED BY <1>4, <2>4, <2>5, <3>1 DEF signed
  <2>9. (allOpen /\ l.venue.mark > 0) => new.refused = l.refused
      BY <2>5, <2>7
  <2>10. new.venue.mark = l.venue.mark
      BY <2>5, <2>7
  <2> QED BY <2>1, <2>8, <2>9, <2>10 DEF new
<1>7. 0 .. n \subseteq Q
  <2> HIDE DEF Q, n
  <2> QED BY <1>2, <1>5, <1>6, BoundedInduction
<1>8. n \in Q
    BY <1>2, <1>7
<1> QED BY <1>1, <1>3, <1>8 DEF LiveRun, signs

-----------------------------------------------------------------------------
(* Sequences of which some members are kept.                               *)

\* The members of S among the first of a sequence.
Keeps(s, S) ==
    CHOOSE kept : kept = [k \in 0 .. Len(s) |->
                             IF k = 0 THEN <<>>
                             ELSE IF s[k] \in S THEN Append(kept[k - 1], s[k]) ELSE kept[k - 1]]
\* It is the sequence the model's Kept computes.
LEMMA KeepsExist ==
    ASSUME NEW U, NEW s \in Seq(U), NEW S
    PROVE  /\ Keeps(s, S) \in [0 .. Len(s) -> Seq(U)]
           /\ Keeps(s, S)[0] = <<>>
           /\ \A k \in 1 .. Len(s) :
                 Keeps(s, S)[k] = IF s[k] \in S THEN Append(Keeps(s, S)[k - 1], s[k])
                                                ELSE Keeps(s, S)[k - 1]
           /\ Kept(s, S) = Keeps(s, S)[Len(s)]
<1> DEFINE D == Seq(U)
           n == Len(s)
           next(x, k) == IF s[k] \in S THEN Append(x, s[k]) ELSE x
           F == [k \in 1 .. n |-> [x \in D |-> next(x, k)]]
           IsKeeps(g) == g = [k \in 0 .. n |-> IF k = 0 THEN <<>> ELSE next(g[k - 1], k)]
           kept == Keeps(s, S)
<1>1. n \in Nat /\ \A k \in 1 .. n : s[k] \in U
    OBVIOUS
<1>2. \A k \in 1 .. n : \A x \in D : next(x, k) \in D
  <2>1. ASSUME NEW k \in 1 .. n, NEW x \in D PROVE next(x, k) \in D
    <3>1. Append(x, s[k]) \in D
        BY <1>1
    <3> QED BY <3>1
  <2> QED BY <2>1
<1> HIDE DEF next, D
<1>3. F \in [1 .. n -> [D -> D]]
    BY <1>2
<1>4. Unfolds(n, D, <<>>, F)
  <2> HIDE DEF F, n
  <2>1. <<>> \in D
      BY DEF D
  <2> QED BY <1>1, <1>3, <2>1, Recursion
<1>5. PICK g \in [0 .. n -> D] : g[0] = <<>> /\ \A k \in 1 .. n : g[k] = F[k][g[k - 1]]
  <2> HIDE DEF F, n
  <2> QED BY <1>4 DEF Unfolds
<1>6. \A k \in 1 .. n : g[k] = next(g[k - 1], k)
  <2>1. \A k \in 1 .. n : k - 1 \in 0 .. n
      BY <1>1
  <2>2. \A k \in 1 .. n : \A x \in D : F[k][x] = next(x, k)
      OBVIOUS
  <2> HIDE DEF F
  <2> QED BY <1>5, <2>1, <2>2
<1>7. IsKeeps(g)
  <2>1. \A k \in 0 .. n : k # 0 => k \in 1 .. n
      BY <1>1
  <2> QED BY <1>5, <1>6, <2>1
<1>8. IsKeeps(kept)
    BY <1>7 DEF Keeps, next
<1>9. Kept(s, S) = kept[n]
    BY DEF Kept, Keeps
<1> HIDE DEF kept
<1>10. kept[0] = <<>> /\ \A k \in 1 .. n : kept[k] = next(kept[k - 1], k)
  <2>1. 0 \in 0 .. n /\ \A k \in 1 .. n : k \in 0 .. n /\ k # 0
      BY <1>1
  <2> QED BY <1>8, <2>1
<1> DEFINE Q == {k \in 0 .. n : kept[k] \in D}
<1>11. 0 \in Q
  <2>1. <<>> \in D
      BY DEF D
  <2> QED BY <1>1, <1>10, <2>1
<1>12. ASSUME NEW k \in 0 .. n - 1, k \in Q PROVE k + 1 \in Q
  <2>1. k + 1 \in 1 .. n /\ (k + 1) - 1 = k
      BY <1>1
  <2>2. kept[k + 1] = next(kept[k], k + 1)
      BY <1>10, <2>1
  <2> QED BY <1>2, <1>12, <2>1, <2>2
<1>13. 0 .. n \subseteq Q
  <2> HIDE DEF Q, n
  <2> QED BY <1>1, <1>11, <1>12, BoundedInduction
<1>14. kept \in [0 .. n -> D]
  <2>1. kept = [k \in 0 .. n |-> kept[k]]
      BY <1>8
  <2>2. \A k \in 0 .. n : kept[k] \in D
      BY <1>13
  <2> QED BY <2>1, <2>2
<1> QED BY <1>9, <1>10, <1>14 DEF kept, D, next

\* Of one member more, that one is kept or not.
LEMMA KeptAppend ==
    ASSUME NEW U, NEW s \in Seq(U), NEW S, NEW T, NEW x \in U,
           \A k \in 1 .. Len(s) : s[k] \in S <=> s[k] \in T
    PROVE  /\ Kept(s, S) \in Seq(U) /\ Len(Kept(s, S)) <= Len(s)
           /\ Kept(<<>>, S) = <<>>
           /\ Kept(Append(s, x), T) = IF x \in T THEN Append(Kept(s, S), x) ELSE Kept(s, S)
<1> DEFINE t == Append(s, x)
           n == Len(s)
           a == Keeps(s, S)
           b == Keeps(t, T)
<1>1. /\ t \in Seq(U) /\ Len(t) = n + 1 /\ n \in Nat /\ t[n + 1] = x
      /\ \A k \in 1 .. n : t[k] = s[k]
    OBVIOUS
<1>2. /\ a \in [0 .. n -> Seq(U)] /\ a[0] = <<>> /\ Kept(s, S) = a[n]
      /\ \A k \in 1 .. n : a[k] = IF s[k] \in S THEN Append(a[k - 1], s[k]) ELSE a[k - 1]
    BY KeepsExist
<1> HIDE DEF t
<1>3. /\ b \in [0 .. Len(t) -> Seq(U)] /\ b[0] = <<>> /\ Kept(t, T) = b[Len(t)]
      /\ \A k \in 1 .. Len(t) : b[k] = IF t[k] \in T THEN Append(b[k - 1], t[k]) ELSE b[k - 1]
    BY <1>1, KeepsExist
<1> HIDE DEF a, b
<1> DEFINE Q == {k \in 0 .. n : a[k] = b[k] /\ Len(a[k]) <= k}
<1>4. 0 \in Q
    BY <1>1, <1>2, <1>3
<1>5. ASSUME NEW k \in 0 .. n - 1, k \in Q PROVE k + 1 \in Q
  <2>1. k + 1 \in 1 .. n /\ (k + 1) - 1 = k /\ k + 1 \in 1 .. Len(t) /\ k \in 0 .. n
      BY <1>1
  <2>2. /\ a[k + 1] = IF s[k + 1] \in S THEN Append(a[k], s[k + 1]) ELSE a[k]
        /\ b[k + 1] = IF t[k + 1] \in T THEN Append(b[k], t[k + 1]) ELSE b[k]
      BY <1>2, <1>3, <2>1
  <2>3. t[k + 1] = s[k + 1] /\ (s[k + 1] \in S <=> s[k + 1] \in T) /\ a[k] = b[k]
      BY <1>1, <1>5, <2>1
  <2>4. a[k + 1] = b[k + 1]
      BY <2>2, <2>3
  <2>5. a[k] \in Seq(U) /\ Len(a[k]) <= k /\ s[k + 1] \in U
      BY <1>2, <1>5, <2>1
  <2>6. Len(Append(a[k], s[k + 1])) = Len(a[k]) + 1 /\ Len(a[k]) \in Nat
      BY <2>5
  <2>7. Len(a[k + 1]) <= k + 1
      BY <2>2, <2>5, <2>6
  <2> QED BY <2>1, <2>4, <2>7
<1>6. 0 .. n \subseteq Q
  <2> HIDE DEF Q, n
  <2> QED BY <1>1, <1>4, <1>5, BoundedInduction
<1>7. n \in Q
    BY <1>1, <1>6
<1>8. Kept(s, S) \in Seq(U)
    BY <1>1, <1>2
<1>9. Kept(t, T) = IF x \in T THEN Append(Kept(s, S), x) ELSE Kept(s, S)
  <2>1. n + 1 \in 1 .. Len(t) /\ (n + 1) - 1 = n
      BY <1>1
  <2>2. b[n + 1] = IF t[n + 1] \in T THEN Append(b[n], t[n + 1]) ELSE b[n]
      BY <1>3, <2>1
  <2> QED BY <1>1, <1>2, <1>3, <1>7, <2>2
<1>10. Kept(<<>>, S) = <<>>
  <2>1. <<>> \in Seq(U) /\ Len(<<>>) = 0
      OBVIOUS
  <2> QED BY <2>1, KeepsExist
<1> QED BY <1>2, <1>7, <1>8, <1>9, <1>10 DEF t

\* The orders left resting are orders.
LEMMA UnmatchedOK ==
    ASSUME NEW orders \in Seq(Intents), NEW mark
    PROVE  Unmatched(orders, mark) \in Seq(Intents)
<1> DEFINE S == {o \in ToSet(orders) : ~Crossed(o, mark)}
           n == Len(orders)
<1>1. Kept(orders, S) = Keeps(orders, S)[n] /\ Keeps(orders, S) \in [0 .. n -> Seq(Intents)]
    BY KeepsExist
<1>2. n \in 0 .. n
    OBVIOUS
<1> QED BY <1>1, <1>2 DEF Unmatched

\* The closes of the bars a strategy looks at.
LEMMA PositiveAppend ==
    ASSUME NEW bars \in Seq(Bars), NEW bar \in Bars
    PROVE  /\ Positive(bars) \in Seq(Bars)
           /\ Positive(<<>>) = <<>>
           /\ Positive(Append(bars, bar)) = IF bar.close > 0 THEN Append(Positive(bars), bar)
                                                             ELSE Positive(bars)
<1> DEFINE S == {b \in ToSet(bars) : b.close > 0}
           T == {b \in ToSet(Append(bars, bar)) : b.close > 0}
           N == {b \in ToSet(<<>>) : b.close > 0}
<1>1. /\ \A k \in 1 .. Len(bars) : bars[k] \in ToSet(bars) /\ bars[k] \in ToSet(Append(bars, bar))
      /\ bar \in ToSet(Append(bars, bar))
  <2> DEFINE more == Append(bars, bar)
  <2>1. /\ DOMAIN more = 1 .. Len(bars) + 1 /\ DOMAIN bars = 1 .. Len(bars) /\ Len(bars) \in Nat
        /\ more[Len(bars) + 1] = bar /\ \A k \in 1 .. Len(bars) : more[k] = bars[k]
      OBVIOUS
  <2> HIDE DEF more
  <2>2. \A k \in 1 .. Len(bars) : k \in DOMAIN bars /\ k \in DOMAIN more
      BY <2>1
  <2>3. Len(bars) + 1 \in DOMAIN more
      BY <2>1
  <2>4. bar \in ToSet(more)
      BY <2>1, <2>3 DEF ToSet
  <2>5. ASSUME NEW k \in 1 .. Len(bars) PROVE bars[k] \in ToSet(bars) /\ bars[k] \in ToSet(more)
      BY <2>1, <2>2 DEF ToSet
  <2> QED BY <2>4, <2>5 DEF more
<1>2. \A k \in 1 .. Len(bars) : bars[k] \in S <=> bars[k] \in T
    BY <1>1
<1>3. bar \in T <=> bar.close > 0
    BY <1>1
<1> HIDE DEF S, T, N
<1>4. /\ Kept(bars, S) \in Seq(Bars)
      /\ Kept(Append(bars, bar), T) = IF bar \in T THEN Append(Kept(bars, S), bar) ELSE Kept(bars, S)
    BY <1>2, KeptAppend
<1>5. Kept(<<>>, N) = <<>>
  <2> DEFINE e == <<>>
  <2>1. e \in Seq(Bars) /\ Len(e) = 0
      OBVIOUS
  <2>2. ASSUME NEW b \in Seq(Bars) PROVE Keeps(b, N)[0] = <<>> /\ Kept(b, N) = Keeps(b, N)[Len(b)]
      BY KeepsExist
  <2> HIDE DEF e
  <2>3. Kept(e, N) = <<>>
      BY <2>1, <2>2
  <2> QED BY <2>3 DEF e
<1> QED BY <1>3, <1>4, <1>5 DEF Positive, S, T, N

-----------------------------------------------------------------------------
(* The state and its steps.                                                *)

\* The two sides before the first bar.
StartOfTest == [st |-> FreshState(cfg), venue |-> EmptyVenue, cash |-> StartingCash, pos |-> 0]
StartOfLive == [st |-> FreshState(cfg), venue |-> EmptyVenue,
                pos |-> 0, cashOut |-> 0, mark |-> NoPrice, refused |-> 0]

\* The input, and what either side keeps of it.
InputsOK ==
    /\ sc \in Scenarios /\ hist \in Seq(Bars)
    /\ \A i, j \in DOMAIN hist : i < j => hist[i].ts < hist[j].ts
    /\ due \in Nat /\ \A i \in DOMAIN hist : hist[i].ts < due
TestOK ==
    /\ StateOK(cfg, test.st) /\ test \in TestLocals(test.st)
    /\ curve \in Seq(Int) /\ acts \in Seq(Seq(Intents)) /\ fires \in Seq(SUBSET RuleIds(cfg))
    /\ Len(curve) = Len(hist) /\ Len(acts) = Len(hist) /\ Len(fires) = Len(hist)
    /\ hist = <<>> => test = StartOfTest
LiveOK ==
    /\ StateOK(cfg, live.st) /\ live \in LiveLocals(live.st, live.mark) /\ live.mark \in Nat
    /\ phase \in {"off", "running", "idle", "tripped"} /\ joined \in Nat
    /\ seen \in Seq(Nat) /\ Len(seen) <= Len(hist)
    /\ \A i \in DOMAIN seen : seen[i] \in DOMAIN hist
    /\ phase = "off" => live = StartOfLive /\ seen = <<>>
    /\ (phase = "idle" => sc.class = "equity")
BaseInv == InputsOK /\ TestOK /\ LiveOK

\* The state of a new bot is well formed.
LEMMA FreshOK ==
    ASSUME NEW p, ValidParams(p)
    PROVE  StateOK(p, FreshState(p))
<1>1. (IF p.kind = "rules" THEN DOMAIN p.rules ELSE {}) = RuleIds(p)
    BY DEF RuleIds
<1>2. [i \in RuleIds(p) |-> NoTime] \in [RuleIds(p) -> Int]
    BY DEF NoTime
<1>3. FreshState(p) = [last |-> NoTime, prev |-> NoPrice, lots |-> <<>>, closes |-> <<>>,
                       above |-> {}, inPosition |-> FALSE, held |-> 0, truth |-> {},
                       fired |-> [i \in RuleIds(p) |-> NoTime], values |-> <<>>]
    BY <1>1 DEF FreshState
<1> QED BY <1>2, <1>3 DEF StateOK, NoTime, NoPrice

\* So is a venue after a new mark.
LEMMA VenueOK ==
    ASSUME NEW venue \in Venues, NEW price \in Int
    PROVE  UpdateMark(venue, price).venue \in Venues /\ UpdateMark(venue, price).venue.mark = price
<1>1. venue.resting \in Seq(Intents)
    BY DEF Venues
<1>2. Unmatched(venue.resting, price) \in Seq(Intents)
    BY <1>1, UnmatchedOK
<1>3. UpdateMark(venue, price).venue = [mark |-> price, resting |-> Unmatched(venue.resting, price)]
    BY DEF UpdateMark
<1> QED BY <1>2, <1>3 DEF Venues

\* A bar comes.
Step(st, bar) == OnBar(cfg, st, bar)
BarComes(bar) ==
    /\ hist' = Append(hist, bar) /\ sc' = sc
    /\ bar.ts = due /\ due' \in Nat /\ due < due'
    /\ TestBar(bar)
    /\ \/ phase \in {"off", "tripped"} /\ UNCHANGED liveVars
       \/ phase \in {"running", "idle"} /\ LiveBar(bar, due')
Joins ==
    /\ phase = "off" /\ phase' = "running" /\ joined' = Len(hist)
    /\ UNCHANGED <<sc, hist, due, testVars, live, seen>>

\* A step is one of these or changes nothing.
LEMMA NextCases ==
    ASSUME BaseInv, [Next]_vars
    PROVE  (UNCHANGED vars) \/ Joins \/ \E bar \in Bars : BarComes(bar)
<1>1. CASE Join
    BY <1>1 DEF Join, Joins
<1>2. CASE Done
    BY <1>2 DEF Done
<1>3. ASSUME NEW close \in sc.prices, NEW gap \in sc.gaps, NewBar(close, gap)
      PROVE  \E bar \in Bars : BarComes(bar)
  <2> DEFINE bar == [ts |-> due, close |-> close]
  <2>1. due \in Nat /\ close \in Nat /\ gap \in Nat \ {0}
      BY ReplayAssumption DEF BaseInv, InputsOK
  <2>2. bar \in Bars /\ bar.ts = due
      BY <2>1 DEF Bars
  <2>3. phase \notin {"off", "tripped"} => phase \in {"running", "idle"}
      BY DEF BaseInv, LiveOK
  <2>4. /\ hist' = Append(hist, bar) /\ sc' = sc /\ due' = due + gap /\ TestBar(bar)
        /\ IF phase \in {"off", "tripped"} THEN UNCHANGED liveVars ELSE LiveBar(bar, due + gap)
      BY <1>3 DEF NewBar
  <2>5. due' \in Nat /\ due < due'
      BY <2>1, <2>4
  <2> HIDE DEF bar
  <2>6. \/ phase \in {"off", "tripped"} /\ UNCHANGED liveVars
        \/ phase \in {"running", "idle"} /\ LiveBar(bar, due')
      BY <2>3, <2>4
  <2>7. BarComes(bar)
      BY <2>2, <2>4, <2>5, <2>6 DEF BarComes
  <2> QED BY <2>2, <2>7
<1>4. CASE \E close \in sc.prices, gap \in sc.gaps : NewBar(close, gap)
    BY <1>3, <1>4
<1>5. CASE UNCHANGED vars
    BY <1>5
<1> QED BY <1>1, <1>2, <1>4, <1>5 DEF Next

FiredAt(st, ts) == {i \in DOMAIN st.fired : st.fired[i] = ts}
MarkedTest(bar) ==
    [test EXCEPT !.st = Step(test.st, bar).st, !.venue = UpdateMark(@, bar.close).venue]
\* What a bar does to the backtest.
LEMMA TestBarStep ==
    ASSUME BaseInv, NEW bar \in Bars, TestBar(bar)
    PROVE  LET step == Step(test.st, bar)
           IN  /\ StepOK(cfg, step)
               /\ test' = TestOrders(MarkedTest(bar), step.intents)
               /\ MarkedTest(bar) \in TestLocals(step.st)
               /\ MarkedTest(bar).venue = UpdateMark(test.venue, bar.close).venue
               /\ MarkedTest(bar).pos = test.pos /\ MarkedTest(bar).cash = test.cash
               /\ test' \in TestLocals(step.st) /\ test'.st = step.st
               /\ curve' = Append(curve, test'.cash + test'.pos * bar.close)
               /\ acts' = Append(acts, step.intents)
               /\ fires' = Append(fires, FiredAt(step.st, bar.ts))
<1> DEFINE step == Step(test.st, bar)
           start == MarkedTest(bar)
<1>1. StepOK(cfg, step)
  <2>1. ValidParams(cfg) /\ StateOK(cfg, test.st)
      BY ReplayAssumption DEF BaseInv, InputsOK, TestOK, cfg
  <2> QED BY <2>1, OnBarStep DEF Step
<1>2. /\ test' = TestOrders(start, step.intents)
      /\ curve' = Append(curve, test'.cash + test'.pos * bar.close)
      /\ acts' = Append(acts, step.intents)
      /\ fires' = Append(fires, FiredAt(step.st, bar.ts))
    BY DEF TestBar, Step, MarkedTest, FiredAt
<1>3. test \in TestLocals(test.st) /\ test.venue \in Venues /\ bar.close \in Int
    BY DEF BaseInv, TestOK, TestLocals, Bars
<1>4. UpdateMark(test.venue, bar.close).venue \in Venues
    BY <1>3, VenueOK
<1>5. /\ start \in TestLocals(step.st) /\ start.venue = UpdateMark(test.venue, bar.close).venue
      /\ start.pos = test.pos /\ start.cash = test.cash
    BY <1>3, <1>4 DEF MarkedTest, TestLocals
<1>6. step.intents \in Seq(Intents)
    BY <1>1 DEF StepOK
<1> HIDE DEF step, start
<1>7. test' \in TestLocals(step.st)
    BY <1>2, <1>5, <1>6, TestOrdersOK
<1>8. test'.st = step.st
    BY <1>7 DEF TestLocals
<1> QED BY <1>1, <1>2, <1>5, <1>7, <1>8 DEF step, start

MarkedLive(bar) ==
    [live EXCEPT !.st = Step(live.st, bar).st, !.venue = UpdateMark(live.venue, bar.close).venue,
                 !.mark = bar.close]
TakenDown(l) == [l EXCEPT !.venue.resting = <<>>]
BotIdles(bar, now) ==
    /\ ~IsOpen(sc.class, now)
    /\ phase' = "idle" /\ UNCHANGED <<joined, seen>>
    /\ live' = [live EXCEPT !.venue = UpdateMark(live.venue, bar.close).venue]
OrdersOf(bar) == Step(live.st, bar).intents
Traded(bar, now, early) ==
    LiveOrders(MarkedLive(bar), OrdersOf(bar), Doors(Len(OrdersOf(bar)), now, early))
Trips(bar, now, early) ==
    Tripped(Traded(bar, now, early), Clock(now, early, Len(OrdersOf(bar)) + 1), bar.ts)
BotTrades(bar, now, early) ==
    /\ IsOpen(sc.class, now)
    /\ seen' = Append(seen, Len(hist) + 1) /\ joined' = joined
    /\ \/ /\ ~Trips(bar, now, early)
          /\ phase' = "running" /\ live' = Traded(bar, now, early)
       \/ /\ Trips(bar, now, early)
          /\ phase' = "tripped" /\ live' = TakenDown(Traded(bar, now, early))
\* A bar that reaches the bot is one of the two.
LEMMA LiveBarCases ==
    ASSUME BaseInv, NEW bar \in Bars, NEW now, LiveBar(bar, now)
    PROVE  BotIdles(bar, now) \/ \E early : BotTrades(bar, now, early)
<1>1. CASE ~IsOpen(sc.class, now)
    BY <1>1 DEF LiveBar, BotIdles
<1>2. CASE IsOpen(sc.class, now)
  <2>1. PICK early :
            LET final == Traded(bar, now, early)
                trips == Trips(bar, now, early)
            IN  /\ phase' = IF trips THEN "tripped" ELSE "running"
                /\ live' = IF trips THEN [final EXCEPT !.venue.resting = <<>>] ELSE final
                /\ seen' = Append(seen, Len(hist) + 1)
                /\ UNCHANGED joined
      BY <1>2 DEF LiveBar, Traded, Trips, OrdersOf, Step, MarkedLive
  <2>2. BotTrades(bar, now, early)
      BY <1>2, <2>1 DEF BotTrades, TakenDown
  <2> QED BY <2>2
<1> QED BY <1>1, <1>2

\* The market's hours at the orders of a bar are known, and a crypto market is
\* always open.
LEMMA DoorsOK ==
    ASSUME NEW n \in Nat, NEW now, NEW early
    PROVE  /\ Doors(n, now, early) \in [1 .. n -> BOOLEAN]
           /\ sc.class = "crypto" => \A k \in 1 .. n : Doors(n, now, early)[k]
<1>1. \A t : IsOpen(sc.class, t) \in BOOLEAN /\ (sc.class = "crypto" => IsOpen(sc.class, t))
    BY DEF IsOpen
<1> QED BY <1>1, Zenon DEF Doors

\* The bot before the orders of a bar are placed.
LEMMA MarkedLiveOK ==
    ASSUME BaseInv, NEW bar \in Bars
    PROVE  LET step == Step(live.st, bar)
           IN  /\ StepOK(cfg, step) /\ step.intents \in Seq(Intents)
               /\ MarkedLive(bar) \in LiveLocals(step.st, bar.close)
               /\ MarkedLive(bar).venue = UpdateMark(live.venue, bar.close).venue
               /\ MarkedLive(bar).venue.mark = bar.close
               /\ MarkedLive(bar).pos = live.pos /\ MarkedLive(bar).cashOut = live.cashOut
               /\ MarkedLive(bar).refused = live.refused
<1> DEFINE step == Step(live.st, bar)
           start == MarkedLive(bar)
<1>1. StepOK(cfg, step)
  <2>1. ValidParams(cfg) /\ StateOK(cfg, live.st)
      BY ReplayAssumption DEF BaseInv, InputsOK, LiveOK, cfg
  <2> QED BY <2>1, OnBarStep DEF Step
<1>2. live \in LiveLocals(live.st, live.mark) /\ live.venue \in Venues /\ bar.close \in Int
    BY DEF BaseInv, LiveOK, LiveLocals, Bars
<1>3. /\ UpdateMark(live.venue, bar.close).venue \in Venues
      /\ UpdateMark(live.venue, bar.close).venue.mark = bar.close
    BY <1>2, VenueOK
<1>4. /\ start \in LiveLocals(step.st, bar.close)
      /\ start.venue = UpdateMark(live.venue, bar.close).venue
      /\ start.pos = live.pos /\ start.cashOut = live.cashOut /\ start.refused = live.refused
    BY <1>2, <1>3 DEF MarkedLive, LiveLocals
<1>5. step.intents \in Seq(Intents)
    BY <1>1 DEF StepOK
<1> QED BY <1>1, <1>3, <1>4, <1>5

\* Taking the resting orders down changes nothing else.
LEMMA TakenDownOK ==
    ASSUME NEW st, NEW mark, NEW l \in LiveLocals(st, mark)
    PROVE  /\ TakenDown(l) \in LiveLocals(st, mark)
           /\ TakenDown(l).st = l.st /\ TakenDown(l).pos = l.pos
           /\ TakenDown(l).cashOut = l.cashOut /\ TakenDown(l).mark = l.mark
           /\ TakenDown(l).refused = l.refused
<1>1. [l.venue EXCEPT !.resting = <<>>] \in Venues
  <2>1. l.venue \in Venues /\ <<>> \in Seq(Intents)
      BY DEF LiveLocals
  <2> QED BY <2>1 DEF Venues
<1>2. TakenDown(l) = [l EXCEPT !.venue = [l.venue EXCEPT !.resting = <<>>]]
    BY DEF TakenDown
<1> QED BY <1>1, <1>2 DEF LiveLocals

\* A bar the bot trades on.
LEMMA BotTradesStep ==
    ASSUME BaseInv, NEW bar \in Bars, NEW now, NEW early, BotTrades(bar, now, early)
    PROVE  LET step == Step(live.st, bar)
               final == Traded(bar, now, early)
           IN  /\ StepOK(cfg, step) /\ final \in LiveLocals(step.st, bar.close)
               /\ live' \in LiveLocals(step.st, bar.close)
               /\ live'.st = step.st /\ live'.mark = bar.close
               /\ live'.pos = final.pos /\ live'.cashOut = final.cashOut
               /\ live'.refused = final.refused
               /\ phase' = "running" => live' = final
<1> DEFINE step == Step(live.st, bar)
           open == Doors(Len(step.intents), now, early)
           final == Traded(bar, now, early)
<1>1. /\ StepOK(cfg, step) /\ step.intents \in Seq(Intents)
      /\ MarkedLive(bar) \in LiveLocals(step.st, bar.close)
    BY MarkedLiveOK
<1>2. open \in [1 .. Len(step.intents) -> BOOLEAN]
  <2>1. Len(step.intents) \in Nat
      BY <1>1
  <2> HIDE DEF step
  <2> QED BY <2>1, DoorsOK
<1>3. \/ phase' = "running" /\ live' = final
      \/ phase' = "tripped" /\ live' = TakenDown(final)
    BY DEF BotTrades
<1>4. final \in LiveLocals(step.st, bar.close)
  <2>1. final = LiveOrders(MarkedLive(bar), step.intents, open)
      BY DEF Traded, OrdersOf
  <2> HIDE DEF step, open, final
  <2> QED BY <1>1, <1>2, <2>1, LiveOrdersOK
<1> HIDE DEF step, open
<1> HIDE DEF final
<1>5. CASE phase' = "running" /\ live' = final
  <2>1. final.st = step.st /\ final.mark = bar.close
      BY <1>4 DEF LiveLocals
  <2> QED BY <1>1, <1>4, <1>5, <2>1 DEF step, final, open
<1>6. CASE phase' = "tripped" /\ live' = TakenDown(final)
  <2>1. final.st = step.st /\ final.mark = bar.close
      BY <1>4 DEF LiveLocals
  <2>2. /\ live' \in LiveLocals(step.st, bar.close)
        /\ live'.st = final.st /\ live'.pos = final.pos /\ live'.mark = final.mark
        /\ live'.cashOut = final.cashOut /\ live'.refused = final.refused
      BY <1>4, <1>6, TakenDownOK
  <2> QED BY <1>1, <1>4, <1>6, <2>1, <2>2 DEF step, final, open
<1> QED BY <1>3, <1>5, <1>6

-----------------------------------------------------------------------------
(* The base of every invariant.                                            *)

\* It holds at the start.
LEMMA BaseInit ==
    ASSUME Init
    PROVE  BaseInv
<1>1. /\ sc \in Scenarios /\ hist = <<>> /\ curve = <<>> /\ acts = <<>> /\ fires = <<>>
      /\ test = StartOfTest /\ live = StartOfLive
      /\ phase = "off" /\ joined = 0 /\ seen = <<>> /\ due \in sc.starts
    BY DEF Init, StartOfTest, StartOfLive
<1>2. ValidParams(cfg)
    BY <1>1, ReplayAssumption DEF cfg
<1>3. StateOK(cfg, FreshState(cfg))
    BY <1>2, FreshOK
<1>4. EmptyVenue \in Venues
    BY DEF EmptyVenue, Venues, NoMark
<1>5. test.st = FreshState(cfg) /\ test \in TestLocals(test.st)
  <2>1. StartingCash \in Int
      BY ReplayAssumption
  <2> QED BY <1>1, <1>4, <2>1 DEF StartOfTest, TestLocals
<1>6. live.st = FreshState(cfg) /\ live \in LiveLocals(live.st, live.mark) /\ live.mark \in Nat
    BY <1>1, <1>4 DEF StartOfLive, LiveLocals, NoPrice
<1>7. InputsOK
    BY <1>1, ReplayAssumption DEF InputsOK
<1>8. TestOK
  <2>1. curve \in Seq(Int) /\ acts \in Seq(Seq(Intents)) /\ fires \in Seq(SUBSET RuleIds(cfg))
      BY <1>1
  <2>2. Len(curve) = Len(hist) /\ Len(acts) = Len(hist) /\ Len(fires) = Len(hist)
      BY <1>1
  <2> QED BY <1>1, <1>3, <1>5, <2>1, <2>2 DEF TestOK
<1>9. LiveOK
  <2>1. seen \in Seq(Nat) /\ Len(seen) <= Len(hist) /\ \A i \in DOMAIN seen : seen[i] \in DOMAIN hist
      BY <1>1
  <2> QED BY <1>1, <1>3, <1>6, <2>1 DEF LiveOK
<1> QED BY <1>7, <1>8, <1>9 DEF BaseInv

\* A sequence and one more.
LEMMA OneMore ==
    ASSUME NEW S, NEW s \in Seq(S), NEW x \in S
    PROVE  /\ Append(s, x) \in Seq(S) /\ Len(Append(s, x)) = Len(s) + 1
           /\ DOMAIN Append(s, x) = 1 .. Len(s) + 1 /\ DOMAIN s = 1 .. Len(s) /\ Len(s) \in Nat
           /\ Append(s, x)[Len(s) + 1] = x /\ Last(Append(s, x)) = x /\ Append(s, x) # <<>>
           /\ \A i \in 1 .. Len(s) : Append(s, x)[i] = s[i]
<1>1. /\ Append(s, x) \in Seq(S) /\ Len(Append(s, x)) = Len(s) + 1 /\ Len(s) \in Nat
      /\ Append(s, x)[Len(s) + 1] = x /\ \A i \in 1 .. Len(s) : Append(s, x)[i] = s[i]
    OBVIOUS
<1>2. DOMAIN Append(s, x) = 1 .. Len(s) + 1 /\ DOMAIN s = 1 .. Len(s)
    BY <1>1
<1>3. Append(s, x) # <<>>
    BY <1>1
<1>4. Last(Append(s, x)) = x
    BY <1>1 DEF Last
<1> QED BY <1>1, <1>2, <1>3, <1>4

\* The bars stay in order.
LEMMA InputsStep ==
    ASSUME BaseInv, NEW bar \in Bars, BarComes(bar)
    PROVE  InputsOK'
<1> DEFINE n == Len(hist)
<1>1. /\ sc \in Scenarios /\ hist \in Seq(Bars) /\ hist' = Append(hist, bar) /\ sc' = sc
      /\ bar.ts = due /\ due \in Nat /\ due' \in Nat /\ due < due'
      /\ \A i \in DOMAIN hist : hist[i].ts < due
      /\ \A i, j \in DOMAIN hist : i < j => hist[i].ts < hist[j].ts
    BY DEF BaseInv, InputsOK, BarComes
<1>2. /\ hist' \in Seq(Bars) /\ DOMAIN hist' = 1 .. n + 1 /\ DOMAIN hist = 1 .. n /\ n \in Nat
      /\ hist'[n + 1] = bar /\ \A i \in 1 .. n : hist'[i] = hist[i]
    BY <1>1, OneMore
<1>3. \A i \in 1 .. n : hist[i].ts \in Nat
  <2>1. \A i \in 1 .. n : hist[i] \in Bars
      BY <1>1, <1>2
  <2> QED BY <2>1 DEF Bars
<1>4. \A i \in 1 .. n : hist[i].ts < bar.ts
    BY <1>1, <1>2
<1>5. ASSUME NEW i \in 1 .. n + 1, NEW j \in 1 .. n + 1, i < j PROVE hist'[i].ts < hist'[j].ts
  <2>1. i \in 1 .. n
      BY <1>2, <1>5
  <2>2. CASE j = n + 1
      BY <1>2, <1>4, <2>1, <2>2
  <2>3. CASE j # n + 1
    <3>1. j \in 1 .. n
        BY <1>2, <2>3
    <3> QED BY <1>1, <1>2, <1>5, <2>1, <3>1
  <2> QED BY <2>2, <2>3
<1>6. ASSUME NEW i \in 1 .. n + 1 PROVE hist'[i].ts < due'
  <2>1. i = n + 1 \/ i \in 1 .. n
      BY <1>2
  <2> QED BY <1>1, <1>2, <1>3, <2>1
<1> QED BY <1>1, <1>2, <1>5, <1>6 DEF InputsOK

\* The backtest stays well formed.
LEMMA TestStepOK ==
    ASSUME BaseInv, NEW bar \in Bars, BarComes(bar)
    PROVE  TestOK'
<1> DEFINE step == Step(test.st, bar)
           fired == FiredAt(step.st, bar.ts)
           value == test'.cash + test'.pos * bar.close
<1>1. sc' = sc /\ cfg' = cfg /\ hist' = Append(hist, bar) /\ TestBar(bar) /\ hist \in Seq(Bars)
    BY DEF BarComes, BaseInv, InputsOK, cfg
<1>2. /\ StepOK(cfg, step) /\ test' \in TestLocals(step.st) /\ test'.st = step.st
      /\ curve' = Append(curve, value) /\ acts' = Append(acts, step.intents)
      /\ fires' = Append(fires, fired)
    BY <1>1, TestBarStep
<1>3. /\ curve \in Seq(Int) /\ acts \in Seq(Seq(Intents)) /\ fires \in Seq(SUBSET RuleIds(cfg))
      /\ Len(curve) = Len(hist) /\ Len(acts) = Len(hist) /\ Len(fires) = Len(hist)
    BY DEF BaseInv, TestOK
<1>4. StateOK(cfg, step.st) /\ step.intents \in Seq(Intents)
    BY <1>2 DEF StepOK
<1> HIDE DEF step
<1>5. fired \in SUBSET RuleIds(cfg)
    BY <1>4 DEF FiredAt, StateOK
<1>6. value \in Int
  <2>1. test'.cash \in Int /\ test'.pos \in Int /\ bar.close \in Int
      BY <1>2 DEF TestLocals, Bars
  <2> QED BY <2>1
<1> HIDE DEF value, fired
<1>7. /\ curve' \in Seq(Int) /\ Len(curve') = Len(curve) + 1
      /\ acts' \in Seq(Seq(Intents)) /\ Len(acts') = Len(acts) + 1
      /\ fires' \in Seq(SUBSET RuleIds(cfg)) /\ Len(fires') = Len(fires) + 1
    BY <1>2, <1>3, <1>4, <1>5, <1>6, OneMore
<1>8. Len(hist') = Len(hist) + 1 /\ hist' # <<>>
    BY <1>1, OneMore
<1> QED BY <1>1, <1>2, <1>3, <1>4, <1>7, <1>8 DEF TestOK

\* The bot stays well formed.
LEMMA LiveStepOK ==
    ASSUME BaseInv, NEW bar \in Bars, BarComes(bar)
    PROVE  LiveOK'
<1>1. /\ sc' = sc /\ cfg' = cfg /\ hist' = Append(hist, bar) /\ hist \in Seq(Bars)
      /\ bar.close \in Nat
    BY DEF BarComes, BaseInv, InputsOK, cfg, Bars
<1>2. /\ Len(hist') = Len(hist) + 1 /\ Len(hist) \in Nat
      /\ DOMAIN hist' = 1 .. Len(hist) + 1 /\ DOMAIN hist = 1 .. Len(hist)
    BY <1>1, OneMore
<1>3. LiveOK
    BY DEF BaseInv
<1>4. CASE UNCHANGED liveVars
    BY <1>1, <1>2, <1>3, <1>4 DEF LiveOK, liveVars, StartOfLive
<1>5. ASSUME NEW now, BotIdles(bar, now) PROVE LiveOK'
  <2> DEFINE venue == UpdateMark(live.venue, bar.close).venue
  <2>1. live' = [live EXCEPT !.venue = venue] /\ phase' = "idle" /\ joined' = joined /\ seen' = seen
      BY <1>5 DEF BotIdles
  <2>2. venue \in Venues
      BY <1>1, <1>3, VenueOK DEF LiveOK, LiveLocals
  <2>3. /\ live' \in LiveLocals(live.st, live.mark) /\ live'.st = live.st
        /\ live'.mark = live.mark
      BY <1>3, <2>1, <2>2 DEF LiveOK, LiveLocals
  <2>4. sc.class = "equity"
      BY <1>5 DEF BotIdles, IsOpen
  <2> QED BY <1>1, <1>2, <1>3, <2>1, <2>3, <2>4 DEF LiveOK
<1>6. ASSUME NEW now, NEW early, BotTrades(bar, now, early) PROVE LiveOK'
  <2> DEFINE step == Step(live.st, bar)
  <2>1. /\ StepOK(cfg, step) /\ live' \in LiveLocals(step.st, bar.close)
        /\ live'.st = step.st /\ live'.mark = bar.close
      BY <1>6, BotTradesStep
  <2>2. StateOK(cfg, step.st)
      BY <2>1 DEF StepOK
  <2> HIDE DEF step
  <2>3. /\ phase' \in {"running", "tripped"} /\ seen' = Append(seen, Len(hist) + 1)
        /\ joined' = joined
      BY <1>6 DEF BotTrades
  <2>4. /\ seen' \in Seq(Nat) /\ Len(seen') = Len(seen) + 1 /\ Len(seen) \in Nat
        /\ DOMAIN seen' = 1 .. Len(seen) + 1 /\ DOMAIN seen = 1 .. Len(seen)
        /\ seen'[Len(seen) + 1] = Len(hist) + 1 /\ \A i \in 1 .. Len(seen) : seen'[i] = seen[i]
    <3>1. seen \in Seq(Nat) /\ Len(hist) + 1 \in Nat
        BY <1>2, <1>3 DEF LiveOK
    <3> QED BY <2>3, <3>1, OneMore
  <2>5. ASSUME NEW i \in DOMAIN seen' PROVE seen'[i] \in DOMAIN hist'
    <3>1. i = Len(seen) + 1 \/ i \in 1 .. Len(seen)
        BY <2>4
    <3> QED BY <1>2, <1>3, <2>4, <3>1 DEF LiveOK
  <2>6. Len(seen') <= Len(hist')
      BY <1>2, <1>3, <2>4 DEF LiveOK
  <2>7. joined' \in Nat
      BY <1>3, <2>3 DEF LiveOK
  <2> QED BY <1>1, <2>1, <2>2, <2>3, <2>4, <2>5, <2>6, <2>7 DEF LiveOK
<1>7. UNCHANGED liveVars \/ LiveBar(bar, due')
    BY DEF BarComes
<1>8. ASSUME LiveBar(bar, due') PROVE LiveOK'
  <2>1. BotIdles(bar, due') \/ \E early : BotTrades(bar, due', early)
      BY <1>8, LiveBarCases
  <2> QED BY <1>5, <1>6, <2>1
<1> QED BY <1>4, <1>7, <1>8

\* The state is well formed, and what the two sides keep is of the same bars.
THEOREM BaseHolds == Spec => []BaseInv
<1>1. Init => BaseInv
    BY BaseInit
<1>2. BaseInv /\ [Next]_vars => BaseInv'
  <2> SUFFICES ASSUME BaseInv, [Next]_vars PROVE BaseInv'
      OBVIOUS
  <2>1. CASE UNCHANGED vars
      BY <2>1 DEF vars, testVars, liveVars, BaseInv, InputsOK, TestOK, LiveOK, cfg,
                  StartOfTest, StartOfLive
  <2>2. CASE Joins
    <3>1. /\ phase = "off" /\ phase' = "running" /\ joined' = Len(hist) /\ sc' = sc /\ hist' = hist
          /\ due' = due /\ test' = test /\ curve' = curve /\ acts' = acts /\ fires' = fires
          /\ live' = live /\ seen' = seen /\ cfg' = cfg
        BY <2>2 DEF Joins, testVars, cfg
    <3>2. Len(hist) \in Nat
        BY DEF BaseInv, InputsOK
    <3>3. InputsOK'
        BY <3>1 DEF BaseInv, InputsOK
    <3>4. TestOK'
        BY <3>1 DEF BaseInv, TestOK, StartOfTest
    <3>5. LiveOK'
        BY <3>1, <3>2 DEF BaseInv, LiveOK
    <3> QED BY <3>3, <3>4, <3>5 DEF BaseInv
  <2>3. ASSUME NEW bar \in Bars, BarComes(bar) PROVE BaseInv'
      BY <2>3, InputsStep, TestStepOK, LiveStepOK DEF BaseInv
  <2> QED BY <2>1, <2>2, <2>3, NextCases
<1> QED BY <1>1, <1>2, PTL DEF Spec

-----------------------------------------------------------------------------
(* Parity of the backtest and the bot.                                     *)

\* While a bot that was started with the stream trades on an open market, it
\* has the state, venue and position of the backtest, has spent what the
\* backtest has spent, and values it at the same mark.
SameAsTest ==
    /\ Len(seen) = Len(hist) /\ live.st = test.st
    /\ Agrees(test, live, StartingCash)
    /\ hist # <<>> => live.mark = Last(hist).close
ParityInv ==
    /\ BaseInv /\ EquityMatchesLedger
    /\ (sc.class = "crypto" /\ phase = "running" /\ joined = 0) => SameAsTest

\* A bar keeps the two sides in parity.
LEMMA ParityStep ==
    ASSUME ParityInv, NEW bar \in Bars, BarComes(bar), BaseInv', sc.class = "crypto",
           phase' # "off", joined' = 0
    PROVE  /\ seen' # <<>> => curve'[Len(seen')] = StartingCash + Pnl(live')
           /\ phase' = "running" => SameAsTest'
<1>1. BaseInv /\ hist' = Append(hist, bar) /\ sc' = sc /\ TestBar(bar) /\ hist \in Seq(Bars)
    BY DEF ParityInv, BarComes, BaseInv, InputsOK
<1>2. /\ Len(hist') = Len(hist) + 1 /\ hist' # <<>> /\ Last(hist') = bar /\ Len(hist) \in Nat
    BY <1>1, OneMore
<1> DEFINE value == test'.cash + test'.pos * bar.close
<1>3. /\ curve' = Append(curve, value) /\ curve \in Seq(Int) /\ Len(curve) = Len(hist)
      /\ value \in Int
  <2>1. /\ curve' = Append(curve, value) /\ test' \in TestLocals(Step(test.st, bar).st)
      BY <1>1, TestBarStep
  <2>2. test'.cash \in Int /\ test'.pos \in Int /\ bar.close \in Int
      BY <2>1 DEF TestLocals, Bars
  <2>3. value \in Int
      BY <2>2
  <2>4. curve \in Seq(Int) /\ Len(curve) = Len(hist)
      BY <1>1 DEF BaseInv, TestOK
  <2> QED BY <2>1, <2>3, <2>4
<1> HIDE DEF value
<1>4. /\ Len(curve') = Len(hist) + 1 /\ curve'[Len(hist) + 1] = value
      /\ \A i \in 1 .. Len(hist) : curve'[i] = curve[i]
    BY <1>3, OneMore
<1>5. CASE UNCHANGED liveVars /\ phase \in {"off", "tripped"}
  <2>1. phase' = "tripped" /\ phase = "tripped" /\ seen' = seen /\ live' = live /\ joined = 0
      BY <1>5 DEF liveVars
  <2>2. seen # <<>> => curve[Len(seen)] = StartingCash + Pnl(live)
      BY <2>1 DEF ParityInv, EquityMatchesLedger
  <2>3. seen # <<>> => Len(seen) \in 1 .. Len(hist)
      BY <1>1 DEF BaseInv, LiveOK
  <2> QED BY <1>4, <2>1, <2>2, <2>3
<1>6. ASSUME NEW now, BotIdles(bar, now) PROVE FALSE
    BY <1>6 DEF BotIdles, IsOpen
<1>7. ASSUME NEW now, NEW early, BotTrades(bar, now, early), phase = "running"
      PROVE  curve'[Len(seen')] = StartingCash + Pnl(live') /\ (phase' = "running" => SameAsTest')
  <2> DEFINE step == Step(live.st, bar)
             open == Doors(Len(step.intents), now, early)
             final == Traded(bar, now, early)
  <2>1. seen' = Append(seen, Len(hist) + 1) /\ joined = 0 /\ seen \in Seq(Nat)
      BY <1>1, <1>7 DEF BotTrades, BaseInv, LiveOK
  <2>2. SameAsTest
      BY <1>7, <2>1 DEF ParityInv
  <2>3. Len(seen') = Len(hist) + 1
    <3>1. Len(hist) + 1 \in Nat
        BY <1>2
    <3> QED BY <2>1, <2>2, <3>1, OneMore DEF SameAsTest
  <2>4. /\ live.st = test.st /\ live.venue = test.venue /\ test.pos = live.pos
        /\ test.cash + live.cashOut = StartingCash
      BY <2>2 DEF SameAsTest, Agrees
  <2>5. /\ open \in [1 .. Len(step.intents) -> BOOLEAN]
        /\ \A k \in 1 .. Len(step.intents) : open[k]
    <3>1. Len(step.intents) \in Nat
        BY <1>1, MarkedLiveOK
    <3> HIDE DEF step
    <3> QED BY <3>1, DoorsOK
  <2>6. /\ test' = TestOrders(MarkedTest(bar), step.intents)
        /\ MarkedTest(bar) \in TestLocals(step.st)
        /\ MarkedTest(bar).venue = UpdateMark(live.venue, bar.close).venue
        /\ MarkedTest(bar).pos = live.pos /\ MarkedTest(bar).cash = test.cash
        /\ test'.st = step.st
      BY <1>1, <2>4, TestBarStep
  <2>7. /\ step.intents \in Seq(Intents) /\ MarkedLive(bar) \in LiveLocals(step.st, bar.close)
        /\ MarkedLive(bar).venue = UpdateMark(live.venue, bar.close).venue
        /\ MarkedLive(bar).pos = live.pos /\ MarkedLive(bar).cashOut = live.cashOut
      BY <1>1, MarkedLiveOK
  <2>8. Agrees(MarkedTest(bar), MarkedLive(bar), StartingCash)
      BY <2>4, <2>6, <2>7 DEF Agrees
  <2>9. StartingCash \in Int
      BY ReplayAssumption
  <2>10. /\ live'.st = step.st /\ live'.mark = bar.close /\ live'.pos = final.pos
         /\ live'.cashOut = final.cashOut /\ final \in LiveLocals(step.st, bar.close)
         /\ phase' = "running" => live' = final
      BY <1>1, <1>7, BotTradesStep
  <2>11. final = LiveOrders(MarkedLive(bar), step.intents, open)
      BY DEF Traded, OrdersOf
  <2> HIDE DEF step, open, final
  <2>12. Agrees(test', final, StartingCash)
      BY <2>5, <2>6, <2>7, <2>8, <2>9, <2>11, OrdersAgree
  <2>13. test'.pos = live'.pos /\ test'.cash + live'.cashOut = StartingCash
      BY <2>10, <2>12 DEF Agrees
  <2>14. /\ live'.pos \in Int /\ live'.cashOut \in Int /\ bar.close \in Int
         /\ test'.cash \in Int
    <3>1. test'.cash \in Int
        BY DEF BaseInv, TestOK, TestLocals
    <3>2. live'.pos \in Int /\ live'.cashOut \in Int
        BY DEF BaseInv, LiveOK, LiveLocals
    <3> QED BY <3>1, <3>2 DEF Bars
  <2>15. value = StartingCash + Pnl(live')
    <3> DEFINE worth == live'.pos * bar.close
    <3>1. worth \in Int
        BY <2>14
    <3>2. value = test'.cash + worth /\ Pnl(live') = worth - live'.cashOut
        BY <2>10, <2>13 DEF value, Pnl
    <3> HIDE DEF worth
    <3> QED BY <2>9, <2>13, <2>14, <3>1, <3>2
  <2>16. phase' = "running" => SameAsTest'
      BY <1>2, <2>3, <2>6, <2>10, <2>12 DEF SameAsTest
  <2> QED BY <1>4, <2>3, <2>15, <2>16
<1>8. ASSUME LiveBar(bar, due'), phase \in {"running", "idle"}
      PROVE  curve'[Len(seen')] = StartingCash + Pnl(live') /\ (phase' = "running" => SameAsTest')
  <2>1. phase = "running"
      BY <1>1, <1>8 DEF BaseInv, LiveOK
  <2>2. BotIdles(bar, due') \/ \E early : BotTrades(bar, due', early)
      BY <1>1, <1>8, LiveBarCases
  <2> QED BY <1>6, <1>7, <2>1, <2>2
<1> QED BY <1>5, <1>8 DEF BarComes

\* The equity of the backtest is the starting cash and the profit and loss of
\* the bot's ledger, whatever the strategy, the stream and the fees: what
\* run_backtest reports is what the paper bot would have earned.
THEOREM EquityMatches == Spec => []EquityMatchesLedger
<1>1. Init => ParityInv
  <2> SUFFICES ASSUME Init PROVE ParityInv
      OBVIOUS
  <2>1. phase = "off"
      BY DEF Init
  <2> QED BY <2>1, BaseInit DEF ParityInv, EquityMatchesLedger
<1>2. ParityInv /\ BaseInv' /\ [Next]_vars => ParityInv'
  <2> SUFFICES ASSUME ParityInv, BaseInv', [Next]_vars PROVE ParityInv'
      OBVIOUS
  <2>1. BaseInv
      BY DEF ParityInv
  <2>2. CASE UNCHANGED vars
      BY <2>2 DEF vars, testVars, liveVars, ParityInv, BaseInv, InputsOK, TestOK, LiveOK, cfg,
                  StartOfTest, StartOfLive, EquityMatchesLedger, SameAsTest
  <2>3. CASE Joins
    <3>1. /\ phase = "off" /\ phase' = "running" /\ joined' = Len(hist) /\ sc' = sc /\ hist' = hist
          /\ test' = test /\ live' = live /\ seen' = seen
        BY <2>3 DEF Joins, testVars
    <3>2. live = StartOfLive /\ seen = <<>> /\ (hist = <<>> => test = StartOfTest)
        BY <2>1, <3>1 DEF BaseInv, TestOK, LiveOK
    <3>3. joined' = 0 => hist = <<>>
      <4>1. hist \in Seq(Bars)
          BY <2>1 DEF BaseInv, InputsOK
      <4>2. \A s \in Seq(Bars) : Len(s) = 0 => s = <<>>
          OBVIOUS
      <4> QED BY <3>1, <4>1, <4>2
    <3>4. EquityMatchesLedger'
        BY <3>1, <3>2 DEF EquityMatchesLedger
    <3>5. ASSUME hist = <<>> PROVE SameAsTest
      <4>1. Agrees(test, live, StartingCash)
          BY <3>2, <3>5, ReplayAssumption DEF Agrees, StartOfTest, StartOfLive
      <4>2. live.st = test.st /\ Len(seen) = Len(hist)
          BY <3>2, <3>5 DEF StartOfTest, StartOfLive
      <4> QED BY <3>5, <4>1, <4>2 DEF SameAsTest
    <3>6. joined' = 0 => SameAsTest'
        BY <3>1, <3>3, <3>5 DEF SameAsTest
    <3> QED BY <3>4, <3>6 DEF ParityInv
  <2>4. ASSUME NEW bar \in Bars, BarComes(bar) PROVE ParityInv'
    <3>1. sc' = sc
        BY <2>4 DEF BarComes
    <3>2. (sc.class = "crypto" /\ phase' # "off" /\ joined' = 0) =>
              /\ seen' # <<>> => curve'[Len(seen')] = StartingCash + Pnl(live')
              /\ phase' = "running" => SameAsTest'
        BY <2>4, ParityStep
    <3>3. SameAsTest' => (test'.pos = live'.pos /\ test'.venue = live'.venue)
        BY DEF SameAsTest, Agrees
    <3>4. EquityMatchesLedger'
        BY <3>1, <3>2, <3>3 DEF EquityMatchesLedger
    <3> QED BY <3>1, <3>2, <3>4 DEF ParityInv
  <2> QED BY <2>1, <2>2, <2>3, <2>4, NextCases
<1>3. ParityInv => EquityMatchesLedger
    BY DEF ParityInv
<1> QED BY <1>1, <1>2, <1>3, BaseHolds, PTL DEF Spec

-----------------------------------------------------------------------------
(* The inventory of a strategy and the ledger of its bot.                  *)

\* The running sums of two sequences that start the same are the same.
LEMMA SumsAgree ==
    ASSUME NEW s \in Seq(Int), NEW t \in Seq(Int), NEW m \in Nat, m <= Len(s), m <= Len(t),
           \A i \in 1 .. m : s[i] = t[i]
    PROVE  Sums(s)[m] = Sums(t)[m]
<1> DEFINE Q == {k \in 0 .. m : Sums(s)[k] = Sums(t)[k]}
<1>1. /\ Sums(s)[0] = 0 /\ \A k \in 1 .. Len(s) : Sums(s)[k] = Sums(s)[k - 1] + s[k]
      /\ Sums(t)[0] = 0 /\ \A k \in 1 .. Len(t) : Sums(t)[k] = Sums(t)[k - 1] + t[k]
      /\ Len(s) \in Nat /\ Len(t) \in Nat
    BY SumsExist
<1>2. 0 \in Q
    BY <1>1
<1>3. ASSUME NEW k \in 0 .. m - 1, k \in Q PROVE k + 1 \in Q
  <2>1. k + 1 \in 1 .. Len(s) /\ k + 1 \in 1 .. Len(t) /\ k + 1 \in 1 .. m /\ (k + 1) - 1 = k
      BY <1>1
  <2> QED BY <1>1, <1>3, <2>1
<1>4. 0 .. m \subseteq Q
  <2> HIDE DEF Q
  <2> QED BY <1>2, <1>3, BoundedInduction
<1> QED BY <1>4

\* The sum of the first members.
LEMMA TotalPrefix ==
    ASSUME NEW s \in Seq(Int), NEW m \in 0 .. Len(s)
    PROVE  SubSeq(s, 1, m) \in Seq(Int) /\ Total(SubSeq(s, 1, m)) = Sums(s)[m]
<1> DEFINE t == SubSeq(s, 1, m)
<1>1. m \in Nat /\ m <= Len(s)
    OBVIOUS
<1>2. t \in Seq(Int) /\ Len(t) = m /\ \A i \in 1 .. m : t[i] = s[i]
    OBVIOUS
<1> HIDE DEF t
<1>3. Sums(s)[m] = Sums(t)[m]
    BY <1>1, <1>2, SumsAgree
<1>4. Total(t) = Sums(t)[m]
    BY <1>2, SumsExist
<1> QED BY <1>2, <1>3, <1>4 DEF t

\* The sum of two sequences.
LEMMA TotalConcat ==
    ASSUME NEW s \in Seq(Int), NEW t \in Seq(Int)
    PROVE  Total(s \o t) = Total(s) + Total(t)
<1> DEFINE c == s \o t
           m == Len(s)
           n == Len(t)
           Q == {k \in 0 .. n : Sums(c)[m + k] = Sums(s)[m] + Sums(t)[k]}
<1>1. /\ c \in Seq(Int) /\ Len(c) = m + n /\ m \in Nat /\ n \in Nat
      /\ \A i \in 1 .. m : c[i] = s[i]
      /\ \A i \in 1 .. n : c[m + i] = t[i]
    OBVIOUS
<1> HIDE DEF c
<1>2. /\ \A k \in 1 .. m + n : Sums(c)[k] = Sums(c)[k - 1] + c[k]
      /\ Total(c) = Sums(c)[m + n]
    BY <1>1, SumsExist
<1>3. /\ Sums(t)[0] = 0 /\ Sums(t) \in [0 .. n -> Int] /\ Total(t) = Sums(t)[n]
      /\ \A k \in 1 .. n : Sums(t)[k] = Sums(t)[k - 1] + t[k]
    BY SumsExist
<1>4. Sums(s) \in [0 .. m -> Int] /\ Total(s) = Sums(s)[m]
    BY SumsExist
<1>5. Sums(c)[m] = Sums(s)[m]
  <2>1. m <= Len(c) /\ m <= Len(s) /\ m \in Nat
      BY <1>1
  <2>2. \A i \in 1 .. m : c[i] = s[i]
      BY <1>1
  <2> HIDE DEF m
  <2> QED BY <1>1, <2>1, <2>2, SumsAgree
<1> HIDE DEF m, n
<1>6. Sums(s)[m] \in Int
    BY <1>1, <1>4
<1>7. 0 \in Q
    BY <1>1, <1>3, <1>5, <1>6
<1>8. ASSUME NEW k \in 0 .. n - 1, k \in Q PROVE k + 1 \in Q
  <2>1. k + 1 \in 1 .. n /\ (k + 1) - 1 = k /\ k \in 0 .. n
      BY <1>1
  <2>2. m + k + 1 \in 1 .. m + n /\ m + k + 1 - 1 = m + k /\ m + (k + 1) = m + k + 1
      BY <1>1
  <2>3. Sums(c)[m + k + 1] = Sums(c)[m + k] + c[m + k + 1]
    <3> DEFINE j == m + k + 1
    <3>1. j \in 1 .. m + n /\ j - 1 = m + k
        BY <1>1
    <3> HIDE DEF j
    <3>2. Sums(c)[j] = Sums(c)[j - 1] + c[j]
        BY <1>2, <3>1
    <3>3. Sums(c)[j] = Sums(c)[m + k] + c[j]
        BY <3>1, <3>2
    <3> QED BY <3>3 DEF j
  <2>4. c[m + k + 1] = t[k + 1] /\ t[k + 1] \in Int
      BY <1>1, <2>1, <2>2 DEF n
  <2>5. Sums(t)[k + 1] = Sums(t)[k] + t[k + 1] /\ Sums(t)[k] \in Int
      BY <1>3, <2>1
  <2>6. Sums(c)[m + k] = Sums(s)[m] + Sums(t)[k]
      BY <1>8
  <2>7. Sums(c)[m + (k + 1)] = Sums(s)[m] + Sums(t)[k + 1]
      BY <1>6, <2>2, <2>3, <2>4, <2>5, <2>6
  <2> QED BY <2>1, <2>7
<1>9. 0 .. n \subseteq Q
  <2> HIDE DEF Q
  <2> QED BY <1>1, <1>7, <1>8, BoundedInduction
<1>10. n \in Q
    BY <1>1, <1>9
<1> QED BY <1>2, <1>3, <1>4, <1>10 DEF c

\* A sum of natural numbers is one.
LEMMA TotalNat ==
    ASSUME NEW s \in Seq(Nat)
    PROVE  s \in Seq(Int) /\ Total(s) \in Nat
<1> DEFINE n == Len(s)
           Q == {k \in 0 .. n : Sums(s)[k] \in Nat}
<1>1. s \in Seq(Int) /\ n \in Nat /\ \A k \in 1 .. n : s[k] \in Nat
    OBVIOUS
<1>2. /\ Sums(s)[0] = 0 /\ Total(s) = Sums(s)[n]
      /\ \A k \in 1 .. n : Sums(s)[k] = Sums(s)[k - 1] + s[k]
    BY <1>1, SumsExist
<1> HIDE DEF n
<1>3. 0 \in Q
    BY <1>1, <1>2
<1>4. ASSUME NEW k \in 0 .. n - 1, k \in Q PROVE k + 1 \in Q
  <2>1. k + 1 \in 1 .. n /\ (k + 1) - 1 = k
      BY <1>1
  <2>2. Sums(s)[k + 1] = Sums(s)[k] + s[k + 1]
      BY <1>2, <2>1
  <2>3. Sums(s)[k] \in Nat /\ s[k + 1] \in Nat /\ k + 1 \in 0 .. n
      BY <1>1, <1>4, <2>1
  <2>4. Sums(s)[k + 1] \in Nat
      BY <2>2, <2>3
  <2> QED BY <2>3, <2>4
<1>5. 0 .. n \subseteq Q
  <2> HIDE DEF Q
  <2> QED BY <1>1, <1>3, <1>4, BoundedInduction
<1> QED BY <1>1, <1>2, <1>5

\* Selling the last n of some lots takes off what they add up to.
LEMMA TotalSold ==
    ASSUME NEW lots \in Seq(Nat), NEW n \in 0 .. Len(lots), NEW sold \in Seq(Int),
           Len(sold) = n, \A i \in 1 .. n : sold[i] = -lots[Len(lots) + 1 - i]
    PROVE  Total(SubSeq(lots, 1, Len(lots) - n)) = Total(lots) + Total(sold)
<1> DEFINE m == Len(lots)
           Q == {k \in 0 .. n : Sums(sold)[k] = Sums(lots)[m - k] - Sums(lots)[m]}
<1>1. lots \in Seq(Int) /\ m \in Nat /\ n \in Nat /\ n <= m /\ \A k \in 1 .. m : lots[k] \in Nat
    BY TotalNat
<1>2. /\ Sums(lots) \in [0 .. m -> Int] /\ Total(lots) = Sums(lots)[m]
      /\ \A k \in 1 .. m : Sums(lots)[k] = Sums(lots)[k - 1] + lots[k]
    BY <1>1, SumsExist
<1>3. /\ Sums(sold)[0] = 0 /\ Total(sold) = Sums(sold)[n]
      /\ \A k \in 1 .. n : Sums(sold)[k] = Sums(sold)[k - 1] + sold[k]
    BY SumsExist
<1>4. Total(SubSeq(lots, 1, m - n)) = Sums(lots)[m - n]
  <2>1. m - n \in 0 .. Len(lots)
      BY <1>1
  <2> QED BY <1>1, <2>1, TotalPrefix
<1> HIDE DEF m
<1>5. Sums(lots)[m] \in Int
    BY <1>1, <1>2
<1>6. 0 \in Q
    BY <1>1, <1>3, <1>5
<1>7. ASSUME NEW k \in 0 .. n - 1, k \in Q PROVE k + 1 \in Q
  <2>1. k + 1 \in 1 .. n /\ (k + 1) - 1 = k
      BY <1>1
  <2>2. m - k \in 1 .. m /\ (m - k) - 1 = m - (k + 1) /\ m + 1 - (k + 1) = m - k
          /\ m - k \in 0 .. m /\ m - (k + 1) \in 0 .. m
      BY <1>1, <2>1
  <2>3. sold[k + 1] = -lots[m - k]
      BY <2>1, <2>2 DEF m
  <2>4. Sums(lots)[m - k] = Sums(lots)[m - (k + 1)] + lots[m - k]
      BY <1>2, <2>2
  <2>5. Sums(sold)[k + 1] = Sums(sold)[k] + sold[k + 1]
      BY <1>3, <2>1
  <2>6. Sums(lots)[m - k] \in Int /\ Sums(lots)[m - (k + 1)] \in Int /\ lots[m - k] \in Int
    <3>1. Sums(lots)[m - k] \in Int /\ Sums(lots)[m - (k + 1)] \in Int
        BY <1>2, <2>2
    <3>2. lots[m - k] \in Int
        BY <1>1, <2>2
    <3> QED BY <3>1, <3>2
  <2>7. Sums(sold)[k] = Sums(lots)[m - k] - Sums(lots)[m]
      BY <1>7
  <2>8. Sums(sold)[k + 1] = Sums(lots)[m - (k + 1)] - Sums(lots)[m]
    <3> DEFINE a == Sums(lots)[m - k]
               b == Sums(lots)[m - (k + 1)]
               c == lots[m - k]
               d == Sums(sold)[k]
               e == Sums(sold)[k + 1]
               f == sold[k + 1]
               g == Sums(lots)[m]
    <3>1. f = -c /\ a = b + c /\ e = d + f /\ d = a - g
        BY <2>3, <2>4, <2>5, <2>7
    <3>2. a \in Int /\ b \in Int /\ c \in Int /\ g \in Int
        BY <1>5, <2>6
    <3> HIDE DEF a, b, c, d, e, f, g
    <3>3. e = b - g
        BY <3>1, <3>2
    <3> QED BY <3>3 DEF b, e, g
  <2> QED BY <2>1, <2>8
<1>8. 0 .. n \subseteq Q
  <2> HIDE DEF Q
  <2> QED BY <1>1, <1>6, <1>7, BoundedInduction
<1>9. Sums(sold)[n] = Sums(lots)[m - n] - Sums(lots)[m]
    BY <1>1, <1>8
<1>10. m - n \in 0 .. m
    BY <1>1
<1>11. Sums(lots)[m - n] \in Int
    BY <1>2, <1>10
<1> QED BY <1>2, <1>3, <1>4, <1>5, <1>9, <1>11 DEF m
\* Market buys add what they buy.
LEMMA BuysAdd ==
    ASSUME NEW bought \in Seq(Nat), NEW intents \in Seq(Intents),
           intents = [i \in DOMAIN bought |-> Market("buy", bought[i])]
    PROVE  /\ Signs(intents) = bought /\ \A i \in 1 .. Len(intents) : intents[i].type = "market"
<1>1. DOMAIN bought = 1 .. Len(bought) /\ Len(bought) \in Nat
        /\ DOMAIN intents = 1 .. Len(intents) /\ Len(intents) \in Nat
    OBVIOUS
<1>2. Len(intents) = Len(bought)
    BY <1>1
<1>3. \A i \in 1 .. Len(bought) : /\ intents[i].side = "buy" /\ intents[i].qty = bought[i]
                                  /\ intents[i].type = "market"
    BY <1>1 DEF Market
<1>4. \A i \in 1 .. Len(bought) : Signs(intents)[i] = bought[i]
    BY <1>2, <1>3 DEF Signs, Signed
<1>5. Signs(intents) \in Seq(Int) /\ Len(Signs(intents)) = Len(bought)
    BY <1>2, SignsOK
<1>6. Signs(intents) = bought
    BY <1>4, <1>5, TotalNat, SeqEqual
<1> QED BY <1>2, <1>3, <1>6

\* Market sells of the last lots take what they sell.
LEMMA SellsTake ==
    ASSUME NEW lots \in Seq(Nat), NEW n \in 0 .. Len(lots), NEW intents \in Seq(Intents),
           intents = [i \in 1 .. n |-> Market("sell", lots[Len(lots) + 1 - i])]
    PROVE  /\ Total(SubSeq(lots, 1, Len(lots) - n)) = Total(lots) + Total(Signs(intents))
           /\ \A i \in 1 .. Len(intents) : intents[i].type = "market"
<1>1. n \in Nat /\ DOMAIN intents = 1 .. Len(intents) /\ Len(intents) \in Nat
    OBVIOUS
<1>2. Len(intents) = n
    BY <1>1
<1>3. \A i \in 1 .. n : /\ intents[i].side = "sell" /\ intents[i].qty = lots[Len(lots) + 1 - i]
                        /\ intents[i].type = "market"
    BY DEF Market
<1>4. \A i \in 1 .. n : Signs(intents)[i] = -lots[Len(lots) + 1 - i]
    BY <1>2, <1>3 DEF Signs, Signed
<1>5. Signs(intents) \in Seq(Int) /\ Len(Signs(intents)) = n
    BY <1>2, SignsOK
<1>6. Total(SubSeq(lots, 1, Len(lots) - n)) = Total(lots) + Total(Signs(intents))
  <2> HIDE DEF Signs
  <2> QED BY <1>4, <1>5, TotalSold
<1> QED BY <1>2, <1>3, <1>6

\* No orders add nothing.
LEMMA NothingAdds == Signs(<<>>) = <<>> /\ Total(<<>>) = 0
<1>1. <<>> \in Seq(Intents) /\ <<>> \in Seq(Int) /\ Len(<<>>) = 0
    OBVIOUS
<1>2. Signs(<<>>) \in Seq(Int) /\ Len(Signs(<<>>)) = 0
    BY <1>1, SignsOK
<1>3. \A s \in Seq(Int) : Len(s) = 0 => s = <<>>
    OBVIOUS
<1>4. Total(<<>>) = 0
    BY <1>1, SumsExist
<1> QED BY <1>2, <1>3, <1>4

\* One order adds its own quantity.
LEMMA OneAdds ==
    ASSUME NEW q \in Nat, NEW side \in {"buy", "sell"}
    PROVE  Total(Signs(<<Market(side, q)>>)) = Signed(side, q)
<1> DEFINE intents == <<Market(side, q)>>
           signed == Signed(side, q)
<1>1. signed \in Int /\ <<>> \in Seq(Int)
    BY DEF Signed
<1>2. intents[1].side = side /\ intents[1].qty = q /\ Len(intents) = 1 /\ 1 .. 1 = {1}
    BY DEF Market
<1> HIDE DEF signed, intents
<1>3. Signs(intents) = [i \in 1 .. 1 |-> signed]
    BY <1>2 DEF Signs, signed
<1>4. Append(<<>>, signed) = [i \in 1 .. 1 |-> signed]
    BY <1>1
<1>5. Total(Append(<<>>, signed)) = Total(<<>>) + signed
    BY <1>1, TotalAppend
<1>6. Total(<<>>) = 0
    BY NothingAdds
<1> QED BY <1>1, <1>3, <1>4, <1>5, <1>6 DEF intents, signed

\* What a bar does to what the strategy believes it holds.
Holders == {"ma", "momentum", "grid"}
MarketOnly(intents) == \A i \in 1 .. Len(intents) : intents[i].type = "market"
\* Inventory changes by what the orders of the bar add.
LEMMA InventoryStep ==
    ASSUME ValidParams(cfg), cfg.kind \in Holders, NEW st, StateOK(cfg, st), NEW bar \in Bars
    PROVE  LET step == Step(st, bar)
           IN  /\ MarketOnly(step.intents)
               /\ Inventory(st) \in Nat /\ Inventory(step.st) \in Nat
               /\ Inventory(step.st) = Inventory(st) + Total(Signs(step.intents))
<1> DEFINE step == Step(st, bar)
<1>1. StepOK(cfg, step)
    BY OnBarStep DEF Step
<1>2. StateOK(cfg, step.st) /\ step.intents \in Seq(Intents)
    BY <1>1 DEF StepOK
<1>3. /\ st.lots \in Seq(Nat) /\ step.st.lots \in Seq(Nat) /\ st.held \in Nat /\ step.st.held \in Nat
      /\ st.inPosition \in BOOLEAN /\ step.st.inPosition \in BOOLEAN
      /\ ~st.inPosition => st.held = 0
    BY <1>2 DEF StateOK
<1>4. CASE cfg.kind = "grid"
  <2>1. Inventory(st) = Total(st.lots) /\ Inventory(step.st) = Total(step.st.lots)
      BY <1>4 DEF Inventory
  <2>2. Total(st.lots) \in Nat /\ Total(step.st.lots) \in Nat
      BY <1>3, TotalNat
  <2>3. CASE step.st.lots = st.lots /\ step.intents = <<>>
    <3>1. MarketOnly(step.intents)
      <4>1. Len(<<>>) = 0 /\ 1 .. 0 = {}
          OBVIOUS
      <4> QED BY <2>3, <4>1 DEF MarketOnly
    <3> QED BY <2>1, <2>2, <2>3, <3>1, NothingAdds
  <2>4. CASE GridFalls(cfg, st, step, bar.close)
    <3>1. PICK bought \in Seq(Nat) :
              /\ step.st.lots = st.lots \o bought
              /\ step.intents = [i \in DOMAIN bought |-> Market("buy", bought[i])]
        BY <2>4 DEF GridFalls
    <3> HIDE DEF step
    <3>2. Signs(step.intents) = bought /\ MarketOnly(step.intents)
        BY <1>2, <3>1, BuysAdd DEF MarketOnly
    <3>3. Total(step.st.lots) = Total(st.lots) + Total(bought)
      <4>1. st.lots \in Seq(Int) /\ bought \in Seq(Int)
          BY <1>3, TotalNat
      <4> QED BY <3>1, <4>1, TotalConcat
    <3> QED BY <2>1, <2>2, <3>2, <3>3 DEF step
  <2>5. CASE GridRises(cfg, st, step, bar.close)
    <3>1. PICK n \in 0 .. Len(st.lots) :
              /\ step.st.lots = SubSeq(st.lots, 1, Len(st.lots) - n)
              /\ step.intents = [i \in 1 .. n |-> Market("sell", st.lots[Len(st.lots) + 1 - i])]
        BY <2>5 DEF GridRises
    <3> HIDE DEF step
    <3>2. /\ Total(SubSeq(st.lots, 1, Len(st.lots) - n)) = Total(st.lots) + Total(Signs(step.intents))
          /\ MarketOnly(step.intents)
        BY <1>2, <1>3, <3>1, SellsTake DEF MarketOnly
    <3> QED BY <2>1, <2>2, <3>1, <3>2 DEF step
  <2>6. CASE bar.close = 0
    <3>1. step.st = st /\ step.intents = <<>>
        BY <2>6, OnBarStep DEF Step
    <3> QED BY <2>3, <3>1
  <2>7. CASE bar.close # 0
    <3>1. step = GridBar(cfg, st, bar)
        BY <1>4, <2>7, OnBarKinds DEF Step
    <3>2. \/ GridStarts(st, step) \/ GridFalls(cfg, st, step, bar.close)
          \/ GridRises(cfg, st, step, bar.close)
        BY <1>4, <2>7, <3>1, GridStep
    <3>3. GridStarts(st, step) => step.st.lots = st.lots /\ step.intents = <<>>
        BY DEF GridStarts
    <3> QED BY <2>3, <2>4, <2>5, <3>2, <3>3
  <2> QED BY <2>6, <2>7
<1>5. CASE cfg.kind \in {"ma", "momentum"}
  <2>1. Inventory(st) = st.held /\ Inventory(step.st) = step.st.held
      BY <1>5 DEF Inventory
  <2>2. PositionStep(st, step)
    <3>1. CASE bar.close = 0
      <4>1. step.st = st /\ step.intents = <<>>
          BY <3>1, OnBarStep DEF Step
      <4> QED BY <4>1 DEF PositionStep
    <3>2. CASE bar.close # 0 /\ cfg.kind = "ma"
      <4>1. step = MaBar(cfg, st, bar)
          BY <3>2, OnBarKinds DEF Step
      <4> QED BY <3>2, <4>1, MaStep
    <3>3. CASE bar.close # 0 /\ cfg.kind = "momentum"
      <4>1. step = MomentumBar(cfg, st, bar)
          BY <3>3, OnBarKinds DEF Step
      <4> QED BY <3>3, <4>1, MomentumStep
    <3> QED BY <1>5, <3>1, <3>2, <3>3
  <2> HIDE DEF step
  <2>3. CASE step.intents = <<>> /\ step.st.held = st.held
    <3>1. MarketOnly(step.intents)
      <4>1. Len(<<>>) = 0 /\ 1 .. 0 = {}
          OBVIOUS
      <4> QED BY <2>3, <4>1 DEF MarketOnly
    <3> QED BY <1>3, <2>1, <2>3, <3>1, NothingAdds DEF step
  <2>4. ASSUME NEW q \in Nat, NEW side \in {"buy", "sell"}
        PROVE  MarketOnly(<<Market(side, q)>>) /\ Total(Signs(<<Market(side, q)>>)) = Signed(side, q)
    <3>1. MarketOnly(<<Market(side, q)>>)
        BY DEF MarketOnly, Market
    <3> QED BY <3>1, OneAdds
  <2>5. CASE ~st.inPosition /\ step.intents = <<Market("buy", step.st.held)>>
    <3>1. Signed("buy", step.st.held) = step.st.held
        BY DEF Signed
    <3>2. MarketOnly(step.intents) /\ Total(Signs(step.intents)) = step.st.held
        BY <1>3, <2>4, <2>5, <3>1
    <3> QED BY <1>3, <2>1, <2>5, <3>2 DEF step
  <2>6. CASE step.st.held = 0 /\ step.intents = <<Market("sell", st.held)>>
    <3>1. Signed("sell", st.held) = -st.held
        BY DEF Signed
    <3>2. MarketOnly(step.intents) /\ Total(Signs(step.intents)) = -st.held
        BY <1>3, <2>4, <2>6, <3>1
    <3> QED BY <1>3, <2>1, <2>6, <3>2 DEF step
  <2> QED BY <2>2, <2>3, <2>5, <2>6 DEF PositionStep
<1> QED BY <1>4, <1>5 DEF Holders

\* The strategy's inventory and the bot's ledger differ by the refused orders,
\* whatever the strategy, the stream and the hours.
THEOREM InventoryIsTraded == Spec => []InventoryGap
<1>1. Init => InventoryGap
  <2> SUFFICES ASSUME Init PROVE InventoryGap
      OBVIOUS
  <2>1. live = StartOfLive
      BY DEF Init, StartOfLive
  <2>2. live.pos = 0 /\ live.refused = 0 /\ live.st.held = 0 /\ live.st.lots = <<>>
      BY <2>1 DEF StartOfLive, FreshState
  <2>3. cfg.kind \in Holders => Inventory(live.st) = 0
      BY <2>2, NothingAdds DEF Inventory, Holders
  <2> QED BY <2>2, <2>3 DEF InventoryGap, Holders
<1>2. BaseInv /\ InventoryGap /\ BaseInv' /\ [Next]_vars => InventoryGap'
  <2> SUFFICES ASSUME BaseInv, InventoryGap, BaseInv', [Next]_vars PROVE InventoryGap'
      OBVIOUS
  <2>1. CASE live' = live /\ sc' = sc
      BY <2>1 DEF InventoryGap, Inventory, cfg
  <2>2. ASSUME NEW bar \in Bars, NEW now, BotIdles(bar, now), sc' = sc PROVE InventoryGap'
    <3>1. live' = [live EXCEPT !.venue = UpdateMark(live.venue, bar.close).venue]
        BY <2>2 DEF BotIdles
    <3>2. live'.st = live.st /\ live'.pos = live.pos /\ live'.refused = live.refused
      <4>1. live \in LiveLocals(live.st, live.mark)
          BY DEF BaseInv, LiveOK
      <4> QED BY <3>1, <4>1 DEF LiveLocals
    <3> QED BY <2>2, <3>2 DEF InventoryGap, Inventory, cfg
  <2>3. ASSUME NEW bar \in Bars, NEW now, NEW early, BotTrades(bar, now, early), sc' = sc,
               cfg.kind \in Holders
        PROVE  InventoryGap'
    <3> DEFINE step == Step(live.st, bar)
               open == Doors(Len(step.intents), now, early)
               allOpen == \A k \in 1 .. Len(step.intents) : open[k]
               final == Traded(bar, now, early)
    <3>1. /\ MarkedLive(bar) \in LiveLocals(step.st, bar.close) /\ step.intents \in Seq(Intents)
          /\ MarkedLive(bar).venue.mark = bar.close
          /\ MarkedLive(bar).pos = live.pos /\ MarkedLive(bar).refused = live.refused
        BY MarkedLiveOK
    <3>2. /\ MarketOnly(step.intents) /\ Inventory(live.st) \in Nat /\ Inventory(step.st) \in Nat
          /\ Inventory(step.st) = Inventory(live.st) + Total(Signs(step.intents))
      <4>1. ValidParams(cfg) /\ StateOK(cfg, live.st)
          BY ReplayAssumption DEF BaseInv, InputsOK, LiveOK, cfg
      <4> QED BY <2>3, <4>1, InventoryStep
    <3>3. /\ live'.st = step.st /\ live'.pos = final.pos /\ live'.refused = final.refused
          /\ final \in LiveLocals(step.st, bar.close)
        BY <2>3, BotTradesStep
    <3>4. open \in [1 .. Len(step.intents) -> BOOLEAN] /\ (sc.class = "crypto" => allOpen)
      <4>1. Len(step.intents) \in Nat
          BY <3>1
      <4> HIDE DEF step
      <4> QED BY <4>1, DoorsOK
    <3>5. bar.close = 0 => step.intents = <<>>
      <4>1. ValidParams(cfg) /\ StateOK(cfg, live.st)
          BY ReplayAssumption DEF BaseInv, InputsOK, LiveOK, cfg
      <4> QED BY <4>1, OnBarStep DEF Step
    <3> DEFINE placed == LiveOrders(MarkedLive(bar), step.intents, open)
    <3>15. final = placed
        BY DEF Traded, OrdersOf
    <3> HIDE DEF step, open, final
    <3>6. /\ final.pos + final.refused = live.pos + live.refused + Total(Signs(step.intents))
          /\ (allOpen /\ bar.close > 0) => final.refused = live.refused
        BY <3>1, <3>2, <3>4, <3>15, OrdersNet DEF MarketOnly
    <3>7. bar.close = 0 => final.refused = live.refused
        BY <3>1, <3>4, <3>5, <3>15, LiveOrdersOK
    <3> HIDE DEF allOpen
    <3>8. final.pos \in Int /\ final.refused \in Int /\ bar.close \in Nat
        BY <3>3 DEF LiveLocals, Bars
    <3>9. live.pos \in Int /\ live.refused \in Int
        BY DEF BaseInv, LiveOK, LiveLocals
    <3>10. Inventory(live.st) = live.pos + live.refused /\ (sc.class = "crypto" => live.refused = 0)
        BY <2>3 DEF InventoryGap, Holders
    <3>11. Inventory(step.st) = final.pos + final.refused
        BY <3>2, <3>6, <3>10
    <3>12. final.pos >= -final.refused
        BY <3>2, <3>8, <3>11
    <3>13. sc.class = "crypto" => final.refused = 0
        BY <3>4, <3>6, <3>7, <3>8, <3>10
    <3>14. Inventory(live.st)' = Inventory(step.st)
        BY <2>3, <3>3 DEF Inventory, cfg, step
    <3> QED BY <2>3, <3>3, <3>11, <3>12, <3>13, <3>14 DEF InventoryGap
  <2>4. ASSUME NEW bar \in Bars, BarComes(bar) PROVE InventoryGap'
    <3>1. sc' = sc /\ (UNCHANGED liveVars \/ LiveBar(bar, due'))
        BY <2>4 DEF BarComes
    <3>2. UNCHANGED liveVars => live' = live
        BY DEF liveVars
    <3>3. cfg.kind \notin Holders => InventoryGap'
        BY <3>1 DEF InventoryGap, Holders, cfg
    <3>4. ASSUME LiveBar(bar, due'), cfg.kind \in Holders PROVE InventoryGap'
      <4>1. BotIdles(bar, due') \/ \E early : BotTrades(bar, due', early)
          BY <3>4, LiveBarCases
      <4> QED BY <2>2, <2>3, <3>1, <3>4, <4>1
    <3> QED BY <2>1, <3>1, <3>2, <3>3, <3>4
  <2>5. UNCHANGED vars \/ Joins => live' = live /\ sc' = sc
      BY DEF vars, liveVars, Joins
  <2> QED BY <2>1, <2>4, <2>5, NextCases
<1> QED BY <1>1, <1>2, BaseHolds, PTL DEF Spec

-----------------------------------------------------------------------------
(* What a strategy remembers of the bars.                                  *)

\* The closes a strategy has looked at.
CloseList(bars) == Closes(Positive(bars))
\* They are numbers.
LEMMA CloseListOK ==
    ASSUME NEW bars \in Seq(Bars)
    PROVE  CloseList(bars) \in Seq(Nat) /\ Len(CloseList(bars)) = Len(Positive(bars))
<1> DEFINE s == Positive(bars)
<1>1. s \in Seq(Bars)
  <2>1. [ts |-> 0, close |-> 0] \in Bars
      BY DEF Bars
  <2> QED BY <2>1, PositiveAppend
<1> HIDE DEF s
<1>2. DOMAIN s = 1 .. Len(s) /\ Len(s) \in Nat /\ \A i \in 1 .. Len(s) : s[i] \in Bars
    BY <1>1
<1>3. \A i \in 1 .. Len(s) : s[i].close \in Nat
    BY <1>2 DEF Bars
<1>4. Closes(s) \in [1 .. Len(s) -> Nat]
    BY <1>2, <1>3 DEF Closes
<1>5. Closes(s) \in Seq(Nat) /\ Len(Closes(s)) = Len(s)
    BY <1>2, <1>4
<1> QED BY <1>5 DEF CloseList, s

\* The closes of one bar more.
LEMMA ClosesAppend ==
    ASSUME NEW s \in Seq(Bars), NEW bar \in Bars
    PROVE  Closes(Append(s, bar)) = Append(Closes(s), bar.close)
<1> DEFINE a == Append(s, bar)
           b == Append(Closes(s), bar.close)
<1>1. /\ DOMAIN a = 1 .. Len(s) + 1 /\ DOMAIN s = 1 .. Len(s) /\ Len(s) \in Nat
      /\ a[Len(s) + 1] = bar /\ \A i \in 1 .. Len(s) : a[i] = s[i]
    BY OneMore
<1>2. Closes(s) \in Seq(Nat) /\ Len(Closes(s)) = Len(s)
  <2>1. \A i \in 1 .. Len(s) : s[i] \in Bars
      OBVIOUS
  <2>2. \A i \in 1 .. Len(s) : s[i].close \in Nat
      BY <2>1 DEF Bars
  <2>3. Closes(s) \in [1 .. Len(s) -> Nat]
      BY <1>1, <2>2 DEF Closes
  <2> QED BY <1>1, <2>3
<1>3. /\ b \in Seq(Nat) /\ Len(b) = Len(s) + 1 /\ b[Len(s) + 1] = bar.close
      /\ \A i \in 1 .. Len(s) : b[i] = Closes(s)[i]
  <2>1. bar.close \in Nat
      BY DEF Bars
  <2> QED BY <1>2, <2>1, OneMore
<1> HIDE DEF a, b
<1>4. Closes(a) = [i \in 1 .. Len(s) + 1 |-> a[i].close]
    BY <1>1 DEF Closes
<1>5. \A i \in 1 .. Len(s) : Closes(s)[i] = s[i].close
    BY <1>1 DEF Closes
<1>6. ASSUME NEW i \in 1 .. Len(s) + 1 PROVE b[i] = a[i].close
  <2>1. CASE i = Len(s) + 1
      BY <1>1, <1>3, <2>1
  <2>2. CASE i # Len(s) + 1
    <3>1. i \in 1 .. Len(s)
        BY <1>1, <2>2
    <3> QED BY <1>1, <1>3, <1>5, <3>1
  <2> QED BY <2>1, <2>2
<1>7. b = [i \in 1 .. Len(s) + 1 |-> b[i]]
    BY <1>3
<1>8. b = [i \in 1 .. Len(s) + 1 |-> a[i].close]
    BY <1>6, <1>7
<1> QED BY <1>4, <1>8 DEF a, b

\* A bar adds its close, if that is positive.
LEMMA CloseListAppend ==
    ASSUME NEW bars \in Seq(Bars), NEW bar \in Bars
    PROVE  CloseList(Append(bars, bar)) =
               IF bar.close > 0 THEN Append(CloseList(bars), bar.close) ELSE CloseList(bars)
<1>1. /\ Positive(bars) \in Seq(Bars)
      /\ Positive(Append(bars, bar)) = IF bar.close > 0 THEN Append(Positive(bars), bar)
                                                        ELSE Positive(bars)
    BY PositiveAppend
<1> QED BY <1>1, ClosesAppend DEF CloseList

\* Before the first bar there are none.
LEMMA NoCloses == CloseList(<<>>) = <<>>
<1>1. <<>> \in Seq(Bars) /\ [ts |-> 0, close |-> 0] \in Bars
    BY DEF Bars
<1>2. Positive(<<>>) = <<>>
    BY <1>1, PositiveAppend
<1>3. DOMAIN <<>> = 1 .. 0
    OBVIOUS
<1>4. Closes(<<>>) = [i \in 1 .. 0 |-> <<>>[i].close]
    BY <1>3 DEF Closes
<1>5. [i \in 1 .. 0 |-> <<>>[i].close] = <<>>
    OBVIOUS
<1> QED BY <1>2, <1>4, <1>5 DEF CloseList

\* A time that is the last of those of some bars, or none.
Latest(t, S, bars) ==
    \/ t = NoTime /\ S = {}
    \/ \E m \in S : t = bars[m].ts /\ \A k \in S : k <= m
\* It is earlier than a new bar, and tells whether all of them are long enough ago.
LEMMA LatestStep ==
    ASSUME NEW bars \in Seq(Bars), NEW bar \in Bars, NEW S \in SUBSET (1 .. Len(bars)),
           \A i, j \in 1 .. Len(bars) + 1 :
               i < j => Append(bars, bar)[i].ts < Append(bars, bar)[j].ts,
           NEW t, Latest(t, S, bars)
    PROVE  /\ t # bar.ts /\ t \in Int
           /\ Latest(t, S, Append(bars, bar))
           /\ Latest(bar.ts, S \cup {Len(bars) + 1}, Append(bars, bar))
           /\ \A d \in Nat : (d = 0 \/ t = NoTime \/ bar.ts - t >= d) <=>
                                \A m \in S : bar.ts - bars[m].ts >= d
<1> DEFINE n == Len(bars)
           more == Append(bars, bar)
<1>1. n \in Nat /\ more[n + 1] = bar /\ \A i \in 1 .. n : more[i] = bars[i] /\ bars[i] \in Bars
    BY OneMore
<1>2. bar.ts \in Nat /\ \A i \in 1 .. n : bars[i].ts \in Nat
    BY <1>1 DEF Bars
<1> HIDE DEF more
<1>3. \A i, j \in 1 .. n + 1 : i < j => more[i].ts < more[j].ts
    BY DEF more
<1> HIDE DEF n
<1>4. \A i \in 1 .. n : bars[i].ts < bar.ts
  <2>1. \A i \in 1 .. n : i \in 1 .. n + 1 /\ n + 1 \in 1 .. n + 1 /\ i < n + 1
      BY <1>1
  <2> QED BY <1>1, <1>3, <2>1
<1>5. \A i, j \in 1 .. n : i <= j => bars[i].ts <= bars[j].ts
  <2>1. ASSUME NEW i \in 1 .. n, NEW j \in 1 .. n, i <= j PROVE bars[i].ts <= bars[j].ts
    <3>1. CASE i = j
        BY <1>2, <3>1
    <3>2. CASE i # j
      <4>1. i \in 1 .. n + 1 /\ j \in 1 .. n + 1 /\ i < j
          BY <1>1, <2>1, <3>2
      <4>2. more[i].ts < more[j].ts /\ more[i] = bars[i] /\ more[j] = bars[j]
          BY <1>1, <1>3, <4>1
      <4>3. bars[i].ts \in Nat /\ bars[j].ts \in Nat
          BY <1>2
      <4> QED BY <4>2, <4>3
    <3> QED BY <3>1, <3>2
  <2> QED BY <2>1
<1>6. \A m \in S : m \in 1 .. n
    BY DEF n
<1>7. Latest(bar.ts, S \cup {n + 1}, more)
  <2>1. more[n + 1].ts = bar.ts
      BY <1>1
  <2>2. \A k \in S : k <= n + 1
      BY <1>1, <1>6
  <2>3. \A k \in S \cup {n + 1} : k <= n + 1
      BY <1>1, <2>2
  <2> QED BY <2>1, <2>3 DEF Latest
<1>8. CASE t = NoTime /\ S = {}
  <2>1. t # bar.ts /\ t \in Int
      BY <1>2, <1>8 DEF NoTime
  <2>2. Latest(t, S, more)
      BY <1>8 DEF Latest
  <2> QED BY <1>7, <1>8, <2>1, <2>2 DEF n, more
<1>9. ASSUME NEW m \in S, t = bars[m].ts, \A k \in S : k <= m
      PROVE  /\ t # bar.ts /\ t \in Int /\ Latest(t, S, more)
             /\ \A d \in Nat : (d = 0 \/ t = NoTime \/ bar.ts - t >= d) <=>
                                   \A k \in S : bar.ts - bars[k].ts >= d
  <2>1. m \in 1 .. n /\ t \in Nat /\ t < bar.ts
      BY <1>2, <1>4, <1>6, <1>9
  <2>2. Latest(t, S, more)
      BY <1>1, <1>9, <2>1 DEF Latest
  <2>3. \A k \in S : bars[k].ts <= t /\ bars[k].ts \in Nat /\ bars[k].ts < bar.ts
      BY <1>2, <1>4, <1>5, <1>6, <1>9, <2>1
  <2>4. ASSUME NEW d \in Nat, d = 0 \/ t = NoTime \/ bar.ts - t >= d
        PROVE  \A k \in S : bar.ts - bars[k].ts >= d
      BY <1>2, <2>1, <2>3, <2>4 DEF NoTime
  <2>5. ASSUME NEW d \in Nat, \A k \in S : bar.ts - bars[k].ts >= d
        PROVE  bar.ts - t >= d
      BY <1>9, <2>5
  <2> QED BY <1>2, <2>1, <2>2, <2>4, <2>5
<1> QED BY <1>7, <1>8, <1>9 DEF Latest, n, more

-----------------------------------------------------------------------------
(* Rules.                                                                  *)

\* What a bot with rules remembers of the closes it has looked at.
ValuesAfter(closes) == IF closes = <<>> THEN <<>> ELSE Values(cfg, closes)
TrueAfter(closes, n) == {i \in DOMAIN cfg.rules : TruthAt(closes, i, n)}
RuleMemory(st, closes) ==
    /\ st.closes = Recent(closes, MaxWindow(cfg)) /\ st.values = ValuesAfter(closes)
    /\ st.truth = TrueAfter(closes, Len(closes))

\* The truths after the last close, and after the one before it.
LEMMA TruthNow ==
    ASSUME NEW closes \in Seq(Nat), NEW c \in Nat, NEW i
    PROVE  LET all == Append(closes, c)
           IN  /\ TruthAt(all, i, Len(all)) <=>
                      Eval(cfg.rules[i].when, Values(cfg, all), ValuesAfter(closes))
               /\ TruthAt(all, i, Len(all) - 1) <=> TruthAt(closes, i, Len(closes))
<1> DEFINE all == Append(closes, c)
           n == Len(closes)
<1>1. all \in Seq(Nat) /\ Len(all) = n + 1 /\ n \in Nat /\ all # <<>>
        /\ \A k \in 1 .. n : all[k] = closes[k]
    BY OneMore
<1>2. \A s \in Seq(Nat) : SubSeq(s, 1, Len(s)) = s
  <2> SUFFICES ASSUME NEW s \in Seq(Nat) PROVE SubSeq(s, 1, Len(s)) = s
      OBVIOUS
  <2>1. SubSeq(s, 1, Len(s)) \in Seq(Nat) /\ Len(SubSeq(s, 1, Len(s))) = Len(s)
          /\ \A k \in 1 .. Len(s) : SubSeq(s, 1, Len(s))[k] = s[k]
      OBVIOUS
  <2> QED BY <2>1, SeqEqual
<1>3. ASSUME NEW k \in 0 .. n PROVE SubSeq(all, 1, k) = SubSeq(closes, 1, k)
  <2>1. k <= n /\ k <= n + 1 /\ k \in Nat
      BY <1>1
  <2> HIDE DEF all
  <2>2. /\ SubSeq(all, 1, k) \in Seq(Nat) /\ Len(SubSeq(all, 1, k)) = k
        /\ \A j \in 1 .. k : SubSeq(all, 1, k)[j] = all[j]
      BY <1>1, <2>1
  <2>3. /\ SubSeq(closes, 1, k) \in Seq(Nat) /\ Len(SubSeq(closes, 1, k)) = k
        /\ \A j \in 1 .. k : SubSeq(closes, 1, k)[j] = closes[j]
      BY <2>1
  <2>4. \A j \in 1 .. k : all[j] = closes[j]
      BY <1>1, <2>1
  <2> QED BY <2>2, <2>3, <2>4, SeqEqual
<1> HIDE DEF all
<1>4. SubSeq(all, 1, n + 1) = all /\ SubSeq(all, 1, n) = closes
  <2>1. n \in 0 .. n
      BY <1>1
  <2> QED BY <1>1, <1>2, <1>3, <2>1
<1>5. (closes = <<>>) <=> (n = 0)
  <2>1. \A s \in Seq(Nat) : (s = <<>>) <=> (Len(s) = 0)
      OBVIOUS
  <2> QED BY <2>1
<1>6. TruthAt(all, i, n + 1) <=> Eval(cfg.rules[i].when, Values(cfg, all), ValuesAfter(closes))
  <2>1. n + 1 > 0 /\ (n + 1) - 1 = n /\ (n + 1 = 1 <=> n = 0)
      BY <1>1
  <2> QED BY <1>4, <1>5, <2>1 DEF TruthAt, ValuesAfter
<1>7. TruthAt(all, i, n) <=> TruthAt(closes, i, n)
  <2>1. CASE n = 0
      BY <2>1 DEF TruthAt
  <2>2. CASE n # 0
    <3>1. n \in 0 .. n /\ n - 1 \in 0 .. n
        BY <1>1, <2>2
    <3>2. SubSeq(all, 1, n) = SubSeq(closes, 1, n) /\ SubSeq(all, 1, n - 1) = SubSeq(closes, 1, n - 1)
        BY <1>3, <3>1
    <3> QED BY <3>2 DEF TruthAt
  <2> QED BY <2>1, <2>2
<1>8. Len(all) - 1 = n
    BY <1>1
<1> QED BY <1>1, <1>6, <1>7, <1>8 DEF all
\* A new bot remembers nothing.
LEMMA NoRuleMemory ==
    ASSUME ValidParams(cfg), cfg.kind = "rules"
    PROVE  RuleMemory(FreshState(cfg), <<>>)
<1>1. MaxWindow(cfg) \in Nat /\ Len(<<>>) = 0 /\ <<>> \in Seq(Nat)
    BY MaxWindowOK
<1>2. Recent(<<>>, MaxWindow(cfg)) = <<>>
    BY <1>1 DEF Recent
<1>3. TrueAfter(<<>>, 0) = {}
    BY DEF TrueAfter, TruthAt
<1> QED BY <1>1, <1>2, <1>3 DEF RuleMemory, FreshState, ValuesAfter

RuleFires(closes, i, bar) ==
    /\ bar.close > 0 /\ Orderable(cfg.rules[i].do, bar)
    /\ TruthAt(closes, i, Len(closes)) /\ ~TruthAt(closes, i, Len(closes) - 1)
Cooled(st, i, bar) ==
    cfg.rules[i].cooldown = 0 \/ st.fired[i] = NoTime \/ bar.ts - st.fired[i] >= cfg.rules[i].cooldown
NewCloses(closes, bar) == IF bar.close > 0 THEN Append(closes, bar.close) ELSE closes
\* A bar fires the rules that rise, cooled and orderable, and is remembered.
LEMMA RuleMemoryStep ==
    ASSUME ValidParams(cfg), cfg.kind = "rules", NEW st, StateOK(cfg, st), NEW bar \in Bars,
           NEW closes \in Seq(Nat), RuleMemory(st, closes)
    PROVE  LET step == Step(st, bar)
               all == NewCloses(closes, bar)
           IN  /\ RuleMemory(step.st, all)
               /\ \A i \in DOMAIN cfg.rules :
                     /\ step.st.fired[i] \in {st.fired[i], bar.ts}
                     /\ st.fired[i] # bar.ts =>
                           (step.st.fired[i] = bar.ts <=> RuleFires(all, i, bar) /\ Cooled(st, i, bar))
<1> DEFINE step == Step(st, bar)
           all == NewCloses(closes, bar)
<1>1. bar.close \in Nat
    BY DEF Bars
<1>2. CASE bar.close = 0
  <2>1. step.st = st
      BY <1>2, OnBarStep DEF Step
  <2>2. all = closes
      BY <1>2 DEF NewCloses
  <2>3. \A i : ~RuleFires(all, i, bar)
      BY <1>2 DEF RuleFires
  <2> HIDE DEF step, all
  <2> QED BY <2>1, <2>2, <2>3 DEF step, all
<1>3. CASE bar.close # 0
  <2> DEFINE window == Slide(st.closes, MaxWindow(cfg), bar.close)
             true == RulesTrue(cfg, st, window)
             firing == RulesFiring(cfg, st, window, bar)
  <2>1. bar.close > 0 /\ all = Append(closes, bar.close)
      BY <1>1, <1>3 DEF NewCloses
  <2>2. all \in Seq(Nat) /\ all # <<>>
      BY <1>1, <2>1, OneMore
  <2>3. step = RuleBar(cfg, st, bar)
      BY <1>3, OnBarKinds DEF Step
  <2>4. /\ step.st.closes = window /\ step.st.values = Values(cfg, window)
        /\ step.st.truth = true
        /\ step.st.fired = [i \in DOMAIN cfg.rules |-> IF i \in firing THEN bar.ts ELSE st.fired[i]]
      BY <1>3, <2>3, RuleStep
  <2>5. window = Recent(all, MaxWindow(cfg))
    <3>1. st.closes = Recent(closes, MaxWindow(cfg)) /\ MaxWindow(cfg) \in Nat \ {0}
        BY MaxWindowOK DEF RuleMemory
    <3> QED BY <1>1, <2>1, <3>1, SlideRecent
  <2>6. Values(cfg, window) = Values(cfg, all)
      BY <2>2, <2>5, ValuesRecent
  <2> HIDE DEF window
  <2>7. step.st.values = ValuesAfter(all)
      BY <2>2, <2>4, <2>6 DEF ValuesAfter
  <2>8. \A i : TruthAt(all, i, Len(all)) <=>
                  Eval(cfg.rules[i].when, Values(cfg, all), ValuesAfter(closes))
      BY <1>1, <2>1, TruthNow
  <2>9. \A i : TruthAt(all, i, Len(all) - 1) <=> TruthAt(closes, i, Len(closes))
      BY <1>1, <2>1, TruthNow
  <2>10. true = TrueAfter(all, Len(all))
    <3>1. st.values = ValuesAfter(closes)
        BY DEF RuleMemory
    <3> QED BY <2>6, <2>8, <3>1 DEF RulesTrue, TrueAfter
  <2>11. st.truth = {i \in DOMAIN cfg.rules : TruthAt(all, i, Len(all) - 1)}
      BY <2>9 DEF RuleMemory, TrueAfter
  <2> HIDE DEF step, all, true
  <2>12. RuleMemory(step.st, all)
      BY <2>4, <2>5, <2>7, <2>10 DEF RuleMemory
  <2>13. ASSUME NEW i \in DOMAIN cfg.rules
         PROVE  i \in firing <=> RuleFires(all, i, bar) /\ Cooled(st, i, bar)
    <3>1. i \in firing <=> i \in true /\ i \notin st.truth /\ Cooled(st, i, bar)
                             /\ Orderable(cfg.rules[i].do, bar)
        BY DEF RulesFiring, Cooled, true
    <3> QED BY <2>1, <2>10, <2>11, <3>1 DEF RuleFires, TrueAfter
  <2> HIDE DEF firing
  <2>14. ASSUME NEW i \in DOMAIN cfg.rules
         PROVE  step.st.fired[i] = IF i \in firing THEN bar.ts ELSE st.fired[i]
      BY <2>4
  <2> QED BY <2>12, <2>13, <2>14 DEF step, all
<1> QED BY <1>2, <1>3

\* TruthAt and the property, of configuration p.
TruthOf(p, closes, i, n) ==
    LET now == Values(p, SubSeq(closes, 1, n))
        before == IF n = 1 THEN <<>> ELSE Values(p, SubSeq(closes, 1, n - 1))
    IN  n > 0 /\ Eval(p.rules[i].when, now, before)
FiresAsMeant(p, closes, bars, fired) ==
    \A i \in DOMAIN p.rules :
        i \in Last(fired) <=>
            /\ TruthOf(p, closes, i, Len(closes)) /\ ~TruthOf(p, closes, i, Len(closes) - 1)
            /\ Orderable(p.rules[i].do, Last(bars))
            /\ \A m \in 1 .. Len(bars) - 1 :
                  i \in fired[m] => Last(bars).ts - bars[m].ts >= p.rules[i].cooldown

AllAsMeant ==
    (cfg.kind = "rules" /\ hist # <<>> /\ Last(hist).close > 0) =>
        FiresAsMeant(cfg, Closes(Positive(hist)), hist, fires)
\* The property in those terms.
LEMMA AsMeant == AllAsMeant <=> RuleFiresExactly
BY DEF AllAsMeant, FiresAsMeant, RuleFiresExactly, TruthAt, TruthOf

\* The bars on which rule i fired in the backtest.
FiredBars(i) == {m \in 1 .. Len(hist) : i \in fires[m]}
RuleInv ==
    /\ BaseInv /\ RuleFiresExactly
    /\ cfg.kind = "rules" =>
          /\ RuleMemory(test.st, CloseList(hist))
          /\ \A i \in DOMAIN cfg.rules : Latest(test.st.fired[i], FiredBars(i), hist)

\* A bar keeps the rule engine's promise.
LEMMA RulesStep ==
    ASSUME RuleInv, NEW bar \in Bars, BarComes(bar), InputsOK', cfg.kind = "rules"
    PROVE  /\ RuleFiresExactly'
           /\ RuleMemory(test.st, CloseList(hist))'
           /\ \A i \in DOMAIN cfg.rules : Latest(test'.st.fired[i], FiredBars(i)', hist')
<1> DEFINE n == Len(hist)
           closes == CloseList(hist)
           all == NewCloses(closes, bar)
           step == Step(test.st, bar)
           fired == FiredAt(step.st, bar.ts)
<1>1. /\ BaseInv /\ hist' = Append(hist, bar) /\ sc' = sc /\ cfg' = cfg /\ TestBar(bar)
      /\ hist \in Seq(Bars) /\ ValidParams(cfg) /\ StateOK(cfg, test.st)
      /\ fires \in Seq(SUBSET RuleIds(cfg)) /\ Len(fires) = n
    BY ReplayAssumption DEF RuleInv, BarComes, BaseInv, InputsOK, TestOK, cfg
<1>2. /\ n \in Nat /\ Len(hist') = n + 1 /\ hist'[n + 1] = bar /\ Last(hist') = bar
      /\ DOMAIN hist' = 1 .. n + 1 /\ \A i \in 1 .. n : hist'[i] = hist[i]
    BY <1>1, OneMore
<1>3. closes \in Seq(Nat) /\ CloseList(hist)' = all
  <2>1. closes \in Seq(Nat)
      BY <1>1, CloseListOK
  <2>2. CloseList(hist') = all
      BY <1>1, CloseListAppend DEF NewCloses
  <2>3. CloseList(hist)' = CloseList(hist')
      BY DEF CloseList, Closes, Positive
  <2> QED BY <2>1, <2>2, <2>3
<1>4. RuleMemory(test.st, closes) /\ \A i \in DOMAIN cfg.rules : Latest(test.st.fired[i], FiredBars(i), hist)
    BY DEF RuleInv
<1>5. /\ RuleMemory(step.st, all)
      /\ \A i \in DOMAIN cfg.rules :
            /\ step.st.fired[i] \in {test.st.fired[i], bar.ts}
            /\ test.st.fired[i] # bar.ts =>
                  (step.st.fired[i] = bar.ts <=> RuleFires(all, i, bar) /\ Cooled(test.st, i, bar))
    BY <1>1, <1>3, <1>4, RuleMemoryStep
<1>6. test'.st = step.st /\ StateOK(cfg, step.st) /\ fires' = Append(fires, fired)
    BY <1>1, TestBarStep DEF StepOK
<1> HIDE DEF step, closes, all
<1>7. /\ \A i \in DOMAIN cfg.rules : i \in fired <=> step.st.fired[i] = bar.ts
      /\ fired \in SUBSET RuleIds(cfg)
    BY <1>6 DEF FiredAt, StateOK, RuleIds
<1> HIDE DEF fired
<1>8. Last(fires') = fired /\ fires'[n + 1] = fired /\ \A m \in 1 .. n : fires'[m] = fires[m]
    BY <1>1, <1>6, <1>7, OneMore
<1>9. ASSUME NEW i \in DOMAIN cfg.rules
      PROVE  /\ Latest(test'.st.fired[i], FiredBars(i)', hist')
             /\ i \in fired <=> RuleFires(all, i, bar) /\
                    \A m \in 1 .. n : i \in fires[m] => bar.ts - hist[m].ts >= cfg.rules[i].cooldown
  <2> DEFINE t == test.st.fired[i]
             S == FiredBars(i)
             d == cfg.rules[i].cooldown
  <2>1. Latest(t, S, hist) /\ S \in SUBSET (1 .. n)
      BY <1>4 DEF FiredBars
  <2>2. \A a, b \in 1 .. n + 1 : a < b => Append(hist, bar)[a].ts < Append(hist, bar)[b].ts
    <3>1. \A a, b \in DOMAIN hist' : a < b => hist'[a].ts < hist'[b].ts
        BY DEF InputsOK
    <3> QED BY <1>1, <1>2, <3>1
  <2>3. d \in Nat
      BY <1>1 DEF ValidParams
  <2> HIDE DEF t, S, d
  <2>4. /\ t # bar.ts /\ Latest(t, S, hist') /\ Latest(bar.ts, S \cup {n + 1}, hist')
        /\ (d = 0 \/ t = NoTime \/ bar.ts - t >= d) <=> \A m \in S : bar.ts - hist[m].ts >= d
      BY <1>1, <2>1, <2>2, <2>3, LatestStep
  <2>5. step.st.fired[i] = bar.ts <=> RuleFires(all, i, bar) /\ Cooled(test.st, i, bar)
      BY <1>5, <2>4 DEF t
  <2>6. Cooled(test.st, i, bar) <=> \A m \in S : bar.ts - hist[m].ts >= d
      BY <2>4 DEF Cooled, t, d
  <2>7. FiredBars(i)' = IF i \in fired THEN S \cup {n + 1} ELSE S
    <3>1. FiredBars(i)' = {m \in 1 .. n + 1 : i \in fires'[m]}
        BY <1>2 DEF FiredBars
    <3>2. 1 .. n + 1 = (1 .. n) \cup {n + 1} /\ n + 1 \notin 1 .. n
        BY <1>2
    <3>3. S = {m \in 1 .. n : i \in fires[m]}
        BY DEF S, FiredBars
    <3> HIDE DEF n
    <3> QED BY <1>8, <3>1, <3>2, <3>3
  <2>8. Latest(test'.st.fired[i], FiredBars(i)', hist')
      BY <1>5, <1>6, <1>7, <2>4, <2>7 DEF t
  <2>9. i \in fired <=> RuleFires(all, i, bar) /\ \A m \in S : bar.ts - hist[m].ts >= d
      BY <1>7, <2>5, <2>6
  <2> QED BY <2>8, <2>9 DEF S, FiredBars, d
<1>10. RuleMemory(test.st, CloseList(hist))'
  <2>1. RuleMemory(test'.st, all)
      BY <1>5, <1>6
  <2> QED BY <1>1, <1>3, <2>1 DEF RuleMemory, ValuesAfter, TrueAfter, TruthAt, cfg
<1>11. RuleFiresExactly'
  <2>1. ASSUME bar.close > 0 PROVE FiresAsMeant(cfg, all, hist', fires')
    <3>1. ASSUME NEW i \in DOMAIN cfg.rules
          PROVE  i \in Last(fires') <=>
                     /\ TruthOf(cfg, all, i, Len(all)) /\ ~TruthOf(cfg, all, i, Len(all) - 1)
                     /\ Orderable(cfg.rules[i].do, Last(hist'))
                     /\ \A m \in 1 .. n : i \in fires'[m] =>
                           Last(hist').ts - hist'[m].ts >= cfg.rules[i].cooldown
      <4>1. \A k : TruthOf(cfg, all, i, k) <=> TruthAt(all, i, k)
          BY DEF TruthOf, TruthAt
      <4>2. \A m \in 1 .. n : hist'[m] = hist[m] /\ fires'[m] = fires[m]
          BY <1>2, <1>8
      <4> HIDE DEF n
      <4>3. i \in fired <=>
                /\ TruthAt(all, i, Len(all)) /\ ~TruthAt(all, i, Len(all) - 1)
                /\ Orderable(cfg.rules[i].do, bar)
                /\ \A m \in 1 .. n : i \in fires[m] =>
                      bar.ts - hist[m].ts >= cfg.rules[i].cooldown
          BY <1>9, <2>1 DEF RuleFires
      <4> QED BY <1>2, <1>8, <4>1, <4>2, <4>3
    <3>2. Len(hist') - 1 = n
        BY <1>2
    <3> HIDE DEF n
    <3> QED BY <3>1, <3>2 DEF FiresAsMeant
  <2>2. Closes(Positive(hist))' = all
      BY <1>3 DEF CloseList
  <2> HIDE DEF n
  <2>3. AllAsMeant'
      BY <1>1, <1>2, <2>1, <2>2 DEF AllAsMeant
  <2> QED BY <2>3, AsMeant, PTL
<1> QED BY <1>9, <1>10, <1>11

\* A rule fires on a bar exactly if its condition, evaluated on the whole
\* history, turned true at that bar, there is an order to place and no firing
\* is less than a cooldown ago: the window of closes the engine keeps, the
\* values and truths it remembers and its last firings stand for the history.
THEOREM RulesFireExactly == Spec => []RuleFiresExactly
<1>1. Init => RuleInv
  <2> SUFFICES ASSUME Init PROVE RuleInv
      OBVIOUS
  <2>1. BaseInv /\ hist = <<>> /\ fires = <<>> /\ test.st = FreshState(cfg)
      BY BaseInit DEF Init
  <2>2. ValidParams(cfg) /\ Len(hist) = 0
      BY <2>1, ReplayAssumption DEF BaseInv, InputsOK, cfg
  <2>3. RuleFiresExactly
      BY <2>1 DEF RuleFiresExactly
  <2>4. CloseList(hist) = <<>>
      BY <2>1, NoCloses
  <2>5. ASSUME cfg.kind = "rules", NEW i \in DOMAIN cfg.rules
        PROVE  Latest(test.st.fired[i], FiredBars(i), hist)
    <3>1. FiredBars(i) = {}
        BY <2>2 DEF FiredBars
    <3>2. test.st.fired[i] = NoTime
        BY <2>1, <2>5 DEF FreshState
    <3> QED BY <3>1, <3>2 DEF Latest
  <2>6. cfg.kind = "rules" => RuleMemory(test.st, CloseList(hist))
      BY <2>1, <2>2, <2>4, NoRuleMemory
  <2> QED BY <2>1, <2>3, <2>5, <2>6 DEF RuleInv
<1>2. RuleInv /\ BaseInv' /\ [Next]_vars => RuleInv'
  <2> SUFFICES ASSUME RuleInv, BaseInv', [Next]_vars PROVE RuleInv'
      OBVIOUS
  <2>1. BaseInv
      BY DEF RuleInv
  <2>2. CASE sc' = sc /\ hist' = hist /\ fires' = fires /\ test' = test
    <3>1. cfg' = cfg /\ CloseList(hist)' = CloseList(hist)
        BY <2>2 DEF cfg, CloseList, Closes, Positive
    <3>2. RuleFiresExactly' <=> RuleFiresExactly
        BY <2>2, <3>1 DEF RuleFiresExactly, TruthAt, Closes, Positive, cfg
    <3>3. RuleMemory(test.st, CloseList(hist))' <=> RuleMemory(test.st, CloseList(hist))
        BY <2>2, <3>1 DEF RuleMemory, ValuesAfter, TrueAfter, TruthAt, cfg
    <3>4. ASSUME NEW i
          PROVE  Latest(test.st.fired[i], FiredBars(i), hist)' <=>
                     Latest(test.st.fired[i], FiredBars(i), hist)
        BY <2>2 DEF Latest, FiredBars
    <3>5. cfg' = cfg /\ test' = test
        BY <2>2, <3>1
    <3> QED BY <2>2, <3>2, <3>3, <3>4, <3>5 DEF RuleInv
  <2>3. UNCHANGED vars \/ Joins => sc' = sc /\ hist' = hist /\ fires' = fires /\ test' = test
      BY DEF vars, testVars, Joins
  <2>4. ASSUME NEW bar \in Bars, BarComes(bar) PROVE RuleInv'
    <3>1. sc' = sc /\ cfg' = cfg
        BY <2>4 DEF BarComes, cfg
    <3>2. CASE cfg.kind # "rules"
        BY <3>1, <3>2 DEF RuleInv, RuleFiresExactly
    <3>3. CASE cfg.kind = "rules"
      <4>1. /\ RuleFiresExactly' /\ RuleMemory(test.st, CloseList(hist))'
            /\ \A i \in DOMAIN cfg.rules : Latest(test'.st.fired[i], FiredBars(i)', hist')
          BY <2>4, <3>3, RulesStep DEF BaseInv
      <4>2. (\A i \in DOMAIN cfg.rules : Latest(test.st.fired[i], FiredBars(i), hist))'
          BY <3>1, <4>1 DEF Latest
      <4> QED BY <4>1, <4>2 DEF RuleInv
    <3> QED BY <3>2, <3>3
  <2> QED BY <2>1, <2>2, <2>3, <2>4, NextCases
<1>3. RuleInv => RuleFiresExactly
    BY DEF RuleInv
<1> QED BY <1>1, <1>2, <1>3, BaseHolds, PTL DEF Spec

-----------------------------------------------------------------------------
(* A bot that starts in the middle of the stream.                          *)

\* One close less.
LEMMA EndsPrefix ==
    ASSUME NEW s \in Seq(Nat), NEW t \in Seq(Nat), Ends(s, t), NEW k \in 0 .. Len(t)
    PROVE  LET K == Len(s) - Len(t) + k
           IN  /\ SubSeq(s, 1, K) \in Seq(Nat) /\ Len(SubSeq(s, 1, K)) = K
               /\ SubSeq(t, 1, k) \in Seq(Nat) /\ Len(SubSeq(t, 1, k)) = k
               /\ Ends(SubSeq(s, 1, K), SubSeq(t, 1, k))
<1> DEFINE K == Len(s) - Len(t) + k
           a == SubSeq(s, 1, K)
           b == SubSeq(t, 1, k)
<1>1. /\ Len(s) \in Nat /\ Len(t) \in Nat /\ Len(t) <= Len(s) /\ k \in Nat /\ k <= Len(t)
      /\ K \in Nat /\ K <= Len(s) /\ k <= K
    BY DEF Ends
<1>2. a \in Seq(Nat) /\ Len(a) = K /\ \A i \in 1 .. K : a[i] = s[i]
  <2> HIDE DEF K
  <2> QED BY <1>1
<1>3. b \in Seq(Nat) /\ Len(b) = k /\ \A i \in 1 .. k : b[i] = t[i]
    BY <1>1
<1> HIDE DEF a, b
<1>4. ASSUME NEW i \in 1 .. k PROVE b[i] = a[K - k + i]
  <2>1. i \in 1 .. Len(t) /\ K - k + i = Len(s) - Len(t) + i /\ K - k + i \in 1 .. K
      BY <1>1
  <2>2. t[i] = s[K - k + i]
      BY <2>1 DEF Ends
  <2> HIDE DEF K
  <2> QED BY <1>2, <1>3, <2>1, <2>2
<1>5. Ends(a, b)
  <2> HIDE DEF K
  <2> QED BY <1>1, <1>2, <1>3, <1>4 DEF Ends
<1> QED BY <1>2, <1>3, <1>5 DEF a, b

\* The values of the two sides agree once the window is full.
LEMMA ValuesAgree ==
    ASSUME ValidParams(cfg), cfg.kind = "rules", NEW s \in Seq(Nat), NEW t \in Seq(Nat), Ends(s, t),
           NEW k \in 0 .. Len(t), MaxWindow(cfg) <= k
    PROVE  Values(cfg, SubSeq(t, 1, k)) = Values(cfg, SubSeq(s, 1, Len(s) - Len(t) + k))
<1> DEFINE a == SubSeq(s, 1, Len(s) - Len(t) + k)
           b == SubSeq(t, 1, k)
           W == MaxWindow(cfg)
<1>1. a \in Seq(Nat) /\ b \in Seq(Nat) /\ Len(b) = k /\ Ends(a, b)
    BY EndsPrefix
<1> HIDE DEF a, b
<1>2. W \in Nat \ {0}
    BY MaxWindowOK
<1>3. Recent(a, W) = Recent(b, W)
    BY <1>1, <1>2, RecentAgrees
<1>4. a # <<>> /\ b # <<>>
  <2>1. Len(b) # 0 /\ Len(a) # 0
      BY <1>1, <1>2 DEF Ends
  <2>2. Len(<<>>) = 0
      OBVIOUS
  <2> QED BY <2>1, <2>2
<1>5. Values(cfg, Recent(a, W)) = Values(cfg, a) /\ Values(cfg, Recent(b, W)) = Values(cfg, b)
    BY <1>1, <1>4, ValuesRecent
<1> QED BY <1>3, <1>5 DEF a, b

\* Their truths agree a bar later.
LEMMA TruthAgrees ==
    ASSUME ValidParams(cfg), cfg.kind = "rules", NEW s \in Seq(Nat), NEW t \in Seq(Nat), Ends(s, t),
           NEW k \in 0 .. Len(t), MaxWindow(cfg) + 1 <= k, NEW i
    PROVE  TruthAt(t, i, k) <=> TruthAt(s, i, Len(s) - Len(t) + k)
<1> DEFINE K == Len(s) - Len(t) + k
<1>1. /\ Len(s) \in Nat /\ Len(t) \in Nat /\ Len(t) <= Len(s) /\ k \in Nat
      /\ MaxWindow(cfg) \in Nat \ {0}
  <2>1. Len(s) \in Nat /\ Len(t) \in Nat /\ k \in Nat
      OBVIOUS
  <2>2. Len(t) <= Len(s)
      BY DEF Ends
  <2>3. MaxWindow(cfg) \in Nat \ {0}
      BY MaxWindowOK
  <2> QED BY <2>1, <2>2, <2>3
<1>2. K > 1 /\ k > 1 /\ K - 1 = Len(s) - Len(t) + (k - 1) /\ k - 1 \in 0 .. Len(t)
        /\ MaxWindow(cfg) <= k - 1 /\ MaxWindow(cfg) <= k /\ K \in Int
  <2> DEFINE m == Len(s)
             n == Len(t)
             W == MaxWindow(cfg)
  <2>1. m \in Nat /\ n \in Nat /\ n <= m /\ W \in Nat \ {0} /\ k \in 0 .. n /\ W + 1 <= k
      BY <1>1
  <2> HIDE DEF m, n, W
  <2>2. (m - n) + k > 1 /\ k > 1 /\ ((m - n) + k) - 1 = (m - n) + (k - 1) /\ k - 1 \in 0 .. n
        /\ W <= k - 1 /\ W <= k /\ (m - n) + k \in Int
      BY <2>1
  <2> QED BY <2>2 DEF m, n, W
<1>3. Values(cfg, SubSeq(t, 1, k)) = Values(cfg, SubSeq(s, 1, K))
    BY <1>2, ValuesAgree
<1>4. Values(cfg, SubSeq(t, 1, k - 1)) = Values(cfg, SubSeq(s, 1, Len(s) - Len(t) + (k - 1)))
    BY <1>2, ValuesAgree
<1>5. K > 0 /\ k > 0 /\ K # 1 /\ k # 1
  <2> HIDE DEF K
  <2>1. K > 1 /\ k > 1 /\ K \in Int /\ k \in Int
      BY <1>1, <1>2
  <2> QED BY <2>1
<1>6. Values(cfg, SubSeq(t, 1, k - 1)) = Values(cfg, SubSeq(s, 1, K - 1))
    BY <1>2, <1>4
<1> HIDE DEF K
<1> QED BY <1>3, <1>5, <1>6 DEF TruthAt, K

\* What a bot remembers of the closes it has looked at.
Above(closes) == Total(LastN(closes, cfg.fast)) * cfg.slow > Total(closes) * cfg.fast
Remembers(st, closes) ==
    /\ cfg.kind = "rules" => RuleMemory(st, closes)
    /\ cfg.kind = "ma" =>
          /\ st.closes = Recent(closes, cfg.slow)
          /\ cfg.slow <= Len(closes) => st.above = {Above(Recent(closes, cfg.slow))}
    /\ cfg.kind = "momentum" => st.closes = Recent(closes, cfg.lookback + 1)

\* A new bot remembers no bar.
LEMMA RemembersNothing ==
    ASSUME ValidParams(cfg)
    PROVE  Remembers(FreshState(cfg), <<>>)
<1>1. cfg.kind = "rules" => RuleMemory(FreshState(cfg), <<>>)
    BY NoRuleMemory
<1>2. Len(<<>>) = 0 /\ FreshState(cfg).closes = <<>>
    BY DEF FreshState
<1>3. cfg.kind = "ma" => cfg.slow \in Nat /\ 0 <= cfg.slow /\ ~(cfg.slow <= 0)
    BY DEF ValidParams
<1>4. cfg.kind = "momentum" => 0 <= cfg.lookback + 1
    BY DEF ValidParams
<1> QED BY <1>1, <1>2, <1>3, <1>4 DEF Remembers, Recent

\* A bar is remembered.
LEMMA RemembersStep ==
    ASSUME ValidParams(cfg), NEW st, StateOK(cfg, st), NEW bar \in Bars,
           NEW closes \in Seq(Nat), Remembers(st, closes)
    PROVE  Remembers(Step(st, bar).st, NewCloses(closes, bar))
<1> DEFINE step == Step(st, bar)
           all == NewCloses(closes, bar)
<1>1. CASE bar.close = 0
  <2>1. step.st = st
      BY <1>1, OnBarStep DEF Step
  <2>2. all = closes
      BY <1>1 DEF NewCloses
  <2> QED BY <2>1, <2>2
<1>2. CASE bar.close # 0
  <2>1. bar.close \in Nat /\ all = Append(closes, bar.close) /\ all \in Seq(Nat)
    <3>1. bar.close \in Nat /\ bar.close > 0
        BY <1>2 DEF Bars
    <3> QED BY <3>1, OneMore DEF NewCloses
  <2>2. ASSUME cfg.kind = "rules" PROVE RuleMemory(step.st, all)
      BY <2>2, RuleMemoryStep DEF Remembers
  <2>3. ASSUME cfg.kind = "ma"
        PROVE  /\ step.st.closes = Recent(all, cfg.slow)
               /\ cfg.slow <= Len(all) => step.st.above = {Above(Recent(all, cfg.slow))}
    <3> DEFINE window == Slide(st.closes, cfg.slow, bar.close)
    <3>1. cfg.slow \in Nat \ {0}
        BY <2>3 DEF ValidParams
    <3>2. window = Recent(all, cfg.slow)
        BY <2>1, <2>3, <3>1, SlideRecent DEF Remembers
    <3>3. step = MaBar(cfg, st, bar)
        BY <1>2, <2>3, OnBarKinds DEF Step
    <3>4. /\ step.st.closes = window
          /\ Len(window) >= cfg.slow => step.st.above = {Above(window)}
        BY <1>2, <2>3, <3>3, MaStep DEF Above
    <3> HIDE DEF step, all, window
    <3>5. cfg.slow <= Len(all) => Len(window) >= cfg.slow
      <4>1. Len(Recent(all, cfg.slow)) = IF Len(all) <= cfg.slow THEN Len(all) ELSE cfg.slow
          BY <2>1, <3>1, RecentOK
      <4>2. Len(all) \in Nat
          BY <2>1
      <4> QED BY <3>1, <3>2, <4>1, <4>2
    <3> QED BY <3>2, <3>4, <3>5
  <2>4. ASSUME cfg.kind = "momentum" PROVE step.st.closes = Recent(all, cfg.lookback + 1)
    <3>1. cfg.lookback + 1 \in Nat \ {0}
        BY <2>4 DEF ValidParams
    <3>2. Slide(st.closes, cfg.lookback + 1, bar.close) = Recent(all, cfg.lookback + 1)
        BY <2>1, <2>4, <3>1, SlideRecent DEF Remembers
    <3>3. step = MomentumBar(cfg, st, bar)
        BY <1>2, <2>4, OnBarKinds DEF Step
    <3> QED BY <1>2, <2>4, <3>2, <3>3, MomentumStep
  <2> QED BY <2>2, <2>3, <2>4 DEF Remembers
<1> QED BY <1>1, <1>2

\* When the rules of a bot fired last, and which of those without a cooldown
\* fired on the last bar.
FiredIn(bars, st, closes) ==
    cfg.kind = "rules" => \A i \in DOMAIN cfg.rules :
        /\ st.fired[i] = NoTime \/ \E m \in DOMAIN bars : st.fired[i] = bars[m].ts
        /\ (bars # <<>> /\ cfg.rules[i].cooldown = 0) =>
              (st.fired[i] = Last(bars).ts <=> RuleFires(closes, i, Last(bars)))
\* A new bot has fired nothing.
LEMMA FiredNothing ==
    ASSUME ValidParams(cfg), hist \in Seq(Bars)
    PROVE  FiredIn(hist, FreshState(cfg), <<>>)
<1> SUFFICES ASSUME cfg.kind = "rules", NEW i \in DOMAIN cfg.rules
             PROVE  /\ FreshState(cfg).fired[i] = NoTime
                    /\ hist # <<>> => /\ ~RuleFires(<<>>, i, Last(hist))
                                      /\ NoTime # Last(hist).ts
    BY DEF FiredIn
<1>1. FreshState(cfg).fired[i] = NoTime
    BY DEF FreshState
<1>2. ~RuleFires(<<>>, i, Last(hist))
  <2>1. Len(<<>>) = 0
      OBVIOUS
  <2> QED BY <2>1 DEF RuleFires, TruthAt
<1>3. ASSUME hist # <<>> PROVE NoTime # Last(hist).ts
  <2>1. Len(hist) \in 1 .. Len(hist) /\ hist[Len(hist)] \in Bars
      BY <1>3
  <2> QED BY <2>1 DEF Last, Bars, NoTime
<1> QED BY <1>1, <1>2, <1>3

\* What a bar fires.
LEMMA FiredStep ==
    ASSUME BaseInv, NEW bar \in Bars, BarComes(bar), InputsOK',
           NEW st, StateOK(cfg, st), NEW closes \in Seq(Nat), Remembers(st, closes),
           FiredIn(hist, st, closes)
    PROVE  FiredIn(hist', Step(st, bar).st, NewCloses(closes, bar))
<1> SUFFICES ASSUME cfg.kind = "rules", NEW i \in DOMAIN cfg.rules
             PROVE  LET step == Step(st, bar)
                    IN  /\ step.st.fired[i] = NoTime \/ \E m \in DOMAIN hist' : step.st.fired[i] = hist'[m].ts
                        /\ hist' # <<>> /\ Last(hist') = bar
                        /\ cfg.rules[i].cooldown = 0 =>
                              (step.st.fired[i] = bar.ts <=> RuleFires(NewCloses(closes, bar), i, bar))
    BY DEF FiredIn
<1> DEFINE n == Len(hist)
           step == Step(st, bar)
           all == NewCloses(closes, bar)
<1>1. hist' = Append(hist, bar) /\ hist \in Seq(Bars) /\ ValidParams(cfg)
    BY ReplayAssumption DEF BarComes, BaseInv, InputsOK, cfg
<1>2. /\ n \in Nat /\ Len(hist') = n + 1 /\ hist'[n + 1] = bar /\ Last(hist') = bar /\ hist' # <<>>
      /\ DOMAIN hist' = 1 .. n + 1 /\ DOMAIN hist = 1 .. n /\ \A m \in 1 .. n : hist'[m] = hist[m]
    BY <1>1, OneMore
<1>3. /\ step.st.fired[i] \in {st.fired[i], bar.ts}
      /\ st.fired[i] # bar.ts => (step.st.fired[i] = bar.ts <=> RuleFires(all, i, bar) /\ Cooled(st, i, bar))
    BY <1>1, RuleMemoryStep DEF Remembers
<1> HIDE DEF step, all, n
<1>4. st.fired[i] = NoTime \/ \E m \in DOMAIN hist : st.fired[i] = hist[m].ts
    BY DEF FiredIn
<1>5. st.fired[i] # bar.ts
  <2>1. bar.ts \in Nat
      BY DEF Bars
  <2>2. CASE st.fired[i] = NoTime
      BY <2>1, <2>2 DEF NoTime
  <2>3. ASSUME NEW m \in DOMAIN hist, st.fired[i] = hist[m].ts PROVE st.fired[i] # bar.ts
    <3>1. m \in DOMAIN hist' /\ n + 1 \in DOMAIN hist' /\ m < n + 1 /\ hist[m] \in Bars
      <4>1. m \in 1 .. n
          BY <1>2, <2>3
      <4> QED BY <1>1, <1>2, <4>1 DEF n
    <3>2. hist'[m].ts < hist'[n + 1].ts
        BY <3>1 DEF InputsOK
    <3>3. hist[m].ts \in Nat /\ hist[m].ts < bar.ts
        BY <1>2, <2>3, <3>1, <3>2 DEF Bars
    <3> QED BY <2>1, <2>3, <3>3
  <2> QED BY <1>4, <2>2, <2>3
<1>6. step.st.fired[i] = NoTime \/ \E m \in DOMAIN hist' : step.st.fired[i] = hist'[m].ts
  <2>1. CASE step.st.fired[i] = bar.ts
    <3>1. n + 1 \in DOMAIN hist'
        BY <1>2
    <3> QED BY <1>2, <2>1, <3>1
  <2>2. CASE step.st.fired[i] = st.fired[i]
    <3>1. \A m \in DOMAIN hist : m \in DOMAIN hist' /\ hist'[m] = hist[m]
        BY <1>2
    <3> QED BY <1>4, <2>2, <3>1
  <2> QED BY <1>3, <2>1, <2>2
<1> QED BY <1>2, <1>3, <1>5, <1>6 DEF Cooled, step, all

\* The bars the bot's strategy was given.
SeenBars == [i \in DOMAIN seen |-> hist[seen[i]]]
MemoryInv ==
    /\ BaseInv
    /\ Remembers(test.st, CloseList(hist)) /\ FiredIn(hist, test.st, CloseList(hist))
    /\ (sc.class = "crypto" /\ phase = "running") =>
          /\ Ends(CloseList(hist), CloseList(SeenBars))
          /\ Remembers(live.st, CloseList(SeenBars)) /\ FiredIn(hist, live.st, CloseList(SeenBars))

\* They are bars of the stream.
LEMMA SeenOK ==
    ASSUME BaseInv
    PROVE  SeenBars \in Seq(Bars) /\ Len(SeenBars) = Len(seen)
<1>1. /\ seen \in Seq(Nat) /\ \A i \in DOMAIN seen : seen[i] \in DOMAIN hist
      /\ hist \in Seq(Bars)
    BY DEF BaseInv, LiveOK, InputsOK
<1>2. DOMAIN seen = 1 .. Len(seen) /\ Len(seen) \in Nat /\ \A m \in DOMAIN hist : hist[m] \in Bars
    BY <1>1
<1>3. SeenBars \in [1 .. Len(seen) -> Bars]
    BY <1>1, <1>2 DEF SeenBars
<1> QED BY <1>2, <1>3

\* Enough bars on, the bot knows what the backtest knows.
LEMMA Converged ==
    ASSUME MemoryInv
    PROVE  WarmStartConverges
<1> DEFINE s == CloseList(hist)
           t == CloseList(SeenBars)
           n == Len(Positive(SeenBars))
<1>1. /\ s \in Seq(Nat) /\ t \in Seq(Nat) /\ Len(t) = n /\ ValidParams(cfg) /\ hist \in Seq(Bars)
    BY SeenOK, CloseListOK, ReplayAssumption DEF MemoryInv, BaseInv, InputsOK, cfg
<1>2. Remembers(test.st, s) /\ FiredIn(hist, test.st, s)
    BY DEF MemoryInv
<1> SUFFICES ASSUME phase = "running", sc.class = "crypto"
             PROVE  /\ cfg.kind = "rules" =>
                          /\ n >= MaxWindow(cfg) =>
                                live.st.closes = test.st.closes /\ live.st.values = test.st.values
                          /\ n >= MaxWindow(cfg) + 1 => live.st.truth = test.st.truth
                          /\ n >= MaxWindow(cfg) + 2 =>
                                \A i \in DOMAIN cfg.rules :
                                    cfg.rules[i].cooldown = 0 =>
                                        ((live.st.fired[i] = Last(hist).ts)
                                            = (test.st.fired[i] = Last(hist).ts))
                    /\ cfg.kind = "ma" => (n >= cfg.slow =>
                          live.st.closes = test.st.closes /\ live.st.above = test.st.above)
                    /\ cfg.kind = "momentum" => (n >= cfg.lookback + 1 =>
                          live.st.closes = test.st.closes)
  <2> HIDE DEF n
  <2> QED BY DEF WarmStartConverges, SeenBars, n
<1>3. Ends(s, t) /\ Remembers(live.st, t) /\ FiredIn(hist, live.st, t)
    BY DEF MemoryInv
<1> HIDE DEF s, t, n
<1>4. Len(s) \in Nat /\ Len(t) \in Nat /\ Len(t) <= Len(s)
    BY <1>1, <1>3 DEF Ends
<1>5. ASSUME cfg.kind = "rules", n >= MaxWindow(cfg)
      PROVE  live.st.closes = test.st.closes /\ live.st.values = test.st.values
  <2> DEFINE W == MaxWindow(cfg)
  <2>1. W \in Nat \ {0}
      BY <1>1, <1>5, MaxWindowOK
  <2> HIDE DEF W
  <2>2. W <= Len(t)
      BY <1>1, <1>4, <1>5, <2>1 DEF W
  <2>3. Recent(s, W) = Recent(t, W)
      BY <1>1, <1>3, <2>1, <2>2, RecentAgrees
  <2>4. s # <<>> /\ t # <<>>
    <3>1. Len(s) # 0 /\ Len(t) # 0
        BY <1>4, <2>1, <2>2
    <3>2. Len(<<>>) = 0
        OBVIOUS
    <3> QED BY <3>1, <3>2
  <2>5. Values(cfg, Recent(s, W)) = Values(cfg, s) /\ Values(cfg, Recent(t, W)) = Values(cfg, t)
      BY <1>1, <1>5, <2>4, ValuesRecent DEF W
  <2> QED BY <1>2, <1>3, <1>5, <2>3, <2>4, <2>5 DEF Remembers, RuleMemory, ValuesAfter, W
<1>6. ASSUME cfg.kind = "rules", n >= MaxWindow(cfg) + 1
      PROVE  live.st.truth = test.st.truth
  <2>1. \A i : TruthAt(t, i, Len(t)) <=> TruthAt(s, i, Len(s))
    <3> SUFFICES ASSUME NEW i PROVE TruthAt(t, i, Len(t)) <=> TruthAt(s, i, Len(s))
        OBVIOUS
    <3>1. Len(t) \in 0 .. Len(t) /\ MaxWindow(cfg) + 1 <= Len(t) /\ Len(s) - Len(t) + Len(t) = Len(s)
        BY <1>1, <1>4, <1>6, MaxWindowOK
    <3>2. TruthAt(t, i, Len(t)) <=> TruthAt(s, i, Len(s) - Len(t) + Len(t))
        BY <1>1, <1>3, <1>6, <3>1, TruthAgrees
    <3> QED BY <3>1, <3>2
  <2> QED BY <1>2, <1>3, <1>6, <2>1 DEF Remembers, RuleMemory, TrueAfter
<1>7. ASSUME cfg.kind = "rules", n >= MaxWindow(cfg) + 2, NEW i \in DOMAIN cfg.rules,
             cfg.rules[i].cooldown = 0
      PROVE  (live.st.fired[i] = Last(hist).ts) = (test.st.fired[i] = Last(hist).ts)
  <2>1. MaxWindow(cfg) \in Nat \ {0}
      BY <1>1, <1>7, MaxWindowOK
  <2>2. /\ Len(t) \in 0 .. Len(t) /\ MaxWindow(cfg) + 1 <= Len(t) /\ Len(s) - Len(t) + Len(t) = Len(s)
        /\ Len(t) - 1 \in 0 .. Len(t) /\ MaxWindow(cfg) + 1 <= Len(t) - 1
        /\ Len(s) - Len(t) + (Len(t) - 1) = Len(s) - 1 /\ Len(s) # 0
    <3> DEFINE W == MaxWindow(cfg)
               a == Len(s)
               b == Len(t)
    <3>1. W \in Nat /\ a \in Nat /\ b \in Nat /\ b <= a /\ b >= W + 2
        BY <1>1, <1>4, <1>7, <2>1
    <3> HIDE DEF W, a, b
    <3>2. /\ b \in 0 .. b /\ W + 1 <= b /\ b - 1 \in 0 .. b /\ W + 1 <= b - 1 /\ a # 0
        BY <3>1
    <3>3. a - b + b = a /\ a - b + (b - 1) = a - 1
        BY <3>1
    <3> QED BY <3>2, <3>3 DEF W, a, b
  <2>3. TruthAt(t, i, Len(t)) <=> TruthAt(s, i, Len(s))
    <3>1. TruthAt(t, i, Len(t)) <=> TruthAt(s, i, Len(s) - Len(t) + Len(t))
        BY <1>1, <1>3, <1>7, <2>2, TruthAgrees
    <3> QED BY <2>2, <3>1
  <2>4. TruthAt(t, i, Len(t) - 1) <=> TruthAt(s, i, Len(s) - 1)
    <3>1. TruthAt(t, i, Len(t) - 1) <=> TruthAt(s, i, Len(s) - Len(t) + (Len(t) - 1))
        BY <1>1, <1>3, <1>7, <2>2, TruthAgrees
    <3> QED BY <2>2, <3>1
  <2>5. hist # <<>>
    <3>1. hist = <<>> => s = <<>>
        BY NoCloses DEF s
    <3>2. Len(<<>>) = 0
        OBVIOUS
    <3> QED BY <2>2, <3>1, <3>2
  <2>6. RuleFires(t, i, Last(hist)) <=> RuleFires(s, i, Last(hist))
      BY <2>3, <2>4 DEF RuleFires
  <2> QED BY <1>2, <1>3, <1>7, <2>5, <2>6 DEF FiredIn
<1>8. ASSUME cfg.kind = "ma", n >= cfg.slow
      PROVE  live.st.closes = test.st.closes /\ live.st.above = test.st.above
  <2>1. cfg.slow \in Nat
      BY <1>1, <1>8 DEF ValidParams
  <2>2. cfg.slow <= Len(t) /\ cfg.slow <= Len(s)
      BY <1>1, <1>4, <1>8, <2>1
  <2>3. Recent(s, cfg.slow) = Recent(t, cfg.slow)
      BY <1>1, <1>3, <2>1, <2>2, RecentAgrees
  <2> QED BY <1>2, <1>3, <1>8, <2>2, <2>3 DEF Remembers
<1>9. ASSUME cfg.kind = "momentum", n >= cfg.lookback + 1
      PROVE  live.st.closes = test.st.closes
  <2>1. cfg.lookback + 1 \in Nat
      BY <1>1, <1>9 DEF ValidParams
  <2>2. cfg.lookback + 1 <= Len(t)
      BY <1>1, <1>4, <1>9, <2>1
  <2>3. Recent(s, cfg.lookback + 1) = Recent(t, cfg.lookback + 1)
      BY <1>1, <1>3, <2>1, <2>2, RecentAgrees
  <2> QED BY <1>2, <1>3, <1>9, <2>3 DEF Remembers
<1> QED BY <1>5, <1>6, <1>7, <1>8, <1>9
\* A bar keeps what the two sides remember.
LEMMA MemoryStep ==
    ASSUME MemoryInv, NEW bar \in Bars, BarComes(bar), BaseInv'
    PROVE  MemoryInv'
<1> DEFINE s == CloseList(hist)
           t == CloseList(SeenBars)
<1>1. /\ hist' = Append(hist, bar) /\ hist \in Seq(Bars) /\ sc' = sc /\ cfg' = cfg
      /\ ValidParams(cfg) /\ BaseInv /\ StateOK(cfg, test.st) /\ StateOK(cfg, live.st)
      /\ TestBar(bar) /\ bar.close \in Nat /\ InputsOK'
    BY ReplayAssumption DEF MemoryInv, BarComes, BaseInv, InputsOK, TestOK, LiveOK, cfg, Bars
<1>2. SeenBars \in Seq(Bars) /\ s \in Seq(Nat) /\ t \in Seq(Nat)
    BY <1>1, SeenOK, CloseListOK
<1>3. CloseList(hist)' = NewCloses(s, bar)
  <2>1. CloseList(hist') = NewCloses(s, bar)
      BY <1>1, CloseListAppend DEF NewCloses
  <2>2. CloseList(hist)' = CloseList(hist')
      BY DEF CloseList, Closes, Positive
  <2> QED BY <2>1, <2>2
<1> HIDE DEF s, t
<1>4. Remembers(test.st, s) /\ FiredIn(hist, test.st, s)
    BY DEF MemoryInv, s
<1>5. test'.st = Step(test.st, bar).st
    BY <1>1, TestBarStep
<1>6. ASSUME NEW st, StateOK(cfg, st), NEW closes \in Seq(Nat), Remembers(st, closes),
             FiredIn(hist, st, closes)
      PROVE  /\ Remembers(Step(st, bar).st, NewCloses(closes, bar))
             /\ FiredIn(hist', Step(st, bar).st, NewCloses(closes, bar))
    BY <1>1, <1>6, RemembersStep, FiredStep
<1>7. Remembers(test.st, CloseList(hist))' /\ FiredIn(hist, test.st, CloseList(hist))'
  <2>1. Remembers(test'.st, NewCloses(s, bar)) /\ FiredIn(hist', test'.st, NewCloses(s, bar))
      BY <1>1, <1>2, <1>4, <1>5, <1>6
  <2> QED BY <1>1, <1>3, <2>1 DEF Remembers, FiredIn, RuleMemory, ValuesAfter, TrueAfter, TruthAt,
                                  Above, RuleFires, cfg
<1>8. ASSUME sc.class = "crypto", phase' = "running"
      PROVE  (/\ Ends(CloseList(hist), CloseList(SeenBars))
              /\ Remembers(live.st, CloseList(SeenBars)) /\ FiredIn(hist, live.st, CloseList(SeenBars)))'
  <2>1. ~(phase \in {"off", "tripped"} /\ UNCHANGED liveVars)
      BY <1>8 DEF liveVars
  <2>2. LiveBar(bar, due')
      BY <2>1 DEF BarComes
  <2>3. phase = "running"
      BY <1>1, <1>8, <2>1 DEF BarComes, BaseInv, LiveOK
  <2>4. PICK early : BotTrades(bar, due', early)
      BY <1>1, <1>8, <2>2, LiveBarCases DEF BotIdles, IsOpen
  <2>5. live'.st = Step(live.st, bar).st /\ seen' = Append(seen, Len(hist) + 1)
    <3>1. live'.st = Step(live.st, bar).st
        BY <1>1, <2>4, BotTradesStep
    <3> QED BY <2>4, <3>1 DEF BotTrades
  <2>6. SeenBars' = Append(SeenBars, bar)
    <3> DEFINE a == SeenBars
               b == Append(a, bar)
               k == Len(seen)
    <3>1. /\ seen \in Seq(Nat) /\ \A i \in DOMAIN seen : seen[i] \in DOMAIN hist
          /\ Len(a) = k /\ a \in Seq(Bars) /\ \A i \in DOMAIN seen : a[i] = hist[seen[i]]
        BY <1>1, SeenOK DEF BaseInv, LiveOK, SeenBars
    <3>2. /\ Len(hist) \in Nat /\ Len(hist) + 1 \in Nat /\ hist'[Len(hist) + 1] = bar
          /\ \A i \in DOMAIN hist : hist'[i] = hist[i]
        BY <1>1, OneMore
    <3>3. /\ DOMAIN seen' = 1 .. k + 1 /\ DOMAIN seen = 1 .. k /\ seen'[k + 1] = Len(hist) + 1
          /\ k \in Nat /\ \A i \in 1 .. k : seen'[i] = seen[i]
        BY <2>5, <3>1, <3>2, OneMore
    <3>4. SeenBars' = [i \in 1 .. k + 1 |-> hist'[seen'[i]]]
        BY <3>3 DEF SeenBars
    <3> HIDE DEF a
    <3>5. /\ b = [i \in 1 .. k + 1 |-> b[i]] /\ b[k + 1] = bar /\ \A i \in 1 .. k : b[i] = a[i]
      <4>1. b \in Seq(Bars) /\ Len(b) = k + 1
          BY <3>1, OneMore
      <4>2. b[k + 1] = bar /\ \A i \in 1 .. k : b[i] = a[i]
          BY <3>1, OneMore
      <4> HIDE DEF b, k
      <4>3. b = [i \in 1 .. k + 1 |-> b[i]]
          BY <4>1
      <4> QED BY <4>2, <4>3
    <3> HIDE DEF b, k
    <3>6. ASSUME NEW i \in 1 .. k + 1 PROVE hist'[seen'[i]] = b[i]
      <4>1. CASE i = k + 1
          BY <3>2, <3>3, <3>5, <4>1
      <4>2. CASE i \in 1 .. k
        <5>1. i \in DOMAIN seen /\ seen'[i] = seen[i] /\ b[i] = a[i] /\ a[i] = hist[seen[i]]
            BY <3>1, <3>3, <3>5, <4>2
        <5>2. hist'[seen[i]] = hist[seen[i]]
            BY <3>1, <3>2, <5>1
        <5> QED BY <5>1, <5>2
      <4> QED BY <3>3, <4>1, <4>2
    <3> QED BY <3>4, <3>5, <3>6 DEF a, b
  <2>7. CloseList(SeenBars)' = NewCloses(t, bar)
    <3>1. CloseList(SeenBars') = NewCloses(t, bar)
        BY <1>2, <2>6, CloseListAppend DEF NewCloses, t
    <3>2. CloseList(SeenBars)' = CloseList(SeenBars')
        BY DEF CloseList, Closes, Positive
    <3> QED BY <3>1, <3>2
  <2>8. Ends(s, t) /\ Remembers(live.st, t) /\ FiredIn(hist, live.st, t)
      BY <1>8, <2>3 DEF MemoryInv, s, t
  <2>9. Ends(NewCloses(s, bar), NewCloses(t, bar))
      BY <1>1, <1>2, <2>8, EndsAppend DEF NewCloses
  <2>10. Remembers(live'.st, NewCloses(t, bar)) /\ FiredIn(hist', live'.st, NewCloses(t, bar))
      BY <1>1, <1>2, <1>6, <2>5, <2>8
  <2>11. Ends(CloseList(hist), CloseList(SeenBars))'
      BY <1>3, <2>7, <2>9 DEF Ends
  <2>12. Remembers(live.st, CloseList(SeenBars))' /\ FiredIn(hist, live.st, CloseList(SeenBars))'
      BY <1>1, <2>7, <2>10 DEF Remembers, FiredIn, RuleMemory, ValuesAfter, TrueAfter, TruthAt,
                               Above, RuleFires, cfg
  <2> QED BY <2>11, <2>12
<1> QED BY <1>1, <1>7, <1>8 DEF MemoryInv

\* Nothing is forgotten between two bars.
LEMMA Remembered ==
    ASSUME hist' = hist, sc' = sc, cfg' = cfg, test' = test, live' = live, seen' = seen
    PROVE  /\ Ends(CloseList(hist), CloseList(SeenBars))' <=> Ends(CloseList(hist), CloseList(SeenBars))
           /\ Remembers(test.st, CloseList(hist))' <=> Remembers(test.st, CloseList(hist))
           /\ FiredIn(hist, test.st, CloseList(hist))' <=> FiredIn(hist, test.st, CloseList(hist))
           /\ Remembers(live.st, CloseList(SeenBars))' <=> Remembers(live.st, CloseList(SeenBars))
           /\ FiredIn(hist, live.st, CloseList(SeenBars))' <=> FiredIn(hist, live.st, CloseList(SeenBars))
<1>1. CloseList(hist)' = CloseList(hist) /\ CloseList(SeenBars)' = CloseList(SeenBars)
    BY DEF CloseList, Closes, Positive, SeenBars
<1>2. Ends(CloseList(hist), CloseList(SeenBars))' <=> Ends(CloseList(hist), CloseList(SeenBars))
    BY <1>1 DEF Ends
<1>3. /\ Remembers(test.st, CloseList(hist))' <=> Remembers(test.st, CloseList(hist))
      /\ Remembers(live.st, CloseList(SeenBars))' <=> Remembers(live.st, CloseList(SeenBars))
    BY <1>1 DEF Remembers, RuleMemory, ValuesAfter, TrueAfter, TruthAt, Above, cfg
<1>4. /\ FiredIn(hist, test.st, CloseList(hist))' <=> FiredIn(hist, test.st, CloseList(hist))
      /\ FiredIn(hist, live.st, CloseList(SeenBars))' <=> FiredIn(hist, live.st, CloseList(SeenBars))
    BY <1>1 DEF FiredIn, RuleFires, TruthAt, cfg
<1> QED BY <1>2, <1>3, <1>4

\* A bot that joins in the middle of the stream computes what the backtest
\* computes from the whole history once it has seen the bars of its longest
\* window, and fires the same rules two bars later.
THEOREM WarmStarts == Spec => []WarmStartConverges
<1>1. Init => MemoryInv
  <2> SUFFICES ASSUME Init PROVE MemoryInv
      OBVIOUS
  <2>1. BaseInv /\ hist = <<>> /\ phase = "off" /\ test.st = FreshState(cfg)
      BY BaseInit DEF Init
  <2>2. ValidParams(cfg) /\ hist \in Seq(Bars) /\ CloseList(hist) = <<>>
      BY <2>1, NoCloses, ReplayAssumption DEF BaseInv, InputsOK, cfg
  <2> QED BY <2>1, <2>2, RemembersNothing, FiredNothing DEF MemoryInv
<1>2. MemoryInv /\ BaseInv' /\ [Next]_vars => MemoryInv'
  <2> SUFFICES ASSUME MemoryInv, BaseInv', [Next]_vars PROVE MemoryInv'
      OBVIOUS
  <2>1. BaseInv /\ ValidParams(cfg) /\ hist \in Seq(Bars)
      BY ReplayAssumption DEF MemoryInv, BaseInv, InputsOK, cfg
  <2>2. CASE UNCHANGED vars
    <3>1. /\ hist' = hist /\ sc' = sc /\ cfg' = cfg /\ test' = test /\ live' = live /\ seen' = seen
          /\ phase' = phase
        BY <2>2 DEF vars, testVars, liveVars, cfg
    <3> QED BY <3>1, Remembered DEF MemoryInv
  <2>3. CASE Joins
    <3>1. /\ hist' = hist /\ sc' = sc /\ cfg' = cfg /\ test' = test /\ live' = live /\ seen' = seen
          /\ phase = "off"
        BY <2>3 DEF Joins, testVars, cfg
    <3>2. live.st = FreshState(cfg) /\ seen = <<>>
        BY <2>1, <3>1 DEF BaseInv, LiveOK, StartOfLive
    <3>3. CloseList(SeenBars) = <<>>
      <4>1. DOMAIN seen = {}
          BY <3>2
      <4>2. SeenBars = <<>>
          BY <4>1 DEF SeenBars
      <4> QED BY <4>2, NoCloses
    <3>4. Remembers(live.st, CloseList(SeenBars)) /\ FiredIn(hist, live.st, CloseList(SeenBars))
        BY <2>1, <3>2, <3>3, RemembersNothing, FiredNothing
    <3>5. Ends(CloseList(hist), CloseList(SeenBars))
      <4>1. Len(<<>>) = 0 /\ Len(CloseList(hist)) \in Nat
          BY <2>1, CloseListOK
      <4> QED BY <3>3, <4>1 DEF Ends
    <3>6. Remembers(test.st, CloseList(hist)) /\ FiredIn(hist, test.st, CloseList(hist))
        BY DEF MemoryInv
    <3>7. /\ Remembers(test.st, CloseList(hist))' /\ FiredIn(hist, test.st, CloseList(hist))'
          /\ Ends(CloseList(hist), CloseList(SeenBars))'
          /\ Remembers(live.st, CloseList(SeenBars))' /\ FiredIn(hist, live.st, CloseList(SeenBars))'
        BY <3>1, <3>4, <3>5, <3>6, Remembered
    <3> QED BY <3>7 DEF MemoryInv
  <2>4. ASSUME NEW bar \in Bars, BarComes(bar) PROVE MemoryInv'
      BY <2>4, MemoryStep DEF BaseInv
  <2> QED BY <2>1, <2>2, <2>3, <2>4, NextCases
<1>3. MemoryInv => WarmStartConverges
    BY Converged
<1> QED BY <1>1, <1>2, <1>3, BaseHolds, PTL DEF Spec

-----------------------------------------------------------------------------
(* The orders of all bars.                                                 *)

\* The orders of one bar more come last.
LEMMA FlattenAppend ==
    ASSUME NEW U, NEW s \in Seq(Seq(U)), NEW x \in Seq(U)
    PROVE  /\ FlattenSeq(s) \in Seq(U)
           /\ FlattenSeq(Append(s, x)) = FlattenSeq(s) \o x
<1> DEFINE t == Append(s, x)
           n == Len(s)
<1>1. t \in Seq(Seq(U)) /\ Len(t) = n + 1 /\ n \in Nat /\ t[n + 1] = x /\ \A k \in 1 .. n : t[k] = s[k]
    BY OneMore
<1> HIDE DEF t
<1>2. /\ Flattening(t)[1] = t[1] /\ FlattenSeq(t) = Flattening(t)[n + 1]
      /\ \A k \in 2 .. n + 1 : Flattening(t)[k] = Flattening(t)[k - 1] \o t[k]
  <2>1. Len(t) # 0 /\ Len(t) = n + 1
      BY <1>1
  <2>2. /\ Flattening(t)[1] = t[1] /\ FlattenSeq(t) = Flattening(t)[Len(t)]
        /\ \A k \in 2 .. Len(t) : Flattening(t)[k] = Flattening(t)[k - 1] \o t[k]
      BY <1>1, <2>1, FlattenExists
  <2> QED BY <2>1, <2>2
<1>3. CASE n = 0
  <2>1. FlattenSeq(s) = s /\ s = <<>>
      BY <1>3 DEF FlattenSeq
  <2>2. FlattenSeq(t) = x
      BY <1>1, <1>2, <1>3
  <2>3. <<>> \o x = x /\ <<>> \in Seq(U)
      OBVIOUS
  <2> QED BY <2>1, <2>2, <2>3 DEF t
<1>4. CASE n # 0
  <2>1. /\ Flattening(s) \in [1 .. n -> Seq(U)] /\ Flattening(s)[1] = s[1]
        /\ FlattenSeq(s) = Flattening(s)[n]
        /\ \A k \in 2 .. n : Flattening(s)[k] = Flattening(s)[k - 1] \o s[k]
      BY <1>4, FlattenExists
  <2> DEFINE a == Flattening(s)
             b == Flattening(t)
             m == n - 1
             Q == {k \in 0 .. m : a[k + 1] = b[k + 1]}
  <2> HIDE DEF a, b, n
  <2>2. m \in Nat /\ m + 1 = n
      BY <1>1, <1>4
  <2>3. 0 \in Q
    <3>1. t[1] = s[1]
        BY <1>1, <2>2
    <3> QED BY <1>2, <2>1, <2>2, <3>1 DEF a, b
  <2>4. ASSUME NEW k \in 0 .. m - 1, k \in Q PROVE k + 1 \in Q
    <3>1. /\ k + 2 \in 2 .. n /\ k + 2 \in 2 .. n + 1 /\ (k + 2) - 1 = k + 1 /\ (k + 1) + 1 = k + 2
          /\ k + 1 \in 0 .. m /\ k + 2 \in 1 .. n
        BY <2>2
    <3>2. a[k + 2] = a[k + 1] \o s[k + 2]
        BY <2>1, <3>1 DEF a
    <3>3. b[k + 2] = b[k + 1] \o t[k + 2]
        BY <1>2, <3>1 DEF b
    <3>4. t[k + 2] = s[k + 2]
        BY <1>1, <3>1
    <3>5. a[k + 2] = b[k + 2]
        BY <2>4, <3>2, <3>3, <3>4
    <3> QED BY <3>1, <3>5
  <2>5. 0 .. m \subseteq Q
    <3> HIDE DEF Q, m
    <3> QED BY <2>2, <2>3, <2>4, BoundedInduction
  <2>6. a[n] = b[n]
    <3>1. m \in Q
        BY <2>2, <2>5
    <3> QED BY <2>2, <3>1
  <2>7. b[n + 1] = b[n] \o t[n + 1]
    <3>1. n + 1 \in 2 .. n + 1 /\ (n + 1) - 1 = n
        BY <2>2
    <3> QED BY <1>2, <3>1 DEF b
  <2>8. a[n] \in Seq(U)
    <3>1. n \in 1 .. n
        BY <2>2
    <3> QED BY <2>1, <3>1 DEF a
  <2> QED BY <1>1, <1>2, <2>1, <2>6, <2>7, <2>8 DEF a, b, t
<1> QED BY <1>3, <1>4

-----------------------------------------------------------------------------
(* What a bar does in the backtest, for the contracts of the strategies.   *)

Buying == {m \in 1 .. Len(hist) : acts[m] # <<>>}
\* What a bar adds to the history of the backtest.
LEMMA ActsStep ==
    ASSUME BaseInv, NEW bar \in Bars, BarComes(bar)
    PROVE  LET step == Step(test.st, bar)
           IN  /\ hist' = Append(hist, bar) /\ sc' = sc /\ cfg' = cfg /\ hist \in Seq(Bars)
               /\ test'.st = step.st /\ acts' = Append(acts, step.intents)
               /\ acts \in Seq(Seq(Intents)) /\ step.intents \in Seq(Intents)
               /\ StepOK(cfg, step) /\ ValidParams(cfg) /\ StateOK(cfg, test.st)
               /\ Len(acts) = Len(hist) /\ Len(hist) \in Nat /\ Len(hist') = Len(hist) + 1
               /\ hist'[Len(hist) + 1] = bar /\ \A m \in 1 .. Len(hist) : hist'[m] = hist[m]
               /\ acts'[Len(hist) + 1] = step.intents /\ \A m \in 1 .. Len(hist) : acts'[m] = acts[m]
               /\ FlattenSeq(acts) \in Seq(Intents)
               /\ FlattenSeq(acts') = FlattenSeq(acts) \o step.intents
<1> DEFINE step == Step(test.st, bar)
<1>1. /\ hist' = Append(hist, bar) /\ sc' = sc /\ cfg' = cfg /\ hist \in Seq(Bars) /\ ValidParams(cfg)
      /\ StateOK(cfg, test.st) /\ acts \in Seq(Seq(Intents)) /\ Len(acts) = Len(hist) /\ TestBar(bar)
    BY ReplayAssumption DEF BarComes, BaseInv, InputsOK, TestOK, cfg
<1>2. StepOK(cfg, step) /\ test'.st = step.st /\ acts' = Append(acts, step.intents)
    BY <1>1, TestBarStep
<1>3. step.intents \in Seq(Intents)
    BY <1>2 DEF StepOK
<1> HIDE DEF step
<1>4. /\ Len(hist') = Len(hist) + 1 /\ hist'[Len(hist) + 1] = bar /\ Len(hist) \in Nat
      /\ \A m \in 1 .. Len(hist) : hist'[m] = hist[m]
    BY <1>1, OneMore
<1>5. acts'[Len(hist) + 1] = step.intents /\ \A m \in 1 .. Len(hist) : acts'[m] = acts[m]
    BY <1>1, <1>2, <1>3, OneMore
<1>6. FlattenSeq(acts) \in Seq(Intents) /\ FlattenSeq(acts') = FlattenSeq(acts) \o step.intents
    BY <1>1, <1>2, <1>3, FlattenAppend
<1> QED BY <1>1, <1>2, <1>3, <1>4, <1>5, <1>6 DEF step

\* A bot that buys at intervals remembers its last buy.
DcaInv == DcaCadence /\ Latest(test.st.last, Buying, hist)
\* A bar keeps it.
LEMMA DcaKeeps ==
    ASSUME BaseInv, NEW bar \in Bars, BarComes(bar), InputsOK', cfg.kind = "dca", DcaInv
    PROVE  DcaInv'
<1> DEFINE step == Step(test.st, bar)
           n == Len(hist)
           t == test.st.last
           d == cfg.interval
<1>1. /\ hist' = Append(hist, bar) /\ sc' = sc /\ cfg' = cfg /\ hist \in Seq(Bars)
      /\ test'.st = step.st /\ step.intents \in Seq(Intents)
      /\ ValidParams(cfg) /\ StateOK(cfg, test.st)
      /\ n \in Nat /\ Len(hist') = n + 1
      /\ hist'[n + 1] = bar /\ \A m \in 1 .. n : hist'[m] = hist[m]
      /\ acts'[n + 1] = step.intents /\ \A m \in 1 .. n : acts'[m] = acts[m]
    BY ActsStep
<1>2. d \in Nat \ {0} /\ DOMAIN hist' = 1 .. n + 1 /\ DOMAIN hist = 1 .. n /\ bar.close \in Nat
      /\ bar.ts \in Nat
    BY <1>1 DEF ValidParams, Bars
<1>3. \A a, b \in 1 .. n + 1 : a < b => Append(hist, bar)[a].ts < Append(hist, bar)[b].ts
  <2>1. \A a, b \in DOMAIN hist' : a < b => hist'[a].ts < hist'[b].ts
      BY DEF InputsOK
  <2> QED BY <1>1, <1>2, <2>1
<1>4. Buying \in SUBSET (1 .. n) /\ Latest(t, Buying, hist)
    BY DEF Buying, DcaInv
<1> HIDE DEF t, d, n
<1>5. /\ t # bar.ts /\ Latest(t, Buying, hist') /\ Latest(bar.ts, Buying \cup {n + 1}, hist')
      /\ (t = NoTime \/ bar.ts - t >= d) <=> \A m \in Buying : bar.ts - hist[m].ts >= d
  <2> DEFINE B == Buying
  <2>1. B \in SUBSET (1 .. Len(hist)) /\ Latest(t, B, hist) /\ d \in Nat /\ d # 0
      BY <1>2, <1>4 DEF n
  <2>2. \A i, j \in 1 .. Len(hist) + 1 :
            i < j => Append(hist, bar)[i].ts < Append(hist, bar)[j].ts
      BY <1>3 DEF n
  <2> HIDE DEF B
  <2>3. /\ t # bar.ts /\ Latest(t, B, Append(hist, bar))
        /\ Latest(bar.ts, B \cup {Len(hist) + 1}, Append(hist, bar))
        /\ \A e \in Nat : (e = 0 \/ t = NoTime \/ bar.ts - t >= e) <=>
                               \A m \in B : bar.ts - hist[m].ts >= e
      BY <1>1, <2>1, <2>2, LatestStep
  <2>4. (d = 0 \/ t = NoTime \/ bar.ts - t >= d) <=> \A m \in B : bar.ts - hist[m].ts >= d
      BY <2>1, <2>3
  <2> QED BY <1>1, <2>1, <2>3, <2>4 DEF B, n
<1>6. t \in Int /\ bar.ts \in Nat
    BY <1>1 DEF StateOK, t, Bars
<1>7. IF bar.close > 0 /\ (t = NoTime \/ bar.ts - t >= d)
      THEN step.intents # <<>> /\ step.st.last = bar.ts
      ELSE step.intents = <<>> /\ step.st.last = t
  <2>1. CASE bar.close = 0
    <3>1. step.st = test.st /\ step.intents = <<>>
        BY <1>1, <2>1, OnBarStep DEF Step
    <3> QED BY <2>1, <3>1 DEF t
  <2>2. CASE bar.close # 0
    <3>1. step = DcaBar(cfg, test.st, bar)
        BY <1>1, <2>2, OnBarKinds DEF Step
    <3>2. IF t # NoTime /\ bar.ts - t < d
          THEN step.st = test.st /\ step.intents = <<>>
          ELSE step.st.last = bar.ts /\ step.intents # <<>>
        BY <1>1, <2>2, <3>1, DcaStep DEF t, d
    <3>3. (t # NoTime /\ bar.ts - t < d) <=> ~(t = NoTime \/ bar.ts - t >= d)
        BY <1>2, <1>6
    <3>4. bar.close > 0
        BY <1>2, <2>2
    <3> HIDE DEF step
    <3> QED BY <3>2, <3>3, <3>4 DEF t
  <2> QED BY <2>1, <2>2
<1> HIDE DEF step
<1>8. Buying' = IF step.intents # <<>> THEN Buying \cup {n + 1} ELSE Buying
  <2>1. Buying' = {m \in 1 .. n + 1 : acts'[m] # <<>>}
      BY <1>1 DEF Buying
  <2>2. 1 .. n + 1 = (1 .. n) \cup {n + 1} /\ n + 1 \notin 1 .. n
      BY <1>1
  <2>3. Buying = {m \in 1 .. n : acts[m] # <<>>}
      BY DEF Buying, n
  <2> QED BY <1>1, <2>1, <2>2, <2>3
<1>9. Latest(test'.st.last, Buying', hist')
    BY <1>1, <1>5, <1>7, <1>8
<1>10. step.intents # <<>> <=> bar.close > 0 /\ \A m \in 1 .. n : acts[m] # <<>> => bar.ts - hist[m].ts >= d
    BY <1>5, <1>7 DEF Buying, n
<1>11. DcaCadence'
  <2> SUFFICES ASSUME NEW k \in 1 .. n + 1
               PROVE  acts'[k] # <<>> <=>
                          /\ hist'[k].close > 0
                          /\ \A m \in 1 .. k - 1 : acts'[m] # <<>> => hist'[k].ts - hist'[m].ts >= d
      BY <1>1, <1>2 DEF DcaCadence, d
  <2>1. CASE k = n + 1
    <3>1. k - 1 = n
        BY <1>1, <2>1
    <3> QED BY <1>1, <1>10, <2>1, <3>1
  <2>2. CASE k # n + 1
    <3>1. k \in 1 .. n /\ \A m \in 1 .. k - 1 : m \in 1 .. n
        BY <1>1, <2>2
    <3>2. acts[k] # <<>> <=>
              /\ hist[k].close > 0
              /\ \A m \in 1 .. k - 1 : acts[m] # <<>> => hist[k].ts - hist[m].ts >= d
        BY <1>2, <3>1 DEF DcaInv, DcaCadence, d
    <3> QED BY <1>1, <3>1, <3>2
  <2> QED BY <2>1, <2>2
<1>12. Latest(test.st.last, Buying, hist)'
    BY <1>9 DEF Latest
<1> QED BY <1>11, <1>12 DEF DcaInv

\* A bot with one position alternates between buying and selling what it bought.
Alternates(orders) ==
    \A j \in 1 .. Len(orders) :
        /\ orders[j].side = IF j % 2 = 1 THEN "buy" ELSE "sell"
        /\ j % 2 = 0 => orders[j].qty = orders[j - 1].qty
PairsUp(orders, st) ==
    /\ Alternates(orders)
    /\ st.inPosition <=> Len(orders) % 2 = 1
    /\ st.inPosition => orders[Len(orders)].qty = st.held
\* A step of the position keeps the orders in pairs.
LEMMA PairsStep ==
    ASSUME NEW orders \in Seq(Intents), NEW p, NEW st, NEW step, StateOK(p, st), StepOK(p, step),
           PositionStep(st, step), PairsUp(orders, st)
    PROVE  PairsUp(orders \o step.intents, step.st)
<1> DEFINE n == Len(orders)
<1>1. /\ st.inPosition \in BOOLEAN /\ step.st.inPosition \in BOOLEAN /\ st.held \in Nat
      /\ step.st.held \in Nat /\ n \in Nat
    BY DEF StateOK, StepOK
<1>2. CASE step.intents = <<>> /\ step.st.inPosition = st.inPosition /\ step.st.held = st.held
  <2>1. orders \o <<>> = orders
      OBVIOUS
  <2> QED BY <1>2, <2>1 DEF PairsUp
<1>3. ASSUME NEW x \in Intents,
             \/ /\ ~st.inPosition /\ step.st.inPosition /\ x.side = "buy" /\ x.qty = step.st.held
             \/ /\ st.inPosition /\ ~step.st.inPosition /\ x.side = "sell" /\ x.qty = st.held
      PROVE  PairsUp(orders \o <<x>>, step.st)
  <2> DEFINE new == Append(orders, x)
  <2>1. orders \o <<x>> = new
      OBVIOUS
  <2>2. Len(new) = n + 1 /\ new[n + 1] = x /\ \A k \in 1 .. n : new[k] = orders[k]
      BY OneMore
  <2> HIDE DEF new
  <2>3. (n + 1) % 2 = 1 <=> n % 2 # 1
      BY <1>1
  <2>4. (n % 2 = 1 => n \in 1 .. n /\ (n + 1) % 2 = 0) /\ (n % 2 # 1 => (n + 1) % 2 = 1)
      BY <1>1
  <2>5. new[n + 1].side = IF (n + 1) % 2 = 1 THEN "buy" ELSE "sell"
      BY <1>3, <2>2, <2>3 DEF PairsUp
  <2>6. (n + 1) % 2 = 0 => new[n + 1].qty = new[n].qty
      BY <1>3, <2>2, <2>3, <2>4 DEF PairsUp
  <2>7. \A k \in 1 .. n : k - 1 \in 1 .. n \/ k = 1
      BY <1>1
  <2>8. \A k \in 1 .. n : /\ new[k].side = IF k % 2 = 1 THEN "buy" ELSE "sell"
                          /\ k % 2 = 0 => new[k].qty = new[k - 1].qty
    <3> SUFFICES ASSUME NEW k \in 1 .. n
                 PROVE  /\ new[k].side = IF k % 2 = 1 THEN "buy" ELSE "sell"
                        /\ k % 2 = 0 => new[k].qty = new[k - 1].qty
        OBVIOUS
    <3>1. /\ orders[k].side = IF k % 2 = 1 THEN "buy" ELSE "sell"
          /\ k % 2 = 0 => orders[k].qty = orders[k - 1].qty
        BY DEF PairsUp, Alternates
    <3>2. k % 2 = 0 => k # 1
        BY <1>1
    <3> QED BY <2>2, <2>7, <3>1, <3>2
  <2>9. Alternates(new)
    <3> SUFFICES ASSUME NEW k \in 1 .. n + 1
                 PROVE  /\ new[k].side = IF k % 2 = 1 THEN "buy" ELSE "sell"
                        /\ k % 2 = 0 => new[k].qty = new[k - 1].qty
        BY <2>2 DEF Alternates
    <3>1. CASE k = n + 1
      <4>1. k - 1 = n
          BY <1>1, <3>1
      <4> QED BY <2>5, <2>6, <3>1, <4>1
    <3>2. CASE k # n + 1
      <4>1. k \in 1 .. n
          BY <1>1, <3>2
      <4> QED BY <2>8, <4>1
    <3> QED BY <3>1, <3>2
  <2> QED BY <1>3, <2>1, <2>2, <2>3, <2>9 DEF PairsUp
<1>4. CASE ~st.inPosition /\ step.st.inPosition /\ step.intents = <<Market("buy", step.st.held)>>
  <2>1. Market("buy", step.st.held) \in Intents
      BY <1>1, MarketOK
  <2>2. Market("buy", step.st.held).side = "buy" /\ Market("buy", step.st.held).qty = step.st.held
      BY DEF Market
  <2> QED BY <1>3, <1>4, <2>1, <2>2
<1>5. CASE /\ st.inPosition /\ ~step.st.inPosition /\ step.st.held = 0
           /\ step.intents = <<Market("sell", st.held)>>
  <2>1. Market("sell", st.held) \in Intents
      BY <1>1, MarketOK
  <2>2. Market("sell", st.held).side = "sell" /\ Market("sell", st.held).qty = st.held
      BY DEF Market
  <2> QED BY <1>3, <1>5, <2>1, <2>2
<1> QED BY <1>2, <1>4, <1>5 DEF PositionStep

\* The position of a crossover or momentum bot changes as its orders say.
LEMMA Positions ==
    ASSUME ValidParams(cfg), cfg.kind \in {"ma", "momentum"}, NEW st, StateOK(cfg, st),
           NEW bar \in Bars
    PROVE  PositionStep(st, Step(st, bar))
<1> DEFINE step == Step(st, bar)
<1>1. CASE bar.close = 0
  <2>1. step.st = st /\ step.intents = <<>>
      BY <1>1, OnBarStep DEF Step
  <2> QED BY <2>1 DEF PositionStep
<1>2. CASE bar.close # 0 /\ cfg.kind = "ma"
  <2>1. step = MaBar(cfg, st, bar)
      BY <1>2, OnBarKinds DEF Step
  <2> QED BY <1>2, <2>1, MaStep
<1>3. CASE bar.close # 0 /\ cfg.kind = "momentum"
  <2>1. step = MomentumBar(cfg, st, bar)
      BY <1>3, OnBarKinds DEF Step
  <2> QED BY <1>3, <2>1, MomentumStep
<1> QED BY <1>1, <1>2, <1>3

PositionInv == PairsUp(Orders, test.st)
\* A bar keeps it.
LEMMA PositionKeeps ==
    ASSUME BaseInv, NEW bar \in Bars, BarComes(bar), cfg.kind \in {"ma", "momentum"}, PositionInv
    PROVE  PositionInv'
<1> DEFINE step == Step(test.st, bar)
<1>1. /\ test'.st = step.st /\ StepOK(cfg, step) /\ ValidParams(cfg) /\ StateOK(cfg, test.st)
      /\ FlattenSeq(acts) \in Seq(Intents) /\ FlattenSeq(acts') = FlattenSeq(acts) \o step.intents
    BY ActsStep
<1>2. PositionStep(test.st, step)
    BY <1>1, Positions
<1> HIDE DEF step
<1>3. PairsUp(FlattenSeq(acts) \o step.intents, step.st)
    BY <1>1, <1>2, PairsStep DEF PositionInv, Orders
<1>4. PairsUp(FlattenSeq(acts'), test'.st)
    BY <1>1, <1>3
<1> QED BY <1>4 DEF PositionInv, Orders
\* It is what OnePosition asks for.
LEMMA PositionsAlternate ==
    ASSUME BaseInv, PositionInv
    PROVE  OnePosition
<1>1. acts \in Seq(Seq(Intents))
    BY DEF BaseInv, TestOK
<1>2. FlattenSeq(acts) \in Seq(Intents)
    BY <1>1, FlattenAppend
<1>3. DOMAIN Orders = 1 .. Len(Orders)
    BY <1>2 DEF Orders
<1> QED BY <1>3 DEF PositionInv, PairsUp, Alternates, OnePosition

-----------------------------------------------------------------------------
(* The orders of a grid, and the buys among them that no sell has undone.  *)

BoughtIn(orders, a, b) == Cardinality({k \in a .. b : orders[k].side = "buy"})
HeldIn(orders, a, b) == 2 * BoughtIn(orders, a, b) - (b - a + 1)
Change(x) == IF x.side = "buy" THEN 1 ELSE -1
\* One order more changes what is held by one.
LEMMA HeldStep ==
    ASSUME NEW orders \in Seq(Intents), NEW x \in Intents
    PROVE  LET n == Len(orders)
               new == Append(orders, x)
           IN  /\ \A a \in 1 .. n + 1 : \A b \in a - 1 .. n :
                     /\ HeldIn(orders, a, b) \in Int
                     /\ HeldIn(new, a, b) = HeldIn(orders, a, b)
               /\ \A a \in 1 .. n + 1 :
                     HeldIn(new, a, n + 1) = HeldIn(orders, a, n) + Change(x)
               /\ HeldIn(orders, n + 1, n) = 0
<1> DEFINE n == Len(orders)
           new == Append(orders, x)
<1>1. Len(new) = n + 1 /\ new[n + 1] = x /\ n \in Nat /\ \A k \in 1 .. n : new[k] = orders[k]
    BY OneMore
<1> HIDE DEF new, n
<1>2. ASSUME NEW a \in 1 .. n + 1, NEW b \in a - 1 .. n
      PROVE  /\ HeldIn(orders, a, b) \in Int
             /\ HeldIn(new, a, b) = HeldIn(orders, a, b)
  <2> DEFINE S == {k \in a .. b : orders[k].side = "buy"}
             T == {k \in a .. b : new[k].side = "buy"}
  <2>1. a \in Int /\ b \in Int /\ \A k \in a .. b : k \in 1 .. n
      BY <1>1
  <2>2. S = T
      BY <1>1, <2>1
  <2>3. Cardinality(S) \in Nat
    <3>1. IsFiniteSet(a .. b) /\ S \subseteq a .. b
        BY <2>1, FS_Interval
    <3> HIDE DEF S
    <3>2. IsFiniteSet(S)
        BY <3>1, FS_Subset
    <3> QED BY <3>2, FS_CardinalityType
  <2> HIDE DEF S, T
  <2>4. BoughtIn(orders, a, b) \in Nat /\ BoughtIn(new, a, b) = BoughtIn(orders, a, b)
      BY <2>2, <2>3 DEF BoughtIn, S, T
  <2> QED BY <2>1, <2>4 DEF HeldIn
<1>3. ASSUME NEW a \in 1 .. n + 1
      PROVE  HeldIn(new, a, n + 1) = HeldIn(orders, a, n) + Change(x)
  <2> DEFINE S == {k \in a .. n : orders[k].side = "buy"}
             T == {k \in a .. n + 1 : new[k].side = "buy"}
  <2>1. a \in Int /\ a .. n + 1 = (a .. n) \cup {n + 1} /\ n + 1 \notin a .. n
        /\ \A k \in a .. n : k \in 1 .. n
      BY <1>1
  <2>2. T = IF x.side = "buy" THEN S \cup {n + 1} ELSE S
      BY <1>1, <2>1
  <2>3. IsFiniteSet(S)
    <3>1. IsFiniteSet(a .. n) /\ S \subseteq a .. n
        BY <1>1, <2>1, FS_Interval
    <3> HIDE DEF S
    <3> QED BY <3>1, FS_Subset
  <2>4. n + 1 \notin S
      BY <2>1
  <2> HIDE DEF S, T
  <2>5. Cardinality(S) \in Nat /\ Cardinality(S \cup {n + 1}) = Cardinality(S) + 1
      BY <2>3, <2>4, FS_AddElement, FS_CardinalityType
  <2>6. /\ BoughtIn(orders, a, n) \in Nat
        /\ BoughtIn(new, a, n + 1) = IF x.side = "buy" THEN BoughtIn(orders, a, n) + 1
                                                       ELSE BoughtIn(orders, a, n)
      BY <2>2, <2>5 DEF BoughtIn, S, T
  <2> DEFINE p == BoughtIn(orders, a, n)
             q == BoughtIn(new, a, n + 1)
  <2>7. HeldIn(new, a, n + 1) = 2 * q - ((n + 1) - a + 1) /\ HeldIn(orders, a, n) = 2 * p - (n - a + 1)
    <3>1. HeldIn(new, a, n + 1) = 2 * q - ((n + 1) - a + 1)
        BY DEF HeldIn
    <3>2. HeldIn(orders, a, n) = 2 * p - (n - a + 1)
        BY DEF HeldIn
    <3> QED BY <3>1, <3>2
  <2> HIDE DEF p, q
  <2>8. p \in Nat /\ q = IF x.side = "buy" THEN p + 1 ELSE p
      BY <2>6 DEF p, q
  <2>9. Change(x) = IF x.side = "buy" THEN 1 ELSE -1
      BY DEF Change
  <2>10. CASE x.side = "buy"
      BY <1>1, <2>1, <2>7, <2>8, <2>9, <2>10
  <2>11. CASE x.side # "buy"
      BY <1>1, <2>1, <2>7, <2>8, <2>9, <2>11
  <2> QED BY <2>10, <2>11
<1>4. HeldIn(orders, n + 1, n) = 0
  <2>1. {k \in n + 1 .. n : orders[k].side = "buy"} = {} /\ n - (n + 1) + 1 = 0
      BY <1>1
  <2>2. BoughtIn(orders, n + 1, n) = 0
      BY <2>1, FS_EmptySet DEF BoughtIn
  <2> QED BY <2>1, <2>2 DEF HeldIn
<1> QED BY <1>2, <1>3, <1>4 DEF new, n

\* A sell undoes the latest buy that no sell has undone; the buys that are left
\* are the lots, the oldest first.
UndoneBy(orders, j, i) ==
    /\ orders[i].side = "buy" /\ orders[i].qty = orders[j].qty
    /\ HeldIn(orders, i, j) = 0
    /\ \A k \in i .. j : HeldIn(orders, i, k) >= 0
Undoes(orders) ==
    \A j \in 1 .. Len(orders) :
        orders[j].side = "sell" => \E i \in 1 .. j - 1 : UndoneBy(orders, j, i)
StackedAt(orders, lots, p, i) ==
    /\ orders[i].side = "buy" /\ orders[i].qty = lots[p]
    /\ HeldIn(orders, i, Len(orders)) = Len(lots) - p + 1
    /\ \A k \in i .. Len(orders) : HeldIn(orders, i, k) >= 1
Stacked(orders, lots) ==
    /\ HeldIn(orders, 1, Len(orders)) = Len(lots)
    /\ \A p \in 1 .. Len(lots) : \E i \in 1 .. Len(orders) : StackedAt(orders, lots, p, i)
GridOrders(orders, lots) == Undoes(orders) /\ Stacked(orders, lots)

\* One more order does not touch how earlier orders undo each other.
LEMMA UndoesStep ==
    ASSUME NEW orders \in Seq(Intents), NEW x \in Intents, Undoes(orders),
           x.side = "sell" =>
               \E i \in 1 .. Len(orders) : UndoneBy(Append(orders, x), Len(orders) + 1, i)
    PROVE  Undoes(Append(orders, x))
<1> DEFINE n == Len(orders)
           new == Append(orders, x)
<1>1. Len(new) = n + 1 /\ new[n + 1] = x /\ n \in Nat /\ \A k \in 1 .. n : new[k] = orders[k]
    BY OneMore
<1>2. \A a \in 1 .. n + 1 : \A b \in a - 1 .. n : HeldIn(new, a, b) = HeldIn(orders, a, b)
    BY HeldStep
<1>0. x.side = "sell" => \E i \in 1 .. n : UndoneBy(new, n + 1, i)
    OBVIOUS
<1> HIDE DEF new, n
<1> SUFFICES ASSUME NEW j \in 1 .. n + 1, new[j].side = "sell"
             PROVE  \E i \in 1 .. j - 1 : UndoneBy(new, j, i)
    BY <1>1 DEF Undoes, new
<1>3. CASE j = n + 1
  <2>1. j - 1 = n
      BY <1>1, <1>3
  <2> QED BY <1>0, <1>1, <1>3, <2>1
<1>4. CASE j # n + 1
  <2>1. j \in 1 .. n
      BY <1>1, <1>4
  <2>2. orders[j].side = "sell"
      BY <1>1, <2>1
  <2>3. PICK i \in 1 .. j - 1 : UndoneBy(orders, j, i)
      BY <2>1, <2>2 DEF Undoes, n
  <2>4. i \in 1 .. n /\ i \in 1 .. n + 1 /\ j \in i - 1 .. n /\ \A k \in i .. j : k \in i - 1 .. n
      BY <1>1, <2>1
  <2>5. new[i] = orders[i] /\ new[j] = orders[j]
      BY <1>1, <2>1, <2>4
  <2>6. HeldIn(new, i, j) = HeldIn(orders, i, j)
        /\ \A k \in i .. j : HeldIn(new, i, k) = HeldIn(orders, i, k)
      BY <1>2, <2>4
  <2>7. UndoneBy(new, j, i)
      BY <2>3, <2>5, <2>6 DEF UndoneBy
  <2> QED BY <2>7
<1> QED BY <1>3, <1>4

\* A buy that still holds after one more order.
LEMMA StackedStep ==
    ASSUME NEW orders \in Seq(Intents), NEW x \in Intents, NEW lots \in Seq(Nat),
           NEW p \in 1 .. Len(lots), NEW i \in 1 .. Len(orders), StackedAt(orders, lots, p, i),
           NEW more \in Seq(Nat), more[p] = lots[p], Len(more) = Len(lots) + Change(x),
           p <= Len(more)
    PROVE  StackedAt(Append(orders, x), more, p, i)
<1> DEFINE n == Len(orders)
           new == Append(orders, x)
           m == Len(lots)
           c == Change(x)
<1>1. Len(new) = n + 1 /\ n \in Nat /\ \A k \in 1 .. n : new[k] = orders[k]
    BY OneMore
<1>2. /\ \A a \in 1 .. n + 1 : \A b \in a - 1 .. n : HeldIn(new, a, b) = HeldIn(orders, a, b)
      /\ \A a \in 1 .. n + 1 : HeldIn(new, a, n + 1) = HeldIn(orders, a, n) + c
    BY HeldStep
<1>3. m \in Nat /\ c \in {1, -1} /\ p \in 1 .. m
    BY DEF Change
<1>4. Len(more) = m + c /\ p <= m + c
    OBVIOUS
<1>5. i \in 1 .. n
    OBVIOUS
<1>6. /\ orders[i].side = "buy" /\ orders[i].qty = lots[p]
      /\ HeldIn(orders, i, n) = m - p + 1
      /\ \A k \in i .. n : HeldIn(orders, i, k) >= 1
    BY DEF StackedAt
<1> HIDE DEF new, n, c, m
<1>7. i \in 1 .. n + 1 /\ \A k \in i .. n : k \in i - 1 .. n
    BY <1>1, <1>5
<1>8. HeldIn(new, i, n + 1) = m - p + 1 + c
    BY <1>2, <1>6, <1>7
<1>9. m - p + 1 + c >= 1 /\ m - p + 1 + c = (m + c) - p + 1
    BY <1>3, <1>4
<1>10. ASSUME NEW k \in i .. n + 1 PROVE HeldIn(new, i, k) >= 1
  <2>1. CASE k = n + 1
      BY <1>8, <1>9, <2>1
  <2>2. CASE k # n + 1
    <3>1. k \in i .. n
        BY <1>1, <1>5, <2>2
    <3> QED BY <1>2, <1>6, <1>7, <3>1
  <2> QED BY <2>1, <2>2
<1>11. new[i].side = "buy" /\ new[i].qty = more[p]
    BY <1>1, <1>5, <1>6
<1> QED BY <1>1, <1>4, <1>8, <1>9, <1>10, <1>11 DEF StackedAt, new

\* A buy puts a lot on the stack.
LEMMA GridBuy ==
    ASSUME NEW orders \in Seq(Intents), NEW lots \in Seq(Nat), GridOrders(orders, lots),
           NEW x \in Intents, x.side = "buy"
    PROVE  GridOrders(Append(orders, x), Append(lots, x.qty))
<1> DEFINE n == Len(orders)
           new == Append(orders, x)
           m == Len(lots)
           more == Append(lots, x.qty)
<1>1. Len(new) = n + 1 /\ new[n + 1] = x /\ n \in Nat
    BY OneMore
<1>2. /\ Len(more) = m + 1 /\ more[m + 1] = x.qty /\ m \in Nat /\ more \in Seq(Nat)
      /\ \A p \in 1 .. m : more[p] = lots[p]
  <2>1. x.qty \in Nat
      BY DEF Intents
  <2> QED BY <2>1, OneMore
<1>3. Change(x) = 1
    BY DEF Change
<1>4. /\ \A a \in 1 .. n + 1 : HeldIn(new, a, n + 1) = HeldIn(orders, a, n) + 1
      /\ HeldIn(orders, n + 1, n) = 0
    BY <1>3, HeldStep
<1>5. HeldIn(orders, 1, n) = m /\ Undoes(orders)
    BY DEF GridOrders, Stacked
<1>6. \A p \in 1 .. m : \E i \in 1 .. n : StackedAt(orders, lots, p, i)
    BY DEF GridOrders, Stacked
<1>7. Undoes(new)
    BY <1>5, UndoesStep
<1>8. ASSUME NEW p \in 1 .. m PROVE \E i \in 1 .. n : StackedAt(new, more, p, i)
  <2>1. PICK i \in 1 .. n : StackedAt(orders, lots, p, i)
      BY <1>6
  <2>2. more[p] = lots[p] /\ Len(more) = Len(lots) + Change(x) /\ p <= Len(more)
      BY <1>2, <1>3
  <2> HIDE DEF more
  <2>3. StackedAt(new, more, p, i)
      BY <1>2, <2>1, <2>2, StackedStep
  <2> QED BY <2>3
<1> HIDE DEF new, more, n, m
<1>9. StackedAt(new, more, m + 1, n + 1)
  <2>1. n + 1 \in 1 .. n + 1 /\ n + 1 .. n + 1 = {n + 1}
      BY <1>1
  <2>2. HeldIn(new, n + 1, n + 1) = 1
      BY <1>4, <2>1
  <2>3. (m + 1) - (m + 1) + 1 = 1
      BY <1>2
  <2> QED BY <1>1, <1>2, <2>1, <2>2, <2>3 DEF StackedAt
<1>10. HeldIn(new, 1, n + 1) = m + 1
  <2>1. 1 \in 1 .. n + 1
      BY <1>1
  <2> QED BY <1>4, <1>5, <2>1
<1>11. ASSUME NEW p \in 1 .. m + 1 PROVE \E i \in 1 .. n + 1 : StackedAt(new, more, p, i)
  <2>1. CASE p = m + 1
    <3>1. n + 1 \in 1 .. n + 1
        BY <1>1
    <3> QED BY <1>9, <2>1, <3>1
  <2>2. CASE p # m + 1
    <3>1. p \in 1 .. m
        BY <1>2, <2>2
    <3>2. PICK i \in 1 .. n : StackedAt(new, more, p, i)
        BY <1>8, <3>1
    <3>3. i \in 1 .. n + 1
        BY <1>1
    <3> QED BY <3>2, <3>3
  <2> QED BY <2>1, <2>2
<1>12. Stacked(new, more)
    BY <1>1, <1>2, <1>10, <1>11 DEF Stacked
<1> QED BY <1>7, <1>12 DEF GridOrders, new, more

\* A sell of the last lot takes it off, and undoes its buy.
LEMMA GridSell ==
    ASSUME NEW orders \in Seq(Intents), NEW lots \in Seq(Nat), GridOrders(orders, lots),
           NEW m \in Nat, Len(lots) = m + 1,
           NEW x \in Intents, x.side = "sell", x.qty = lots[m + 1]
    PROVE  GridOrders(Append(orders, x), SubSeq(lots, 1, m))
<1> DEFINE n == Len(orders)
           new == Append(orders, x)
           less == SubSeq(lots, 1, m)
<1>1. Len(new) = n + 1 /\ new[n + 1] = x /\ n \in Nat /\ \A k \in 1 .. n : new[k] = orders[k]
    BY OneMore
<1>2. less \in Seq(Nat) /\ Len(less) = m /\ \A p \in 1 .. m : less[p] = lots[p]
    OBVIOUS
<1>3. Change(x) = -1
    BY DEF Change
<1>4. /\ \A a \in 1 .. n + 1 : \A b \in a - 1 .. n : HeldIn(new, a, b) = HeldIn(orders, a, b)
      /\ \A a \in 1 .. n + 1 : HeldIn(new, a, n + 1) = HeldIn(orders, a, n) + (-1)
    BY <1>3, HeldStep
<1>5. HeldIn(orders, 1, n) = m + 1 /\ Undoes(orders)
    BY DEF GridOrders, Stacked
<1>6. \A p \in 1 .. m + 1 : \E i \in 1 .. n : StackedAt(orders, lots, p, i)
    BY DEF GridOrders, Stacked
<1>7. ASSUME NEW p \in 1 .. m PROVE \E i \in 1 .. n : StackedAt(new, less, p, i)
  <2>1. p \in 1 .. m + 1 /\ p \in 1 .. Len(lots)
      OBVIOUS
  <2>2. PICK i \in 1 .. n : StackedAt(orders, lots, p, i)
      BY <1>6, <2>1
  <2>3. less[p] = lots[p] /\ Len(less) = Len(lots) + Change(x) /\ p <= Len(less)
      BY <1>2, <1>3
  <2> HIDE DEF less
  <2>4. StackedAt(new, less, p, i)
      BY <1>2, <2>1, <2>2, <2>3, StackedStep
  <2> QED BY <2>4
<1>8. \E i \in 1 .. n : UndoneBy(new, n + 1, i)
  <2>1. m + 1 \in 1 .. m + 1
      OBVIOUS
  <2>2. PICK i \in 1 .. n : StackedAt(orders, lots, m + 1, i)
      BY <1>6, <2>1
  <2>3. /\ orders[i].side = "buy" /\ orders[i].qty = lots[m + 1]
        /\ HeldIn(orders, i, n) = (m + 1) - (m + 1) + 1
        /\ \A k \in i .. n : HeldIn(orders, i, k) >= 1
      BY <2>2 DEF StackedAt
  <2> HIDE DEF new, n
  <2>4. (m + 1) - (m + 1) + 1 = 1 /\ 1 + (-1) = 0
      OBVIOUS
  <2>5. i \in 1 .. n + 1 /\ \A k \in i .. n : k \in i - 1 .. n
      BY <1>1
  <2>6. HeldIn(new, i, n + 1) = 0
      BY <1>4, <2>3, <2>4, <2>5
  <2>7. ASSUME NEW k \in i .. n + 1 PROVE HeldIn(new, i, k) >= 0
    <3>1. CASE k = n + 1
        BY <2>6, <3>1
    <3>2. CASE k # n + 1
      <4>1. k \in i .. n
          BY <1>1, <3>2
      <4>2. HeldIn(new, i, k) = HeldIn(orders, i, k) /\ HeldIn(orders, i, k) >= 1
          BY <1>4, <2>3, <2>5, <4>1
      <4>3. HeldIn(orders, i, k) \in Int
          BY <2>5, <4>1, HeldStep DEF n
      <4> QED BY <4>2, <4>3
    <3> QED BY <3>1, <3>2
  <2>8. new[i].side = "buy" /\ new[i].qty = new[n + 1].qty
      BY <1>1, <2>3
  <2>9. UndoneBy(new, n + 1, i)
      BY <2>6, <2>7, <2>8 DEF UndoneBy
  <2> QED BY <2>9
<1>9. Undoes(new)
    BY <1>5, <1>8, UndoesStep
<1> HIDE DEF new, less, n
<1>10. HeldIn(new, 1, n + 1) = m
  <2>1. 1 \in 1 .. n + 1
      BY <1>1
  <2> QED BY <1>4, <1>5, <2>1
<1>11. ASSUME NEW p \in 1 .. m PROVE \E i \in 1 .. n + 1 : StackedAt(new, less, p, i)
  <2>1. PICK i \in 1 .. n : StackedAt(new, less, p, i)
      BY <1>7
  <2>2. i \in 1 .. n + 1
      BY <1>1
  <2> QED BY <2>1, <2>2
<1>12. Stacked(new, less)
    BY <1>1, <1>2, <1>10, <1>11 DEF Stacked
<1> QED BY <1>9, <1>12 DEF GridOrders, new, less

\* The first members of a sequence.
LEMMA FirstsOK ==
    ASSUME NEW U, NEW s \in Seq(U), NEW k \in 0 .. Len(s)
    PROVE  /\ SubSeq(s, 1, k) \in Seq(U) /\ Len(SubSeq(s, 1, k)) = k
           /\ \A j \in 1 .. k : SubSeq(s, 1, k)[j] = s[j]
           /\ SubSeq(s, 1, k) = [j \in 1 .. k |-> s[j]]
           /\ SubSeq(s, 1, Len(s)) = s
           /\ \A t \in Seq(U) : t \o SubSeq(s, 1, 0) = t
<1>1. SubSeq(s, 1, k) \in Seq(U) /\ Len(SubSeq(s, 1, k)) = k
      /\ \A j \in 1 .. k : SubSeq(s, 1, k)[j] = s[j]
    OBVIOUS
<1>2. SubSeq(s, 1, k) = [j \in 1 .. k |-> s[j]]
    OBVIOUS
<1>3. SubSeq(s, 1, Len(s)) = s
    OBVIOUS
<1>4. SubSeq(s, 1, 0) = <<>> /\ \A t \in Seq(U) : t \o <<>> = t
    OBVIOUS
<1> QED BY <1>1, <1>2, <1>3, <1>4
\* One more of them.
LEMMA FirstsGrow ==
    ASSUME NEW U, NEW s \in Seq(U), NEW k \in 0 .. Len(s) - 1
    PROVE  /\ SubSeq(s, 1, 0) = <<>> /\ SubSeq(s, 1, Len(s)) = s
           /\ k + 1 \in 1 .. Len(s) /\ s[k + 1] \in U /\ SubSeq(s, 1, k) \in Seq(U)
           /\ SubSeq(s, 1, k + 1) = Append(SubSeq(s, 1, k), s[k + 1])
<1>1. k + 1 \in 1 .. Len(s) /\ Len(s) \in Nat
    OBVIOUS
<1>2. SubSeq(s, 1, k) \in Seq(U) /\ SubSeq(s, 1, 0) = <<>> /\ s[k + 1] \in U
    BY <1>1
<1>3. SubSeq(s, 1, Len(s)) = s
    OBVIOUS
<1>4. SubSeq(s, 1, k + 1) = Append(SubSeq(s, 1, k), s[k + 1])
    BY <1>1
<1> QED BY <1>1, <1>2, <1>3, <1>4

\* One more order after some others.
LEMMA OneMoreOrder ==
    ASSUME NEW s \in Seq(Intents), NEW t \in Seq(Intents), NEW x \in Intents
    PROVE  s \o t \in Seq(Intents) /\ s \o Append(t, x) = Append(s \o t, x)
OBVIOUS
\* One more lot after some others.
LEMMA OneMoreLot ==
    ASSUME NEW s \in Seq(Nat), NEW t \in Seq(Nat), NEW x \in Nat
    PROVE  s \o t \in Seq(Nat) /\ s \o Append(t, x) = Append(s \o t, x)
OBVIOUS

\* The buys of a bar put their lots on the stack.
LEMMA GridBuys ==
    ASSUME NEW orders \in Seq(Intents), NEW lots \in Seq(Nat), GridOrders(orders, lots),
           NEW bought \in Seq(Nat), NEW intents \in Seq(Intents), Len(intents) = Len(bought),
           \A k \in 1 .. Len(bought) : intents[k].side = "buy" /\ intents[k].qty = bought[k]
    PROVE  GridOrders(orders \o intents, lots \o bought)
<1> DEFINE m == Len(bought)
           Q == {k \in 0 .. m : GridOrders(orders \o SubSeq(intents, 1, k),
                                           lots \o SubSeq(bought, 1, k))}
<1>1. m \in Nat
    OBVIOUS
<1>2. 0 \in Q
  <2>1. orders \o SubSeq(intents, 1, 0) = orders /\ lots \o SubSeq(bought, 1, 0) = lots
      BY FirstsOK
  <2>2. GridOrders(orders \o SubSeq(intents, 1, 0), lots \o SubSeq(bought, 1, 0))
      BY <2>1
  <2> QED BY <1>1, <2>2
<1>3. ASSUME NEW k \in 0 .. m - 1, k \in Q PROVE k + 1 \in Q
  <2> DEFINE a == SubSeq(intents, 1, k)
             b == SubSeq(bought, 1, k)
             x == intents[k + 1]
  <2>1. k \in 0 .. Len(intents) - 1 /\ k \in 0 .. Len(bought) - 1
      BY <1>1
  <2>2. k + 1 \in 1 .. m /\ k + 1 \in 0 .. m
      BY <1>1
  <2>3. a \in Seq(Intents) /\ x \in Intents /\ SubSeq(intents, 1, k + 1) = Append(a, x)
      BY <2>1, FirstsGrow
  <2>4. b \in Seq(Nat) /\ bought[k + 1] \in Nat /\ SubSeq(bought, 1, k + 1) = Append(b, bought[k + 1])
      BY <2>1, FirstsGrow
  <2>5. x.side = "buy" /\ x.qty = bought[k + 1]
      BY <1>1, <2>2
  <2>6. GridOrders(orders \o a, lots \o b)
      BY <1>3
  <2> HIDE DEF a, b, x
  <2>7. orders \o a \in Seq(Intents) /\ orders \o Append(a, x) = Append(orders \o a, x)
      BY <2>3, OneMoreOrder
  <2> DEFINE q == x.qty
  <2>10. q \in Nat
      BY <2>4, <2>5
  <2> HIDE DEF q
  <2>11. lots \o b \in Seq(Nat) /\ lots \o Append(b, q) = Append(lots \o b, q)
      BY <2>4, <2>10, OneMoreLot
  <2>8. lots \o b \in Seq(Nat) /\ lots \o Append(b, x.qty) = Append(lots \o b, x.qty)
      BY <2>11 DEF q
  <2>9. GridOrders(Append(orders \o a, x), Append(lots \o b, x.qty))
      BY <2>3, <2>5, <2>6, <2>7, <2>8, GridBuy
  <2> QED BY <2>2, <2>3, <2>4, <2>5, <2>7, <2>8, <2>9
<1>4. m \in Q
  <2> HIDE DEF Q, m
  <2>1. 0 .. m \subseteq Q
      BY <1>1, <1>2, <1>3, BoundedInduction
  <2> QED BY <1>1, <2>1
<1>5. SubSeq(intents, 1, m) = intents /\ SubSeq(bought, 1, m) = bought
    BY <1>1
<1> QED BY <1>4, <1>5

\* The sells of a bar take the last lots off.
LEMMA GridSells ==
    ASSUME NEW orders \in Seq(Intents), NEW lots \in Seq(Nat), GridOrders(orders, lots),
           NEW n \in 0 .. Len(lots), NEW intents \in Seq(Intents), Len(intents) = n,
           \A k \in 1 .. n : intents[k].side = "sell" /\ intents[k].qty = lots[Len(lots) + 1 - k]
    PROVE  GridOrders(orders \o intents, SubSeq(lots, 1, Len(lots) - n))
<1> DEFINE m == Len(lots)
           Q == {k \in 0 .. n : GridOrders(orders \o SubSeq(intents, 1, k), SubSeq(lots, 1, m - k))}
<1>1. n \in Nat /\ m \in Nat /\ n <= m
    OBVIOUS
<1>2. 0 \in Q
  <2>1. orders \o SubSeq(intents, 1, 0) = orders /\ SubSeq(lots, 1, m) = lots /\ m - 0 = m
      BY FirstsOK
  <2>2. GridOrders(orders \o SubSeq(intents, 1, 0), SubSeq(lots, 1, m - 0))
      BY <2>1
  <2> QED BY <1>1, <2>2
<1>3. ASSUME NEW k \in 0 .. n - 1, k \in Q PROVE k + 1 \in Q
  <2> DEFINE a == SubSeq(intents, 1, k)
             x == intents[k + 1]
             r == m - (k + 1)
             b == SubSeq(lots, 1, m - k)
  <2>1. k \in 0 .. Len(intents) - 1
      BY <1>1
  <2>2. k + 1 \in 1 .. n /\ k + 1 \in 0 .. n /\ r \in Nat /\ m - k = r + 1 /\ r + 1 \in 0 .. m
        /\ r \in 0 .. m /\ m + 1 - (k + 1) = r + 1
      BY <1>1
  <2>3. a \in Seq(Intents) /\ x \in Intents /\ SubSeq(intents, 1, k + 1) = Append(a, x)
      BY <2>1, FirstsGrow
  <2>4. x.side = "sell" /\ x.qty = lots[r + 1]
      BY <1>1, <2>2
  <2>5. b \in Seq(Nat) /\ Len(b) = r + 1 /\ b[r + 1] = lots[r + 1] /\ SubSeq(b, 1, r) = SubSeq(lots, 1, r)
    <3>1. b = SubSeq(lots, 1, r + 1)
        BY <2>2
    <3>2. r + 1 \in 0 .. Len(lots) /\ r \in 0 .. Len(lots)
        BY <2>2
    <3> HIDE DEF b, r
    <3>3. b \in Seq(Nat) /\ Len(b) = r + 1 /\ \A j \in 1 .. r + 1 : b[j] = lots[j]
      <4>1. lots \in Seq(Nat)
          OBVIOUS
      <4>2. b \in Seq(Nat) /\ Len(b) = r + 1
          BY <3>1, <3>2, <4>1, FirstsOK
      <4>3. \A j \in 1 .. r + 1 : b[j] = lots[j]
          BY <3>1, <3>2, <4>1, FirstsOK
      <4> QED BY <4>2, <4>3
    <3>4. r + 1 \in 1 .. r + 1 /\ \A j \in 1 .. r : j \in 1 .. r + 1
        BY <2>2
    <3>5. r \in 0 .. Len(b)
        BY <2>2, <3>3
    <3>6. SubSeq(b, 1, r) = [j \in 1 .. r |-> b[j]]
        BY <3>3, <3>5, FirstsOK
    <3>7. SubSeq(lots, 1, r) = [j \in 1 .. r |-> lots[j]]
        BY <3>2, FirstsOK
    <3> QED BY <3>3, <3>4, <3>6, <3>7
  <2>6. GridOrders(orders \o a, b)
      BY <1>3
  <2>7. SubSeq(lots, 1, m - (k + 1)) = SubSeq(lots, 1, r)
      OBVIOUS
  <2> HIDE DEF a, b, x, r
  <2>8. orders \o a \in Seq(Intents) /\ orders \o Append(a, x) = Append(orders \o a, x)
      BY <2>3, OneMoreOrder
  <2>9. GridOrders(Append(orders \o a, x), SubSeq(b, 1, r))
      BY <2>2, <2>3, <2>4, <2>5, <2>6, <2>8, GridSell
  <2> QED BY <2>2, <2>3, <2>5, <2>7, <2>8, <2>9
<1>4. n \in Q
  <2> HIDE DEF Q
  <2>1. 0 .. n \subseteq Q
      BY <1>1, <1>2, <1>3, BoundedInduction
  <2> QED BY <1>1, <2>1
<1>5. SubSeq(intents, 1, n) = intents
    BY FirstsOK
<1> QED BY <1>4, <1>5

-----------------------------------------------------------------------------
(* How many lots a grid can hold.                                          *)

Over(p, close) == {l \in Lines(p) : l > close}
Onto(p, closes) ==
    {k \in 2 .. Len(closes) : closes[k] \in Lines(p) /\ closes[k] < closes[k - 1]}
\* One close more.
LEMMA OntoStep ==
    ASSUME NEW p, NEW closes \in Seq(Nat), NEW c \in Nat
    PROVE  /\ Cardinality(Onto(p, closes)) \in Nat
           /\ Cardinality(Onto(p, Append(closes, c))) =
                  IF closes # <<>> /\ c \in Lines(p) /\ c < Last(closes)
                  THEN Cardinality(Onto(p, closes)) + 1 ELSE Cardinality(Onto(p, closes))
<1> DEFINE n == Len(closes)
           more == Append(closes, c)
           S == Onto(p, closes)
           T == Onto(p, more)
           hits == closes # <<>> /\ c \in Lines(p) /\ c < Last(closes)
<1>1. /\ Len(more) = n + 1 /\ more[n + 1] = c /\ n \in Nat
      /\ \A k \in 1 .. n : more[k] = closes[k]
    BY OneMore
<1>2. closes # <<>> => n \in 1 .. n /\ n + 1 \in 2 .. n + 1 /\ Last(closes) = closes[n]
    BY <1>1 DEF Last
<1>3. closes = <<>> => n = 0
    OBVIOUS
<1> HIDE DEF more, n
<1>4. /\ S = {k \in 2 .. n : closes[k] \in Lines(p) /\ closes[k] < closes[k - 1]}
      /\ T = {k \in 2 .. n + 1 : more[k] \in Lines(p) /\ more[k] < more[k - 1]}
    BY <1>1 DEF Onto, n
<1>5. \A k \in 2 .. n : k \in 1 .. n /\ k - 1 \in 1 .. n /\ k \in 2 .. n + 1 /\ k # n + 1
    BY <1>1
<1>6. \A k \in 2 .. n + 1 : k = n + 1 \/ k \in 2 .. n
    BY <1>1
<1>7. (n + 1) - 1 = n
    BY <1>1
<1>8. n + 1 \in T <=> hits
  <2>1. CASE closes = <<>>
    <3>1. n + 1 \notin 2 .. n + 1
        BY <1>3, <2>1
    <3> QED BY <1>4, <2>1, <3>1
  <2>2. CASE closes # <<>>
      BY <1>1, <1>2, <1>4, <1>7, <2>2
  <2> QED BY <2>1, <2>2
<1>9. \A k \in 2 .. n : k \in S <=> k \in T
    BY <1>1, <1>4, <1>5
<1>10. T = IF hits THEN S \cup {n + 1} ELSE S
  <2>1. \A k \in S : k \in 2 .. n
      BY <1>4
  <2>2. \A k \in T : k = n + 1 \/ k \in 2 .. n
      BY <1>4, <1>6
  <2> HIDE DEF S, T, hits
  <2>3. ASSUME NEW k PROVE k \in T <=> k \in S \/ (hits /\ k = n + 1)
    <3>1. CASE k \in 2 .. n
        BY <1>5, <1>9, <3>1
    <3>2. CASE k \notin 2 .. n
        BY <1>8, <2>1, <2>2, <3>2
    <3> QED BY <3>1, <3>2
  <2>4. CASE hits
      BY <2>3, <2>4
  <2>5. CASE ~hits
      BY <2>3, <2>5
  <2> QED BY <2>4, <2>5
<1>11. IsFiniteSet(S) /\ n + 1 \notin S
  <2>1. IsFiniteSet(2 .. n) /\ S \subseteq 2 .. n
      BY <1>1, <1>4, FS_Interval
  <2> HIDE DEF S
  <2> QED BY <1>5, <2>1, FS_Subset
<1> HIDE DEF S, T
<1>12. Cardinality(S) \in Nat /\ Cardinality(S \cup {n + 1}) = Cardinality(S) + 1
    BY <1>11, FS_AddElement, FS_CardinalityType
<1>13. CASE hits
    BY <1>10, <1>12, <1>13 DEF S, T, more
<1>14. CASE ~hits
    BY <1>10, <1>12, <1>14 DEF S, T, more
<1> QED BY <1>13, <1>14

\* The lines above a close, before and after a fall and a rise.
LEMMA LinesCrossed ==
    ASSUME NEW p, ValidParams(p), p.kind = "grid", NEW a \in Nat, NEW b \in Nat
    PROVE  /\ Cardinality(Over(p, b)) \in Nat /\ Cardinality(Over(p, b)) <= p.levels
           /\ Cardinality(Fell(p, a, b)) \in Nat /\ Cardinality(Rose(p, a, b)) \in Nat
           /\ b < a => Cardinality(Over(p, a)) + Cardinality(Fell(p, a, b)) <=
                           Cardinality(Over(p, b)) + IF b \in Lines(p) THEN 1 ELSE 0
           /\ b >= a => Cardinality(Over(p, a)) =
                           Cardinality(Over(p, b)) + Cardinality(Rose(p, a, b))
<1> DEFINE A == Over(p, a)
           B == Over(p, b)
           F == Fell(p, a, b)
           R == Rose(p, a, b)
<1>1. /\ IsFiniteSet(Lines(p)) /\ Lines(p) \subseteq Nat \ {0}
      /\ Cardinality(Lines(p)) <= p.levels /\ p.levels \in Nat
    BY LinesOK DEF ValidParams
<1>2. A \subseteq Lines(p) /\ B \subseteq Lines(p) /\ F \subseteq Lines(p) /\ R \subseteq Lines(p)
    BY DEF Over, Fell, Rose
<1>3. b < a => A \cap F = {} /\ A \cup F \subseteq B \cup (Lines(p) \cap {b})
    BY <1>1 DEF Over, Fell
<1>4. b >= a => B \cap R = {} /\ B \cup R = A
    BY <1>1 DEF Over, Rose
<1> HIDE DEF A, B, F, R
<1>5. IsFiniteSet(A) /\ IsFiniteSet(B) /\ IsFiniteSet(F) /\ IsFiniteSet(R)
    BY <1>1, <1>2, FS_Subset
<1>6. /\ Cardinality(A) \in Nat /\ Cardinality(B) \in Nat /\ Cardinality(F) \in Nat
      /\ Cardinality(R) \in Nat /\ Cardinality(Lines(p)) \in Nat
    BY <1>1, <1>5, FS_CardinalityType
<1>7. Cardinality(B) <= p.levels
  <2>1. Cardinality(B) <= Cardinality(Lines(p))
      BY <1>1, <1>2, FS_Subset
  <2> QED BY <1>1, <1>6, <2>1
<1>8. ASSUME b < a
      PROVE  Cardinality(A) + Cardinality(F) <= Cardinality(B) + IF b \in Lines(p) THEN 1 ELSE 0
  <2> DEFINE O == Lines(p) \cap {b}
  <2>1. O = IF b \in Lines(p) THEN {b} ELSE {}
      OBVIOUS
  <2>2. IsFiniteSet(O) /\ Cardinality(O) = IF b \in Lines(p) THEN 1 ELSE 0
      BY <2>1, FS_EmptySet, FS_Singleton
  <2>3. B \cap O = {}
      BY DEF B, Over
  <2>4. A \cap F = {} /\ A \cup F \subseteq B \cup O
      BY <1>3, <1>8
  <2> HIDE DEF O
  <2>5. Cardinality(A \cup F) = Cardinality(A) + Cardinality(F)
    <3>1. Cardinality(A \cup F) = Cardinality(A) + Cardinality(F) - Cardinality(A \cap F)
        BY <1>5, FS_Union
    <3>2. Cardinality(A \cap F) = 0
        BY <2>4, FS_EmptySet
    <3> QED BY <1>6, <3>1, <3>2
  <2>6. IsFiniteSet(B \cup O) /\ Cardinality(B \cup O) = Cardinality(B) + Cardinality(O)
    <3>1. IsFiniteSet(B \cup O)
          /\ Cardinality(B \cup O) = Cardinality(B) + Cardinality(O) - Cardinality(B \cap O)
        BY <1>5, <2>2, FS_Union
    <3>2. Cardinality(B \cap O) = 0
        BY <2>3, FS_EmptySet
    <3>3. Cardinality(O) \in Nat
        BY <2>2, FS_CardinalityType
    <3> QED BY <1>6, <3>1, <3>2, <3>3
  <2>7. Cardinality(A \cup F) <= Cardinality(B \cup O)
      BY <2>4, <2>6, FS_Subset
  <2> QED BY <2>2, <2>5, <2>6, <2>7
<1>9. ASSUME b >= a PROVE Cardinality(A) = Cardinality(B) + Cardinality(R)
  <2>1. B \cap R = {} /\ B \cup R = A
      BY <1>4, <1>9
  <2>2. Cardinality(A) = Cardinality(B) + Cardinality(R) - Cardinality(B \cap R)
      BY <1>5, <2>1, FS_Union
  <2>3. Cardinality(B \cap R) = 0
      BY <2>1, FS_EmptySet
  <2> QED BY <1>6, <2>2, <2>3
<1> QED BY <1>6, <1>7, <1>8, <1>9 DEF A, B, F, R

\* What a grid remembers, and how many lots it can hold: one for every line over
\* the last close, and one for every close that fell onto a line.
GridMemory(st, orders, closes) ==
    /\ GridOrders(orders, st.lots)
    /\ closes = <<>> => st.prev = NoPrice /\ st.lots = <<>>
    /\ closes # <<>> =>
          /\ st.prev = Last(closes) /\ st.prev # NoPrice
          /\ Len(st.lots) <= Cardinality(Over(cfg, st.prev)) + Cardinality(Onto(cfg, closes))
\* A bar keeps what a grid remembers.
LEMMA GridMemoryStep ==
    ASSUME ValidParams(cfg), cfg.kind = "grid", NEW st, StateOK(cfg, st), NEW bar \in Bars,
           NEW orders \in Seq(Intents), NEW closes \in Seq(Nat), GridMemory(st, orders, closes)
    PROVE  GridMemory(Step(st, bar).st, orders \o Step(st, bar).intents, NewCloses(closes, bar))
<1> DEFINE step == Step(st, bar)
           lots == st.lots
           c == bar.close
           more == Append(closes, c)
<1>1. StepOK(cfg, step) /\ c \in Nat /\ lots \in Seq(Nat) /\ st.prev \in Nat
    BY OnBarStep DEF Step, Bars, StateOK
<1>2. step.intents \in Seq(Intents) /\ step.st.lots \in Seq(Nat) /\ step.st.prev \in Nat
    BY <1>1 DEF StepOK, StateOK
<1>3. GridOrders(orders, lots) /\ orders \o <<>> = orders
    BY DEF GridMemory
<1>4. CASE c = 0
  <2>1. step.st = st /\ step.intents = <<>>
      BY <1>4, OnBarStep DEF Step
  <2>2. NewCloses(closes, bar) = closes
      BY <1>1, <1>4 DEF NewCloses
  <2> QED BY <1>3, <2>1, <2>2
<1>5. CASE c # 0
  <2>1. step = GridBar(cfg, st, bar)
      BY <1>5, OnBarKinds DEF Step
  <2>2. /\ step.st.prev = c
        /\ \/ GridStarts(st, step) \/ GridFalls(cfg, st, step, c) \/ GridRises(cfg, st, step, c)
      BY <1>5, <2>1, GridStep
  <2>3. NewCloses(closes, bar) = more
      BY <1>1, <1>5 DEF NewCloses
  <2>4. more # <<>> /\ Last(more) = c /\ more \in Seq(Nat)
      BY <1>1, OneMore
  <2> DEFINE oldOver == Cardinality(Over(cfg, st.prev))
             newOver == Cardinality(Over(cfg, c))
             oldOnto == Cardinality(Onto(cfg, closes))
             newOnto == Cardinality(Onto(cfg, more))
             fell == Cardinality(Fell(cfg, st.prev, c))
             rose == Cardinality(Rose(cfg, st.prev, c))
             onto == IF c \in Lines(cfg) THEN 1 ELSE 0
  <2>5. /\ oldOver \in Nat /\ newOver \in Nat /\ fell \in Nat /\ rose \in Nat
        /\ c < st.prev => oldOver + fell <= newOver + onto
        /\ c >= st.prev => oldOver = newOver + rose
      BY <1>1, LinesCrossed
  <2>6. /\ oldOnto \in Nat
        /\ newOnto = IF closes # <<>> /\ c \in Lines(cfg) /\ c < Last(closes)
                     THEN oldOnto + 1 ELSE oldOnto
      BY <1>1, OntoStep
  <2>7. newOnto \in Nat /\ newOnto >= oldOnto
      BY <2>6
  <2>8. closes # <<>> => st.prev = Last(closes) /\ Len(lots) <= oldOver + oldOnto
      BY DEF GridMemory
  <2>9. (closes = <<>> => st.prev = NoPrice /\ lots = <<>>) /\ (closes # <<>> => st.prev # NoPrice)
      BY DEF GridMemory
  <2>10. Len(lots) \in Nat /\ onto \in {0, 1}
      BY <1>1
  <2> HIDE DEF oldOver, newOver, oldOnto, newOnto, fell, rose, more, lots, step, c
  <2>11. SUFFICES /\ GridOrders(orders \o step.intents, step.st.lots)
                  /\ Len(step.st.lots) <= newOver + newOnto
    <3>1. c # NoPrice
        BY <1>5 DEF NoPrice
    <3> QED BY <2>2, <2>3, <2>4, <2>11, <3>1 DEF GridMemory, newOver, newOnto, step
  <2>12. CASE GridStarts(st, step)
    <3>1. lots = <<>> /\ step.st.lots = lots /\ step.intents = <<>>
        BY <2>9, <2>12 DEF GridStarts, lots
    <3>2. Len(step.st.lots) = 0
        BY <3>1
    <3> QED BY <1>3, <2>5, <2>7, <3>1, <3>2
  <2>13. CASE GridFalls(cfg, st, step, c)
    <3>1. st.prev # NoPrice /\ c < st.prev
        BY <2>13 DEF GridFalls
    <3>2. PICK bought \in Seq(Nat) :
              /\ Len(bought) = fell /\ step.st.lots = lots \o bought
              /\ step.intents = [i \in DOMAIN bought |-> Market("buy", bought[i])]
        BY <2>13 DEF GridFalls, fell, lots
    <3>3. Len(step.intents) = Len(bought)
          /\ \A k \in 1 .. Len(bought) : step.intents[k].side = "buy" /\ step.intents[k].qty = bought[k]
      <4>1. DOMAIN bought = 1 .. Len(bought) /\ Len(bought) \in Nat
          OBVIOUS
      <4>2. \A k \in 1 .. Len(bought) : step.intents[k] = Market("buy", bought[k])
          BY <3>2, <4>1
      <4>3. DOMAIN step.intents = 1 .. Len(bought)
          BY <3>2, <4>1
      <4>4. Len(step.intents) = Len(bought)
          BY <1>2, <4>1, <4>3
      <4>5. \A q : Market("buy", q).side = "buy" /\ Market("buy", q).qty = q
          BY DEF Market
      <4> QED BY <4>2, <4>4, <4>5
    <3>4. GridOrders(orders \o step.intents, lots \o bought)
        BY <1>1, <1>2, <1>3, <3>3, GridBuys
    <3>5. Len(step.st.lots) = Len(lots) + fell
        BY <1>1, <3>2
    <3>6. newOnto = oldOnto + onto
        BY <2>6, <2>8, <2>9, <3>1
    <3>7. Len(lots) <= oldOver + oldOnto /\ oldOver + fell <= newOver + onto
        BY <2>5, <2>8, <2>9, <3>1
    <3> HIDE DEF onto
    <3>8. Len(lots) + fell <= newOver + newOnto
        BY <2>5, <2>6, <2>10, <3>6, <3>7
    <3> QED BY <3>2, <3>4, <3>5, <3>8
  <2>14. CASE GridRises(cfg, st, step, c)
    <3>1. st.prev # NoPrice /\ c >= st.prev
        BY <2>14 DEF GridRises
    <3>2. PICK n \in 0 .. Len(lots) :
              /\ n < rose => n = Len(lots)
              /\ n <= rose
              /\ step.st.lots = SubSeq(lots, 1, Len(lots) - n)
              /\ step.intents = [i \in 1 .. n |-> Market("sell", lots[Len(lots) + 1 - i])]
        BY <2>14 DEF GridRises, rose, lots
    <3>3. Len(step.intents) = n
          /\ \A k \in 1 .. n : /\ step.intents[k].side = "sell"
                               /\ step.intents[k].qty = lots[Len(lots) + 1 - k]
      <4>1. \A k \in 1 .. n : step.intents[k] = Market("sell", lots[Len(lots) + 1 - k])
          BY <3>2
      <4>2. DOMAIN step.intents = 1 .. n /\ n \in Nat
          BY <3>2
      <4>3. Len(step.intents) = n
          BY <1>2, <4>2
      <4>4. \A q : Market("sell", q).side = "sell" /\ Market("sell", q).qty = q
          BY DEF Market
      <4> QED BY <4>1, <4>3, <4>4
    <3>4. GridOrders(orders \o step.intents, SubSeq(lots, 1, Len(lots) - n))
        BY <1>1, <1>2, <1>3, <3>3, GridSells
    <3>5. Len(step.st.lots) = Len(lots) - n
      <4>1. Len(lots) - n \in 0 .. Len(lots)
          BY <2>10
      <4> QED BY <1>1, <3>2, <4>1, FirstsOK
    <3>6. Len(lots) <= oldOver + oldOnto /\ oldOver = newOver + rose
        BY <2>5, <2>8, <2>9, <3>1
    <3>7. Len(lots) - n <= newOver + newOnto
        BY <2>5, <2>6, <2>7, <2>10, <3>2, <3>6
    <3> QED BY <3>2, <3>4, <3>5, <3>7
  <2> QED BY <2>2, <2>12, <2>13, <2>14
<1> QED BY <1>4, <1>5

\* What the invariant promises of the orders.
LEMMA GridHolds ==
    ASSUME BaseInv, cfg.kind = "grid", GridMemory(test.st, Orders, CloseList(hist))
    PROVE  GridInventory
<1> DEFINE n == Len(Orders)
           lots == test.st.lots
           closes == CloseList(hist)
           touched == {k \in 2 .. Len(Positive(hist)) :
                          /\ Positive(hist)[k].close \in Lines(cfg)
                          /\ Positive(hist)[k].close < Positive(hist)[k - 1].close}
<1>1. hist \in Seq(Bars) /\ ValidParams(cfg) /\ StateOK(cfg, test.st) /\ acts \in Seq(Seq(Intents))
    BY ReplayAssumption DEF BaseInv, InputsOK, TestOK, cfg
<1>2. Orders \in Seq(Intents)
    BY <1>1, FlattenAppend DEF Orders
<1>3. n \in Nat /\ lots \in Seq(Nat) /\ cfg.levels \in Nat
    BY <1>1, <1>2 DEF StateOK, ValidParams
<1>4. closes \in Seq(Nat) /\ Len(closes) = Len(Positive(hist))
      /\ closes = [i \in DOMAIN Positive(hist) |-> Positive(hist)[i].close]
    BY <1>1, CloseListOK DEF CloseList, Closes
<1>5. touched = Onto(cfg, closes)
  <2>1. DOMAIN closes = 1 .. Len(closes) /\ DOMAIN closes = DOMAIN Positive(hist)
        /\ Len(closes) \in Nat
      BY <1>4
  <2>2. \A i \in 1 .. Len(closes) : closes[i] = Positive(hist)[i].close
      BY <1>4, <2>1
  <2>3. \A k \in 2 .. Len(closes) : k \in 1 .. Len(closes) /\ k - 1 \in 1 .. Len(closes)
      BY <2>1
  <2> HIDE DEF closes
  <2> QED BY <1>4, <2>2, <2>3 DEF Onto
<1>6. Cardinality(touched) \in Nat
    BY <1>3, <1>4, <1>5, OntoStep
<1>7. Len(lots) <= cfg.levels + Cardinality(touched)
  <2>1. CASE closes = <<>>
    <3>1. lots = <<>>
        BY <2>1 DEF GridMemory
    <3> HIDE DEF lots, touched
    <3> QED BY <1>3, <1>6, <3>1
  <2>2. CASE closes # <<>>
    <3> DEFINE over == Cardinality(Over(cfg, test.st.prev))
    <3>1. test.st.prev \in Nat
        BY <1>1 DEF StateOK
    <3>2. Len(lots) <= over + Cardinality(touched)
        BY <1>5, <2>2 DEF GridMemory
    <3>3. over \in Nat /\ over <= cfg.levels
        BY <1>1, <3>1, LinesCrossed
    <3> HIDE DEF lots, touched, over
    <3>4. Len(lots) \in Nat
        BY <1>3
    <3> QED BY <1>3, <1>6, <3>2, <3>3, <3>4
  <2> QED BY <2>1, <2>2
<1>8. Undoes(Orders) /\ HeldIn(Orders, 1, n) = Len(lots)
    BY DEF GridMemory, GridOrders, Stacked
<1>9. \A a, b \in Int : Bought(a, b) = BoughtIn(Orders, a, b)
    BY DEF Bought, BoughtIn
<1>10. ASSUME NEW a \in 1 .. n, NEW b \in a .. n
       PROVE  Bought(a, b) \in Nat /\ HeldIn(Orders, a, b) = 2 * Bought(a, b) - (b - a + 1)
  <2>1. IsFiniteSet(a .. b) /\ {k \in a .. b : Orders[k].side = "buy"} \subseteq a .. b
        /\ a \in Int /\ b \in Int
      BY FS_Interval
  <2>2. IsFiniteSet({k \in a .. b : Orders[k].side = "buy"})
      BY <2>1, FS_Subset
  <2>3. Bought(a, b) \in Nat
      BY <2>2, FS_CardinalityType DEF Bought
  <2> QED BY <1>9, <2>1, <2>3 DEF HeldIn
<1>11. Bought(1, n) - (n - Bought(1, n)) <= cfg.levels + Cardinality(touched)
  <2>1. Bought(1, n) \in Nat /\ HeldIn(Orders, 1, n) = 2 * Bought(1, n) - (n - 1 + 1)
    <3>1. CASE n = 0
      <4>1. {k \in 1 .. 0 : Orders[k].side = "buy"} = {}
          OBVIOUS
      <4>2. Bought(1, n) = 0
          BY <3>1, <4>1, FS_EmptySet DEF Bought
      <4> QED BY <1>9, <1>3, <4>2 DEF HeldIn
    <3>2. CASE n # 0
      <4>1. 1 \in 1 .. n /\ n \in 1 .. n
          BY <1>3, <3>2
      <4> QED BY <1>10, <4>1
    <3> QED BY <3>1, <3>2
  <2> DEFINE bought == Bought(1, n)
             cards == Cardinality(touched)
             held == HeldIn(Orders, 1, n)
             size == Len(lots)
  <2>2. /\ bought \in Nat /\ cards \in Nat /\ size \in Nat /\ held = size
        /\ held = 2 * bought - (n - 1 + 1) /\ size <= cfg.levels + cards
      BY <1>3, <1>6, <1>7, <1>8, <2>1
  <2> HIDE DEF bought, cards, held, size, n
  <2>3. bought - (n - bought) <= cfg.levels + cards
      BY <1>3, <2>2
  <2> QED BY <2>3 DEF bought, cards
<1>12. ASSUME NEW j \in 1 .. n, Orders[j].side = "sell"
       PROVE  \E i \in 1 .. j - 1 :
                  /\ Orders[i].side = "buy" /\ Orders[i].qty = Orders[j].qty
                  /\ 2 * Bought(i, j) = j - i + 1
                  /\ \A k \in i .. j : 2 * Bought(i, k) >= k - i + 1
  <2>1. PICK i \in 1 .. j - 1 : UndoneBy(Orders, j, i)
      BY <1>8, <1>12 DEF Undoes
  <2> HIDE DEF n
  <2>2. i \in 1 .. n /\ i \in Int /\ j \in Int /\ j \in i .. n /\ \A k \in i .. j : k \in i .. n /\ k \in Int
      BY <1>3
  <2>3. 2 * Bought(i, j) = j - i + 1
    <3>1. Bought(i, j) \in Nat /\ 2 * Bought(i, j) - (j - i + 1) = 0
        BY <1>10, <2>1, <2>2 DEF UndoneBy
    <3> QED BY <2>2, <3>1
  <2>4. ASSUME NEW k \in i .. j PROVE 2 * Bought(i, k) >= k - i + 1
    <3>1. Bought(i, k) \in Nat /\ 2 * Bought(i, k) - (k - i + 1) >= 0
        BY <1>10, <2>1, <2>2 DEF UndoneBy
    <3> QED BY <2>2, <3>1
  <2> QED BY <2>1, <2>3, <2>4 DEF UndoneBy
<1> QED BY <1>11, <1>12 DEF GridInventory

GridInv == GridMemory(test.st, Orders, CloseList(hist))
\* A bar keeps it.
LEMMA GridKeeps ==
    ASSUME BaseInv, NEW bar \in Bars, BarComes(bar), cfg.kind = "grid", GridInv
    PROVE  GridInv'
<1> DEFINE step == Step(test.st, bar)
<1>1. /\ test'.st = step.st /\ StepOK(cfg, step) /\ ValidParams(cfg) /\ StateOK(cfg, test.st)
      /\ FlattenSeq(acts) \in Seq(Intents) /\ FlattenSeq(acts') = FlattenSeq(acts) \o step.intents
      /\ hist' = Append(hist, bar) /\ hist \in Seq(Bars) /\ sc' = sc
    BY ActsStep
<1>2. CloseList(hist) \in Seq(Nat) /\ CloseList(hist') = NewCloses(CloseList(hist), bar)
    BY <1>1, CloseListOK, CloseListAppend DEF NewCloses
<1>3. GridMemory(step.st, FlattenSeq(acts) \o step.intents, NewCloses(CloseList(hist), bar))
    BY <1>1, <1>2, GridMemoryStep DEF GridInv, Orders
<1> HIDE DEF step
<1>4. GridMemory(test'.st, Orders', CloseList(hist'))
    BY <1>1, <1>2, <1>3 DEF Orders
<1>5. cfg' = cfg
    BY <1>1 DEF cfg
<1>6. GridMemory(test.st, Orders, CloseList(hist))' <=> GridMemory(test'.st, Orders', CloseList(hist'))
    BY <1>5 DEF GridMemory, Over, Onto, Lines, CloseList, Closes, Positive
<1> QED BY <1>4, <1>6 DEF GridInv

\* What every strategy has promised, and what it remembers to keep its promise.
PromiseInv ==
    /\ cfg.kind = "dca" => DcaInv
    /\ cfg.kind = "grid" => GridInv
    /\ cfg.kind \in {"ma", "momentum"} => PositionInv

\* The contracts of the bar strategies over a whole run: dca buys exactly when
\* its interval has passed, a grid's sells undo its latest buys and its lots are
\* bounded by its lines, and a position bot buys and sells alternately.
THEOREM ContractsKept == Spec => []StrategyContracts
<1> DEFINE Inv == BaseInv /\ PromiseInv
<1>1. Init => PromiseInv
  <2> SUFFICES ASSUME Init PROVE PromiseInv
      OBVIOUS
  <2>1. /\ test.st = FreshState(cfg) /\ hist = <<>> /\ acts = <<>>
      BY DEF Init
  <2>2. /\ test.st.last = NoTime /\ test.st.prev = NoPrice /\ test.st.lots = <<>>
        /\ ~test.st.inPosition
      BY <2>1 DEF FreshState
  <2>3. Orders = <<>> /\ CloseList(hist) = <<>>
      BY <2>1, NoCloses DEF Orders, FlattenSeq
  <2>4. DcaInv
    <3>1. DOMAIN hist = {} /\ Buying = {}
        BY <2>1 DEF Buying
    <3> QED BY <2>2, <3>1 DEF DcaInv, DcaCadence, Latest
  <2>5. PositionInv
    <3>1. Len(Orders) = 0 /\ 1 .. 0 = {} /\ 0 % 2 # 1
        BY <2>3
    <3> QED BY <2>2, <3>1 DEF PositionInv, PairsUp, Alternates
  <2>6. GridInv
    <3>1. Len(Orders) = 0 /\ Len(test.st.lots) = 0 /\ 1 .. 0 = {}
        BY <2>2, <2>3
    <3>2. {k \in 1 .. 0 : Orders[k].side = "buy"} = {}
        BY <3>1
    <3>3. HeldIn(Orders, 1, 0) = 0
        BY <3>2, FS_EmptySet DEF HeldIn, BoughtIn
    <3>4. GridOrders(Orders, test.st.lots)
        BY <3>1, <3>3 DEF GridOrders, Undoes, Stacked
    <3> QED BY <2>2, <2>3, <3>4 DEF GridInv, GridMemory
  <2> QED BY <2>4, <2>5, <2>6 DEF PromiseInv
<1>2. Inv /\ BaseInv' /\ [Next]_vars => PromiseInv'
  <2> SUFFICES ASSUME Inv, BaseInv', [Next]_vars PROVE PromiseInv'
      OBVIOUS
  <2>1. ASSUME sc' = sc, hist' = hist, test' = test, acts' = acts PROVE PromiseInv'
    <3>1. cfg' = cfg /\ Buying' = Buying /\ Orders' = Orders
        BY <2>1 DEF cfg, Buying, Orders
    <3>2. DcaInv' <=> DcaInv
        BY <2>1, <3>1 DEF DcaInv, DcaCadence, Latest
    <3>3. PositionInv' <=> PositionInv
        BY <2>1, <3>1 DEF PositionInv, PairsUp, Alternates
    <3>4. GridInv' <=> GridInv
        BY <2>1, <3>1 DEF GridInv, GridMemory, Over, Onto, Lines, CloseList, Closes, Positive
    <3> QED BY <3>1, <3>2, <3>3, <3>4 DEF PromiseInv
  <2>2. ASSUME NEW bar \in Bars, BarComes(bar) PROVE PromiseInv'
    <3>1. cfg' = cfg /\ InputsOK'
        BY <2>2, ActsStep DEF BaseInv
    <3>2. cfg.kind = "dca" => DcaInv'
        BY <2>2, <3>1, DcaKeeps DEF PromiseInv
    <3>3. cfg.kind = "grid" => GridInv'
        BY <2>2, GridKeeps DEF PromiseInv
    <3>4. cfg.kind \in {"ma", "momentum"} => PositionInv'
        BY <2>2, PositionKeeps DEF PromiseInv
    <3> QED BY <3>1, <3>2, <3>3, <3>4 DEF PromiseInv
  <2>3. CASE UNCHANGED vars
      BY <2>1, <2>3 DEF vars, testVars
  <2>4. CASE Joins
      BY <2>1, <2>4 DEF Joins, testVars
  <2>5. CASE Next
      BY <2>2, <2>3, <2>4, <2>5, NextCases
  <2> QED BY <2>3, <2>5
<1>3. Inv => StrategyContracts
  <2> SUFFICES ASSUME Inv PROVE StrategyContracts
      OBVIOUS
  <2>1. cfg.kind \in {"dca", "grid", "ma", "momentum", "rules"}
      BY ReplayAssumption DEF BaseInv, InputsOK, cfg, ValidParams
  <2>2. CASE cfg.kind = "dca"
      BY <2>2 DEF PromiseInv, DcaInv, StrategyContracts
  <2>3. CASE cfg.kind = "grid"
      BY <2>3, GridHolds DEF PromiseInv, GridInv, StrategyContracts
  <2>4. CASE cfg.kind \in {"ma", "momentum"}
      BY <2>4, PositionsAlternate DEF PromiseInv, StrategyContracts
  <2>5. CASE cfg.kind = "rules"
      BY <2>5 DEF StrategyContracts
  <2> QED BY <2>1, <2>2, <2>3, <2>4, <2>5
<1> HIDE DEF Inv
<1> QED BY <1>1, <1>2, <1>3, BaseHolds, PTL DEF Spec, Inv

-----------------------------------------------------------------------------
(* The hours of the market.                                                *)

\* When bar i of h reached the bot, with d the beginning of the next candle.
Reached(h, d, i) == IF i < Len(h) THEN h[i + 1].ts ELSE d
\* The hours are kept by a bot in phase ph that joined after jn bars, was given
\* those of sn and has the locals l.
Until(ph, sn, h) == IF ph = "tripped" THEN Last(sn) ELSE Len(h)
Loses(l) == sc.maxLoss > 0 /\ Pnl(l) <= -sc.maxLoss
Trusted(t, ts) == sc.class = "equity" => IsOpen(sc.class, t) /\ t - ts <= MaxMarkAge
GivenInHours(jn, n, sn, h, d) ==
    ToSet(sn) = {i \in jn + 1 .. n : IsOpen(sc.class, Reached(h, d, i))}
IdleOutside(ph, jn, n, h, d) == ph = "idle" <=> n > jn /\ ~IsOpen(sc.class, Reached(h, d, n))
TripsOnLoss(ph, n, l, h, d) ==
    ph = "tripped" =>
        /\ Loses(l)
        /\ \E t \in {Reached(h, d, n), Reached(h, d, n) + 1} : Trusted(t, h[n].ts)
StopsOnLoss(ph, jn, n, l, h, d) ==
    (ph = "running" /\ n > jn /\ Loses(l)) =>
        \E t \in {Reached(h, d, n), Reached(h, d, n) + 1} : ~Trusted(t, h[n].ts)
RefusedAtBell(sn, l, h, d) ==
    (cfg.kind \in Holders /\ l.refused # 0) =>
        \E i \in ToSet(sn) : ~IsOpen(sc.class, Reached(h, d, i) + 1)
KeepsHours(ph, jn, n, sn, l, h, d) ==
    /\ GivenInHours(jn, n, sn, h, d) /\ IdleOutside(ph, jn, n, h, d)
    /\ TripsOnLoss(ph, n, l, h, d) /\ StopsOnLoss(ph, jn, n, l, h, d)
    /\ RefusedAtBell(sn, l, h, d)
HoursInv ==
    /\ BaseInv /\ joined <= Len(hist)
    /\ phase = "tripped" => seen # <<>>
    /\ phase # "off" => KeepsHours(phase, joined, Until(phase, seen, hist), seen, live, hist, due)

\* That is what the property says.
LEMMA HoursMeant ==
    ASSUME HoursInv
    PROVE  SessionRespected
<1>1. \A i : Arrival(i) = Reached(hist, due, i)
    BY DEF Arrival, Reached
<1>2. CASE phase # "off"
  <2>1. KeepsHours(phase, joined, Until(phase, seen, hist), seen, live, hist, due)
      BY <1>2 DEF HoursInv
  <2> QED BY <1>1, <2>1 DEF SessionRespected, KeepsHours, GivenInHours, IdleOutside, TripsOnLoss,
              StopsOnLoss, RefusedAtBell, Until, Loses, Trusted, Holders
<1> QED BY <1>2 DEF SessionRespected

\* When the earlier bars arrived does not change with the next one.
LEMMA ArrivalsStay ==
    ASSUME BaseInv, NEW bar \in Bars, BarComes(bar)
    PROVE  /\ Len(hist) \in Nat /\ Len(hist') = Len(hist) + 1 /\ hist'[Len(hist) + 1] = bar
           /\ \A i \in 1 .. Len(hist) : /\ hist'[i] = hist[i]
                                        /\ Reached(hist', due', i) = Reached(hist, due, i)
           /\ Reached(hist', due', Len(hist) + 1) = due'
<1> DEFINE n == Len(hist)
<1>1. hist' = Append(hist, bar) /\ hist \in Seq(Bars) /\ bar.ts = due
    BY DEF BarComes, BaseInv, InputsOK
<1>2. /\ n \in Nat /\ Len(hist') = n + 1 /\ hist'[n + 1] = bar
      /\ \A i \in 1 .. n : hist'[i] = hist[i]
    BY <1>1, OneMore
<1>3. ASSUME NEW i \in 1 .. n PROVE Reached(hist', due', i) = Reached(hist, due, i)
  <2>1. CASE i = n
      BY <1>1, <1>2, <2>1 DEF Reached
  <2>2. CASE i < n
    <3>1. i + 1 \in 1 .. n /\ i < n + 1
        BY <1>2, <2>2
    <3> QED BY <1>2, <2>2, <3>1 DEF Reached
  <2>3. i = n \/ i < n
    <3> HIDE DEF n
    <3> QED BY <1>2
  <2> QED BY <2>1, <2>2, <2>3
<1>4. Reached(hist', due', n + 1) = due'
    BY <1>2 DEF Reached
<1> QED BY <1>2, <1>3, <1>4

\* The clock shows the time at which the bar came or the next.
LEMMA ClockOK ==
    ASSUME NEW now, NEW early, NEW k
    PROVE  Clock(now, early, k) \in {now, now + 1}
    BY DEF Clock

\* Of a strategy with an inventory an order is refused only after the bell.
LEMMA RefusedOnlyAtBell ==
    ASSUME BaseInv, NEW bar \in Bars, NEW now, NEW early, BotTrades(bar, now, early),
           cfg.kind \in Holders, live'.refused # live.refused
    PROVE  ~IsOpen(sc.class, now + 1)
<1> DEFINE intents == OrdersOf(bar)
           n == Len(intents)
           open == Doors(n, now, early)
<1>1. /\ MarkedLive(bar) \in LiveLocals(Step(live.st, bar).st, bar.close)
      /\ intents \in Seq(Intents) /\ MarkedLive(bar).venue.mark = bar.close
      /\ MarkedLive(bar).refused = live.refused
    BY MarkedLiveOK DEF OrdersOf
<1>2. ValidParams(cfg) /\ StateOK(cfg, live.st)
    BY ReplayAssumption DEF BaseInv, InputsOK, LiveOK, cfg
<1>3. MarketOnly(intents)
    BY <1>2, InventoryStep DEF OrdersOf
<1>4. bar.close = 0 => intents = <<>>
    BY <1>2, OnBarStep DEF Step, OrdersOf
<1>5. live'.refused = LiveOrders(MarkedLive(bar), intents, open).refused
    BY BotTradesStep DEF Traded
<1>6. n \in Nat /\ open \in [1 .. n -> BOOLEAN]
  <2>1. n \in Nat
      BY <1>1
  <2> HIDE DEF intents, n
  <2> QED BY <2>1, DoorsOK
<1> HIDE DEF intents
<1>7. bar.close # 0
  <2> SUFFICES ASSUME bar.close = 0 PROVE FALSE
      OBVIOUS
  <2>1. intents = <<>>
      BY <1>4
  <2> DEFINE st == Step(live.st, bar).st
             l == MarkedLive(bar)
             mark == bar.close
  <2>2. /\ l \in LiveLocals(st, mark) /\ l.refused = live.refused /\ intents \in Seq(Intents)
        /\ open \in [1 .. Len(intents) -> BOOLEAN]
      BY <1>1, <1>6
  <2> HIDE DEF st, l, open, n, mark
  <2>3. LiveOrders(l, intents, open) = l
      BY <2>1, <2>2, LiveOrdersOK
  <2> QED BY <1>5, <2>2, <2>3 DEF l
<1>8. bar.close > 0
    BY <1>7 DEF Bars
<1>9. ~ \A k \in 1 .. n : open[k]
  <2> HIDE DEF open
  <2> QED BY <1>1, <1>3, <1>5, <1>6, <1>8, OrdersNet DEF MarketOnly
<1>10. PICK k \in 1 .. n : ~IsOpen(sc.class, Clock(now, early, k))
    BY <1>9 DEF Doors
<1>11. IsOpen(sc.class, now)
    BY DEF BotTrades
<1> QED BY <1>10, <1>11, ClockOK

\* A bar that comes outside the hours.
LEMMA IdlingKeepsHours ==
    ASSUME HoursInv, NEW bar \in Bars, BarComes(bar), BotIdles(bar, due'),
           phase \in {"running", "idle"}
    PROVE  KeepsHours(phase', joined', Until(phase', seen', hist'), seen', live', hist', due')
<1> DEFINE n == Len(hist)
<1>1. BaseInv /\ joined <= n /\ joined \in Nat
      /\ KeepsHours(phase, joined, n, seen, live, hist, due)
    BY DEF HoursInv, Until, BaseInv, LiveOK
<1>2. /\ n \in Nat /\ Len(hist') = n + 1
      /\ \A i \in 1 .. n : Reached(hist', due', i) = Reached(hist, due, i)
      /\ Reached(hist', due', n + 1) = due'
    BY <1>1, ArrivalsStay
<1>3. phase' = "idle" /\ joined' = joined /\ seen' = seen /\ ~IsOpen(sc.class, due')
    BY DEF BotIdles
<1>4. live'.refused = live.refused
  <2>1. live \in LiveLocals(live.st, live.mark)
      BY <1>1 DEF BaseInv, LiveOK
  <2>2. live' = [live EXCEPT !.venue = UpdateMark(live.venue, bar.close).venue]
      BY DEF BotIdles
  <2> QED BY <2>1, <2>2 DEF LiveLocals
<1>5. Until(phase', seen', hist') = n + 1
    BY <1>2, <1>3 DEF Until
<1> HIDE DEF n
<1>6. ToSet(seen) = {i \in joined + 1 .. n : IsOpen(sc.class, Reached(hist, due, i))}
    BY <1>1 DEF KeepsHours, GivenInHours
<1>7. {i \in joined + 1 .. n + 1 : IsOpen(sc.class, Reached(hist', due', i))}
        = {i \in joined + 1 .. n : IsOpen(sc.class, Reached(hist, due, i))}
  <2>1. \A i : i \in joined + 1 .. n + 1 <=> i \in joined + 1 .. n \/ i = n + 1
      BY <1>1, <1>2
  <2>2. joined + 1 .. n \subseteq 1 .. n
      BY <1>1, <1>2
  <2> QED BY <1>2, <1>3, <2>1, <2>2, Zenon
<1>8. GivenInHours(joined, n + 1, seen, hist', due')
    BY <1>6, <1>7 DEF GivenInHours
<1>9. IdleOutside("idle", joined, n + 1, hist', due')
    BY <1>1, <1>2, <1>3 DEF IdleOutside
<1>10. RefusedAtBell(seen, live', hist', due')
  <2>1. ToSet(seen) \subseteq 1 .. n
      BY <1>1, <1>2, <1>6
  <2>2. RefusedAtBell(seen, live, hist, due)
      BY <1>1 DEF KeepsHours
  <2> QED BY <1>2, <1>4, <2>1, <2>2 DEF RefusedAtBell
<1> QED BY <1>3, <1>5, <1>8, <1>9, <1>10 DEF KeepsHours, TripsOnLoss, StopsOnLoss

\* A bar the bot trades on.
LEMMA TradingKeepsHours ==
    ASSUME HoursInv, NEW bar \in Bars, BarComes(bar), NEW early, BotTrades(bar, due', early),
           phase \in {"running", "idle"}
    PROVE  KeepsHours(phase', joined', Until(phase', seen', hist'), seen', live', hist', due')
<1> DEFINE n == Len(hist)
           final == Traded(bar, due', early)
           t == Clock(due', early, Len(OrdersOf(bar)) + 1)
<1>1. BaseInv /\ joined <= n /\ joined \in Nat
      /\ KeepsHours(phase, joined, n, seen, live, hist, due)
    BY DEF HoursInv, Until, BaseInv, LiveOK
<1>2. /\ n \in Nat /\ Len(hist') = n + 1 /\ hist'[n + 1] = bar
      /\ \A i \in 1 .. n : Reached(hist', due', i) = Reached(hist, due, i)
      /\ Reached(hist', due', n + 1) = due'
    BY <1>1, ArrivalsStay
<1>3. /\ joined' = joined /\ seen' = Append(seen, n + 1) /\ IsOpen(sc.class, due')
      /\ phase' \in {"running", "tripped"}
      /\ phase' = "tripped" <=> Tripped(final, t, bar.ts)
    BY DEF BotTrades, Trips
<1>4. Last(seen') = n + 1 /\ ToSet(seen') = ToSet(seen) \cup {n + 1}
  <2>1. seen \in Seq(Nat) /\ n + 1 \in Nat
      BY <1>1, <1>2 DEF BaseInv, LiveOK
  <2> HIDE DEF n
  <2>2. /\ DOMAIN seen' = 1 .. Len(seen) + 1 /\ DOMAIN seen = 1 .. Len(seen) /\ Len(seen) \in Nat
        /\ seen'[Len(seen) + 1] = n + 1 /\ Last(seen') = n + 1
        /\ \A i \in 1 .. Len(seen) : seen'[i] = seen[i]
      BY <1>3, <2>1, OneMore
  <2>3. \A i : i \in 1 .. Len(seen) + 1 <=> i \in 1 .. Len(seen) \/ i = Len(seen) + 1
      BY <2>2
  <2>4. ToSet(seen') = ToSet(seen) \cup {n + 1}
      BY <2>2, <2>3, Zenon DEF ToSet
  <2> QED BY <2>2, <2>4
<1>5. Until(phase', seen', hist') = n + 1
    BY <1>2, <1>4 DEF Until
<1>6. Pnl(live') = Pnl(final)
  <2>1. /\ live'.mark = bar.close /\ live'.pos = final.pos /\ live'.cashOut = final.cashOut
        /\ final \in LiveLocals(Step(live.st, bar).st, bar.close)
      BY <1>1, BotTradesStep
  <2>2. final.mark = bar.close
      BY <2>1 DEF LiveLocals
  <2> QED BY <2>1, <2>2 DEF Pnl
<1>7. t \in {due', due' + 1}
    BY ClockOK
<1>8. phase' = "tripped" <=> Trusted(t, bar.ts) /\ Loses(live')
    BY <1>3, <1>6 DEF Tripped, Trusted, Loses
<1>9. ToSet(seen) = {i \in joined + 1 .. n : IsOpen(sc.class, Reached(hist, due, i))}
    BY <1>1 DEF KeepsHours, GivenInHours
<1>10. live'.refused # live.refused /\ cfg.kind \in Holders => ~IsOpen(sc.class, due' + 1)
    BY <1>1, RefusedOnlyAtBell
<1> HIDE DEF n, final, t
<1>11. GivenInHours(joined, n + 1, seen', hist', due')
  <2>1. \A i : i \in joined + 1 .. n + 1 <=> i \in joined + 1 .. n \/ i = n + 1
      BY <1>1, <1>2
  <2>2. joined + 1 .. n \subseteq 1 .. n
      BY <1>1, <1>2
  <2>3. {i \in joined + 1 .. n + 1 : IsOpen(sc.class, Reached(hist', due', i))}
          = {i \in joined + 1 .. n : IsOpen(sc.class, Reached(hist, due, i))} \cup {n + 1}
      BY <1>2, <1>3, <2>1, <2>2, Zenon
  <2> QED BY <1>4, <1>9, <2>3 DEF GivenInHours
<1>12. IdleOutside(phase', joined, n + 1, hist', due')
    BY <1>2, <1>3 DEF IdleOutside
<1>13. TripsOnLoss(phase', n + 1, live', hist', due') /\ StopsOnLoss(phase', joined, n + 1, live', hist', due')
    BY <1>2, <1>7, <1>8 DEF TripsOnLoss, StopsOnLoss
<1>14. RefusedAtBell(seen', live', hist', due')
  <2>1. ToSet(seen) \subseteq 1 .. n
      BY <1>1, <1>2, <1>9
  <2>2. RefusedAtBell(seen, live, hist, due)
      BY <1>1 DEF KeepsHours
  <2>3. CASE live'.refused = live.refused
      BY <1>2, <1>4, <2>1, <2>2, <2>3 DEF RefusedAtBell
  <2>4. CASE live'.refused # live.refused
      BY <1>2, <1>4, <1>10, <2>4 DEF RefusedAtBell
  <2> QED BY <2>3, <2>4
<1> QED BY <1>3, <1>5, <1>11, <1>12, <1>13, <1>14 DEF KeepsHours

\* The stream goes on without a bot that tripped.
LEMMA StoppedKeepsHours ==
    ASSUME HoursInv, NEW bar \in Bars, BarComes(bar), UNCHANGED liveVars, phase = "tripped"
    PROVE  KeepsHours(phase', joined', Until(phase', seen', hist'), seen', live', hist', due')
<1> DEFINE n == Last(seen)
<1>1. BaseInv /\ seen # <<>> /\ joined \in Nat
      /\ KeepsHours("tripped", joined, n, seen, live, hist, due)
    BY DEF HoursInv, Until, BaseInv, LiveOK
<1>2. /\ phase' = "tripped" /\ joined' = joined /\ seen' = seen /\ live' = live
      /\ Until(phase', seen', hist') = n
    BY DEF liveVars, Until
<1>3. n \in 1 .. Len(hist)
  <2>1. seen \in Seq(Nat) /\ \A i \in DOMAIN seen : seen[i] \in DOMAIN hist
      BY <1>1 DEF BaseInv, LiveOK
  <2>2. Len(seen) \in DOMAIN seen
      BY <1>1, <2>1
  <2>3. hist \in Seq(Bars)
      BY <1>1 DEF BaseInv, InputsOK
  <2> QED BY <2>1, <2>2, <2>3 DEF Last
<1>4. /\ Len(hist) \in Nat
      /\ \A i \in 1 .. Len(hist) : /\ hist'[i] = hist[i]
                                   /\ Reached(hist', due', i) = Reached(hist, due, i)
    BY <1>1, ArrivalsStay
<1> HIDE DEF n
<1>5. \A i \in joined + 1 .. n : i \in 1 .. Len(hist)
    BY <1>1, <1>3, <1>4
<1>6. GivenInHours(joined, n, seen, hist', due')
  <2>1. ToSet(seen) = {i \in joined + 1 .. n : IsOpen(sc.class, Reached(hist, due, i))}
      BY <1>1 DEF KeepsHours, GivenInHours
  <2>2. {i \in joined + 1 .. n : IsOpen(sc.class, Reached(hist', due', i))}
          = {i \in joined + 1 .. n : IsOpen(sc.class, Reached(hist, due, i))}
      BY <1>4, <1>5
  <2> QED BY <2>1, <2>2 DEF GivenInHours
<1>7. IdleOutside("tripped", joined, n, hist', due') /\ TripsOnLoss("tripped", n, live, hist', due')
  <2>1. hist'[n] = hist[n] /\ Reached(hist', due', n) = Reached(hist, due, n)
      BY <1>3, <1>4
  <2> QED BY <1>1, <2>1 DEF KeepsHours, IdleOutside, TripsOnLoss
<1>8. RefusedAtBell(seen, live, hist', due')
  <2>1. ToSet(seen) \subseteq 1 .. Len(hist)
      BY <1>1, <1>5 DEF KeepsHours, GivenInHours
  <2>2. RefusedAtBell(seen, live, hist, due)
      BY <1>1 DEF KeepsHours
  <2> QED BY <1>4, <2>1, <2>2 DEF RefusedAtBell
<1> QED BY <1>2, <1>6, <1>7, <1>8 DEF KeepsHours, StopsOnLoss

\* The market's hours are kept, whatever the strategy, the stream, the calendar
\* and the age up to which a mark is trusted: a bot is given exactly the bars
\* that arrive in the hours, idles exactly outside them, trips on a loss it may
\* act on and stops on every such loss, and has an order refused only when the
\* bell rang after its bar.
THEOREM SessionKept == Spec => []SessionRespected
<1>1. Init => HoursInv
  <2> SUFFICES ASSUME Init PROVE HoursInv
      OBVIOUS
  <2>1. phase = "off" /\ joined = 0 /\ hist = <<>>
      BY DEF Init
  <2> QED BY <2>1, BaseInit DEF HoursInv
<1>2. HoursInv /\ BaseInv' /\ [Next]_vars => HoursInv'
  <2> SUFFICES ASSUME HoursInv, BaseInv', [Next]_vars PROVE HoursInv'
      OBVIOUS
  <2>1. BaseInv /\ joined <= Len(hist) /\ Len(hist) \in Nat
      BY DEF HoursInv, BaseInv, InputsOK
  <2>2. CASE UNCHANGED vars
      BY <2>2 DEF HoursInv, vars, testVars, liveVars, KeepsHours, GivenInHours, IdleOutside,
                  TripsOnLoss, StopsOnLoss, RefusedAtBell, Until, Loses, Trusted, Pnl, IsOpen, cfg
  <2>3. CASE Joins
    <3>1. /\ phase = "off" /\ phase' = "running" /\ joined' = Len(hist) /\ sc' = sc
          /\ hist' = hist /\ due' = due /\ live' = live /\ seen' = seen
        BY <2>3 DEF Joins
    <3>2. seen = <<>> /\ live.refused = 0
        BY <2>1, <3>1 DEF BaseInv, LiveOK, StartOfLive
    <3>3. ToSet(seen) = {} /\ Len(hist) + 1 .. Len(hist) = {}
        BY <2>1, <3>2 DEF ToSet
    <3>4. KeepsHours("running", Len(hist), Len(hist), seen, live, hist, due)
        BY <2>1, <3>2, <3>3 DEF KeepsHours, GivenInHours, IdleOutside, TripsOnLoss, StopsOnLoss,
                                RefusedAtBell
    <3>5. KeepsHours(phase, joined, Until(phase, seen, hist), seen, live, hist, due)'
        BY <3>1, <3>4 DEF KeepsHours, GivenInHours, IdleOutside, TripsOnLoss, StopsOnLoss,
                          RefusedAtBell, Until, Loses, Trusted, Pnl, IsOpen, cfg
    <3> QED BY <2>1, <3>1, <3>5 DEF HoursInv
  <2>4. ASSUME NEW bar \in Bars, BarComes(bar) PROVE HoursInv'
    <3>1. sc' = sc /\ cfg' = cfg /\ Len(hist') = Len(hist) + 1
        BY <2>1, <2>4, ArrivalsStay DEF BarComes, cfg
    <3>2. CASE phase = "off" /\ UNCHANGED liveVars
      <4>1. phase' = "off" /\ joined' <= Len(hist')
        <5>1. phase' = "off" /\ joined' = joined /\ joined \in Nat
            BY <2>1, <3>2 DEF liveVars, BaseInv, LiveOK
        <5> QED BY <2>1, <3>1, <5>1
      <4> QED BY <4>1 DEF HoursInv
    <3>3. CASE phase # "off" \/ ~UNCHANGED liveVars
      <4>1. /\ KeepsHours(phase', joined', Until(phase', seen', hist'), seen', live', hist', due')
            /\ joined' <= Len(hist') /\ (phase' = "tripped" => seen' # <<>>)
        <5>1. CASE phase = "tripped" /\ UNCHANGED liveVars
          <6>1. joined' = joined /\ seen' = seen
              BY <5>1 DEF liveVars
          <6>2. joined \in Nat /\ seen # <<>>
              BY <2>1, <5>1 DEF BaseInv, LiveOK, HoursInv
          <6> QED BY <2>1, <2>4, <3>1, <5>1, <6>1, <6>2, StoppedKeepsHours
        <5>2. CASE phase \in {"running", "idle"} /\ LiveBar(bar, due')
          <6>1. BotIdles(bar, due') \/ \E early : BotTrades(bar, due', early)
              BY <2>1, <5>2, LiveBarCases
          <6>2. joined \in Nat /\ seen \in Seq(Nat) /\ Len(hist) + 1 \in Nat
              BY <2>1 DEF BaseInv, LiveOK
          <6>3. CASE BotIdles(bar, due')
            <7>1. joined' = joined /\ phase' = "idle"
                BY <6>3 DEF BotIdles
            <7> QED BY <2>1, <2>4, <3>1, <5>2, <6>2, <6>3, <7>1, IdlingKeepsHours
          <6>4. ASSUME NEW early, BotTrades(bar, due', early)
                PROVE  /\ KeepsHours(phase', joined', Until(phase', seen', hist'), seen', live', hist', due')
                       /\ joined' <= Len(hist') /\ (phase' = "tripped" => seen' # <<>>)
            <7>1. joined' = joined /\ seen' = Append(seen, Len(hist) + 1)
                BY <6>4 DEF BotTrades
            <7>2. seen' # <<>>
                BY <6>2, <7>1, OneMore
            <7> QED BY <2>1, <2>4, <3>1, <5>2, <6>2, <6>4, <7>1, <7>2, TradingKeepsHours
          <6> QED BY <6>1, <6>3, <6>4
        <5> QED BY <2>4, <3>3, <5>1, <5>2 DEF BarComes
      <4>2. KeepsHours(phase, joined, Until(phase, seen, hist), seen, live, hist, due)'
          BY <3>1, <4>1 DEF KeepsHours, GivenInHours, IdleOutside, TripsOnLoss, StopsOnLoss,
                            RefusedAtBell, Until, Loses, Trusted, Pnl, IsOpen, cfg
      <4> QED BY <4>1, <4>2 DEF HoursInv
    <3> QED BY <3>2, <3>3
  <2> QED BY <2>1, <2>2, <2>3, <2>4, NextCases
<1>3. HoursInv => SessionRespected
    BY HoursMeant
<1> QED BY <1>1, <1>2, <1>3, BaseHolds, PTL DEF Spec
=============================================================================
