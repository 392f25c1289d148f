------------------------------- MODULE Replay --------------------------------
(***************************************************************************)
(* One stream of bars, replayed by the backtester (backtest/engine.py) and *)
(* traded by a paper bot (Supervisor._run over a PaperExchangeAdapter),    *)
(* with the same strategy.  The bot may start in the middle of the stream, *)
(* loses bars and orders to the market's hours, and may trip its breaker.  *)
(*                                                                         *)
(* A step is one bar: everything either side does with it.  Between two    *)
(* bars nothing else touches the strategy, the venue or the ledger.  The   *)
(* bars' times and closes are the input.  The bot's feed takes a candle    *)
(* for closed once the next one has begun (_latest_closed), and a candle   *)
(* begins with its first trade: the last bar of a session reaches the bot  *)
(* when the next session trades.                                           *)
(***************************************************************************)
EXTENDS Strategies, PaperVenue, MarketSession

CONSTANTS
    Scenarios,     \* the configurations replayed, with their bars
    StartingCash,
    MaxMarkAge     \* max_mark_age_ms of an equity bot

ASSUME ReplayAssumption ==
    /\ \A s \in Scenarios :
          /\ s.class \in {"crypto", "equity"} /\ ValidParams(s.cfg)
          /\ s.prices \subseteq Nat /\ s.gaps \subseteq Nat \ {0}
          /\ s.starts \subseteq Nat /\ s.joins \subseteq Nat /\ s.maxBars \in Nat
          /\ s.maxLoss \in Nat
    /\ StartingCash \in Nat \ {0} /\ MaxMarkAge \in Nat

VARIABLES
    sc,       \* the scenario: input
    hist,     \* the bars so far: input
    due,      \* when the next candle begins, and the last one reaches the bot
    test,     \* run_backtest's locals: state, venue, cash, position
    curve,    \* its equity curve
    acts,     \* history: the orders of every bar in the backtest
    fires,    \* history: the rules that fired at every bar in the backtest
    phase,    \* the bot: "off", "running", "idle", "tripped"
    live,     \* the bot's state, venue, ledger and last mark, and as history
              \*   the net quantity of its refused orders
    joined,   \* history: bars before the bot was started
    seen      \* history: indices of the bars its strategy was given

liveVars == <<phase, live, joined, seen>>
testVars == <<test, curve, acts, fires>>
vars == <<sc, hist, due, testVars, liveVars>>

cfg == sc.cfg

Init ==
    /\ sc \in Scenarios
    /\ due \in sc.starts
    /\ hist = <<>> /\ curve = <<>> /\ acts = <<>> /\ fires = <<>>
    /\ test = [st |-> FreshState(cfg), venue |-> EmptyVenue,
               cash |-> StartingCash, pos |-> 0]
    /\ phase = "off"
    /\ live = [st |-> FreshState(cfg), venue |-> EmptyVenue,
               pos |-> 0, cashOut |-> 0, mark |-> NoPrice, refused |-> 0]
    /\ joined = 0 /\ seen = <<>>

Signed(side, qty) == IF side = "buy" THEN qty ELSE -qty

-----------------------------------------------------------------------------
\* What the backtest does with a fill.
TestFill(t, fill) ==
    LET notional == fill.qty * fill.price
    IN  [t EXCEPT !.pos = @ + Signed(fill.side, fill.qty),
                  !.cash = @ - Signed(fill.side, notional) - fill.fee]

\* ... with an order, whose fills it books, and with the orders of a bar.
TestPlace(t, intent) ==
    LET result == Place(t.venue, intent)
        booked[k \in 0 .. Len(result.fills)] ==
            IF k = 0 THEN [t EXCEPT !.venue = result.venue]
            ELSE TestFill(booked[k - 1], result.fills[k])
    IN  booked[Len(result.fills)]
TestOrders(t, intents) ==
    LET placed[k \in 0 .. Len(intents)] ==
            IF k = 0 THEN t ELSE TestPlace(placed[k - 1], intents[k])
    IN  placed[Len(intents)]

\* run_backtest, the body of the loop over the bars.
TestBar(bar) ==
    LET step == OnBar(cfg, test.st, bar)
        start == [test EXCEPT !.st = step.st,
                              !.venue = UpdateMark(@, bar.close).venue]
    IN  /\ test' = TestOrders(start, step.intents)
        /\ curve' = Append(curve, test'.cash + test'.pos * bar.close)
        /\ acts' = Append(acts, step.intents)
        /\ fires' = Append(fires, {i \in DOMAIN step.st.fired : step.st.fired[i] = bar.ts})

\* Mutant: a sell earns its fee.
LedgerFillFeeEarned(l, fill) ==
    LET notional == fill.qty * fill.price
    IN  [l EXCEPT !.pos = @ + Signed(fill.side, fill.qty),
                  !.cashOut = IF fill.side = "buy" THEN @ + (notional + fill.fee)
                                                   ELSE @ - (notional + fill.fee)]

\* PnLLedger.apply and PnLLedger.pnl.
LedgerFill(l, fill) ==
    LET notional == fill.qty * fill.price
    IN  [l EXCEPT !.pos = @ + Signed(fill.side, fill.qty),
                  !.cashOut = IF fill.side = "buy" THEN @ + (notional + fill.fee)
                                                   ELSE @ - (notional - fill.fee)]
Pnl(l) == l.pos * l.mark - l.cashOut

\* Mutant: a mark of any age, at any hour.
TrippedAnyMark(l, now, ts) ==
    sc.maxLoss > 0 /\ Pnl(l) <= -sc.maxLoss

\* _tripped: without a cap (0) never.  An equity bot does not trust a mark when
\* the market is closed or the mark is old.
Tripped(l, now, ts) ==
    /\ sc.class = "equity" => IsOpen(sc.class, now) /\ now - ts <= MaxMarkAge
    /\ sc.maxLoss > 0 /\ Pnl(l) <= -sc.maxLoss

\* An order of the bot goes to its venue while the market is open or not.
LivePlace(l, intent, open) ==
    LET result == GuardedPlace(l.venue, intent, open)
        booked[k \in 0 .. Len(result.fills)] ==
            IF k = 0
            THEN [l EXCEPT !.venue = result.venue,
                           !.refused = IF result.status # "rejected" THEN @
                                       ELSE @ + Signed(intent.side, intent.qty)]
            ELSE LedgerFill(booked[k - 1], result.fills[k])
    IN  booked[Len(result.fills)]
LiveOrders(l, intents, open) ==
    LET placed[k \in 0 .. Len(intents)] ==
            IF k = 0 THEN l ELSE LivePlace(placed[k - 1], intents[k], open[k])
    IN  placed[Len(intents)]

\* The clock is read for every order of a bar and once more for the breaker.
\* The bar came at time now, and time passes after the first reads.
Clock(now, early, k) == IF k <= early THEN now ELSE now + 1
Doors(n, now, early) == [k \in 1 .. n |-> IsOpen(sc.class, Clock(now, early, k))]

\* A bar reaches the bot at time now.  The mark goes to the venue before the bar
\* goes to the loop.
LiveBar(bar, now) ==
    LET venue == UpdateMark(live.venue, bar.close).venue
        step == OnBar(cfg, live.st, bar)
        n == Len(step.intents)
        start == [live EXCEPT !.st = step.st, !.venue = venue, !.mark = bar.close]
    IN  IF ~IsOpen(sc.class, now)
        THEN /\ phase' = "idle"
             /\ live' = [live EXCEPT !.venue = venue]
             /\ UNCHANGED <<joined, seen>>
        ELSE \E early \in IF sc.class = "equity" THEN 0 .. n + 1 ELSE {0} :
             LET final == LiveOrders(start, step.intents, Doors(n, now, early))
                 trips == Tripped(final, Clock(now, early, n + 1), bar.ts)
             IN  /\ phase' = IF trips THEN "tripped" ELSE "running"
                 /\ live' = IF trips THEN [final EXCEPT !.venue.resting = <<>>] ELSE final
                 /\ seen' = Append(seen, Len(hist) + 1)
                 /\ UNCHANGED joined

\* The bot is started.
Join ==
    /\ phase = "off" /\ Len(hist) \in sc.joins
    /\ phase' = "running"
    /\ joined' = Len(hist)
    /\ UNCHANGED <<sc, hist, due, testVars, live, seen>>

\* The next bar, for the backtest and, if it is up, for the bot, which gets it
\* when its successor begins.
NewBar(close, gap) ==
    LET bar == [ts |-> due, close |-> close]
    IN  /\ Len(hist) < sc.maxBars
        /\ hist' = Append(hist, bar)
        /\ due' = due + gap
        /\ TestBar(bar)
        /\ IF phase \in {"off", "tripped"} THEN UNCHANGED liveVars
           ELSE LiveBar(bar, due + gap)
        /\ UNCHANGED sc

\* The stream is over.
Done ==
    /\ Len(hist) = sc.maxBars
    /\ UNCHANGED vars

Next ==
    \/ Join \/ Done
    \/ \E close \in sc.prices, gap \in sc.gaps : NewBar(close, gap)

Spec == Init /\ [][Next]_vars

-----------------------------------------------------------------------------
(* Properties.                                                             *)

Positive(bars) == Kept(bars, {b \in ToSet(bars) : b.close > 0})
Closes(bars) == [i \in DOMAIN bars |-> bars[i].close]
Orders == FlattenSeq(acts)

\* Parity: the equity the backtest computes is the starting cash and the PnL of
\* the paper bot's ledger on the same bars, to the last unit, for a bot that
\* was started with the stream and whose market never closes.  Both leave out
\* the limit orders that filled, whose fills update_mark returns to callers who
\* drop them.
EquityMatchesLedger ==
    (sc.class = "crypto" /\ phase # "off" /\ joined = 0 /\ seen # <<>>) =>
        /\ curve[Len(seen)] = StartingCash + Pnl(live)
        /\ phase = "running" => test.pos = live.pos /\ test.venue = live.venue

\* What a strategy believes it holds.
Inventory(st) ==
    CASE cfg.kind \in {"ma", "momentum"} -> st.held
      [] cfg.kind = "grid" -> Total(st.lots)
      [] OTHER -> 0

\* The strategy's inventory and the bot's ledger differ by the refused orders
\* and nothing else, so the bot is short by no more than the buys that were
\* refused.
InventoryGap ==
    cfg.kind \in {"ma", "momentum", "grid"} =>
        /\ Inventory(live.st) = live.pos + live.refused
        /\ live.pos >= -live.refused
        /\ sc.class = "crypto" => live.refused = 0

\* The truth of rule i after the first n positive bars, from all of them.
TruthAt(closes, i, n) ==
    LET now == Values(cfg, SubSeq(closes, 1, n))
        before == IF n = 1 THEN <<>> ELSE Values(cfg, SubSeq(closes, 1, n - 1))
    IN  n > 0 /\ Eval(cfg.rules[i].when, now, before)

\* A rule fires on a bar exactly if its condition, evaluated on the whole
\* history, turned true at that bar, there is an order to place and no firing
\* is less than a cooldown ago.
RuleFiresExactly ==
    (cfg.kind = "rules" /\ hist # <<>> /\ Last(hist).close > 0) =>
        LET closes == Closes(Positive(hist))
            n == Len(closes)
            bar == Last(hist)
        IN  \A i \in DOMAIN cfg.rules :
                (i \in Last(fires)) <=>
                    /\ TruthAt(closes, i, n) /\ ~TruthAt(closes, i, n - 1)
                    /\ Orderable(cfg.rules[i].do, bar)
                    /\ \A m \in 1 .. Len(hist) - 1 :
                          i \in fires[m] =>
                              bar.ts - hist[m].ts >= cfg.rules[i].cooldown

\* Once a bot has seen as many bars as its longest window it computes what the
\* backtest computes from the whole history, and a bar later its rules have the
\* same truth values: the bot and the backtest fire the same rules from the bar
\* after on, those without a cooldown.
WarmStartConverges ==
    LET n == Len(Positive([i \in DOMAIN seen |-> hist[seen[i]]]))
        fired(st, i) == st.fired[i] = Last(hist).ts
    IN  (phase = "running" /\ sc.class = "crypto") =>
        CASE cfg.kind = "rules" ->
                /\ n >= MaxWindow(cfg) =>
                      live.st.closes = test.st.closes /\ live.st.values = test.st.values
                /\ n >= MaxWindow(cfg) + 1 => live.st.truth = test.st.truth
                /\ n >= MaxWindow(cfg) + 2 =>
                      \A i \in DOMAIN cfg.rules :
                          cfg.rules[i].cooldown = 0 =>
                              fired(live.st, i) = fired(test.st, i)
          [] cfg.kind = "ma" ->
                n >= cfg.slow =>
                    live.st.closes = test.st.closes /\ live.st.above = test.st.above
          [] cfg.kind = "momentum" ->
                n >= cfg.lookback + 1 => live.st.closes = test.st.closes
          [] OTHER -> TRUE

\* DCA buys on a positive bar exactly if no buy is less than an interval ago.
DcaCadence ==
    \A k \in DOMAIN hist :
        (acts[k] # <<>>) <=>
            /\ hist[k].close > 0
            /\ \A m \in 1 .. k - 1 :
                  acts[m] # <<>> => hist[k].ts - hist[m].ts >= cfg.interval

\* Crossover and momentum bots alternate between buying and selling what they
\* bought.
OnePosition ==
    \A j \in DOMAIN Orders :
        /\ Orders[j].side = IF j % 2 = 1 THEN "buy" ELSE "sell"
        /\ j % 2 = 0 => Orders[j].qty = Orders[j - 1].qty

\* Every sell of a grid undoes the latest buy that no sell has undone, and a
\* grid holds at most one lot per line, and one more for every close that fell
\* onto a line exactly.
Bought(a, b) == Cardinality({k \in a .. b : Orders[k].side = "buy"})
GridInventory ==
    LET n == Len(Orders)
        touched == {k \in 2 .. Len(Positive(hist)) :
                       /\ Positive(hist)[k].close \in Lines(cfg)
                       /\ Positive(hist)[k].close < Positive(hist)[k - 1].close}
    IN  /\ \A j \in 1 .. n : Orders[j].side = "sell" =>
              \E i \in 1 .. j - 1 :
                  /\ Orders[i].side = "buy" /\ Orders[i].qty = Orders[j].qty
                  /\ 2 * Bought(i, j) = j - i + 1
                  /\ \A k \in i .. j : 2 * Bought(i, k) >= k - i + 1
        /\ Bought(1, n) - (n - Bought(1, n)) <= cfg.levels + Cardinality(touched)

StrategyContracts ==
    CASE cfg.kind = "dca" -> DcaCadence
      [] cfg.kind = "grid" -> GridInventory
      [] cfg.kind \in {"ma", "momentum"} -> OnePosition
      [] OTHER -> TRUE

\* When bar i reached the bot, or reaches it.
Arrival(i) == IF i < Len(hist) THEN hist[i + 1].ts ELSE due

\* The market's hours.  Of the bars since its start, a bot's strategy was given
\* those that arrived in them and no others, up to the one that tripped it; the
\* bot is idle exactly from a bar that arrived outside them to the next one
\* inside; it trips on a loss, and stops on none that the market was open and
\* the mark young enough to act on; and an order of a strategy with an
\* inventory is refused only if the closing bell rang after its bar had come.
SessionRespected ==
    phase # "off" =>
        LET n == IF phase = "tripped" THEN Last(seen) ELSE Len(hist)
            loss == sc.maxLoss > 0 /\ Pnl(live) <= -sc.maxLoss
            trusted(t) == sc.class = "equity" =>
                              IsOpen(sc.class, t) /\ t - hist[n].ts <= MaxMarkAge
            checked == {Arrival(n), Arrival(n) + 1}
        IN  /\ ToSet(seen) = {i \in joined + 1 .. n : IsOpen(sc.class, Arrival(i))}
            /\ phase = "idle" <=> n > joined /\ ~IsOpen(sc.class, Arrival(n))
            /\ phase = "tripped" => loss /\ \E t \in checked : trusted(t)
            /\ (phase = "running" /\ n > joined /\ loss) =>
                  \E t \in checked : ~trusted(t)
            /\ (cfg.kind \in {"ma", "momentum", "grid"} /\ live.refused # 0) =>
                  \E i \in ToSet(seen) : ~IsOpen(sc.class, Arrival(i) + 1)
=============================================================================
