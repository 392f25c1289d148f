------------------------------ MODULE MCReplay -------------------------------
(***************************************************************************)
(* Instances of Replay for TLC.  Quotes, closes and rates are chosen such  *)
(* that every quotient is exact.                                           *)
(***************************************************************************)
EXTENDS Replay

LiteralValues == "8" :> 8 @@ "30" :> 30

Cmp(op, left, right) == [op |-> op, left |-> left, right |-> right, terms |-> <<>>]
Combine(op, terms) == [op |-> op, terms |-> terms]
Indicator(name, fn, period) ==
    [name |-> name, fn |-> fn, period |-> period, value |-> 0]
MarketOrder(side) == [side |-> side, type |-> "market", quote |-> 96, offset |-> 0]
LimitOrder(side, offset) ==
    [side |-> side, type |-> "limit", quote |-> 96, offset |-> offset]
Rule(when, do, cooldown) == [when |-> when, do |-> do, cooldown |-> cooldown]

Dca == [kind |-> "dca", quote |-> 96, interval |-> 2]
Grid == [kind |-> "grid", lower |-> 4, upper |-> 12, levels |-> 3, total |-> 192]
Ma == [kind |-> "ma", fast |-> 2, slow |-> 3, quote |-> 96]
Momentum == [kind |-> "momentum", lookback |-> 1, threshold |-> 50, quote |-> 96]

\* A crossover with a cooldown, and a condition that is true while there is not
\* yet enough history.
CrossRules ==
    [kind |-> "rules", indicators |-> <<Indicator("fast", "sma", 2)>>,
     rules |-> <<Rule(Cmp("crossover", "price", "fast"), MarketOrder("buy"), 2),
                 Rule(Combine("not", <<Cmp(">=", "price", "fast")>>),
                      MarketOrder("sell"), 3)>>]

\* An oscillator with limit orders on both sides.
RsiRules ==
    [kind |-> "rules", indicators |-> <<Indicator("rsi", "rsi", 2)>>,
     rules |-> <<Rule(Combine("or", <<Cmp("<", "rsi", "30"), Cmp("==", "price", "8")>>),
                      LimitOrder("buy", -50), 0),
                 Rule(Combine("and", <<Cmp(">", "rsi", "30"), Cmp("<=", "8", "price")>>),
                      LimitOrder("sell", 50), 0),
                 Rule(Cmp("crossunder", "price", "8"), LimitOrder("buy", -100), 0)>>]

Crypto(c, prices, gaps, joins, maxBars, maxLoss) ==
    [class |-> "crypto", cfg |-> c, prices |-> prices, gaps |-> gaps,
     starts |-> {1}, joins |-> joins, maxBars |-> maxBars, maxLoss |-> maxLoss]
Equity(c, prices, gaps, starts, maxBars, maxLoss) ==
    [class |-> "equity", cfg |-> c, prices |-> prices, gaps |-> gaps,
     starts |-> starts, joins |-> {0}, maxBars |-> maxBars, maxLoss |-> maxLoss]

AllScenarios ==
    { Crypto(Dca, {0, 8}, {1, 2}, {0, 2}, 5, 160),
      Crypto(Grid, {0, 4, 8, 10, 14}, {1}, {0}, 5, 0),
      Crypto(Ma, {4, 8, 12}, {1}, {0, 1}, 7, 0),
      Crypto(Momentum, {4, 8, 12}, {1}, {0, 1}, 6, 160),
      Crypto(CrossRules, {4, 8, 12}, {1, 2}, {0, 1}, 5, 300),
      Crypto(RsiRules, {0, 4, 8, 12}, {1}, {0, 1}, 6, 0),
      Equity(Momentum, {4, 8}, {1, 3}, {1, 12}, 6, 120),
      Equity(Grid, {6, 8}, {1, 2, 11}, {1, 17}, 5, 160) }
=============================================================================
