--------------------------- MODULE MCStartPipeline ---------------------------
(***************************************************************************)
(* Instances of StartPipeline for TLC.                                     *)
(***************************************************************************)
EXTENDS StartPipeline

CONSTANTS k1, k2, r1, r2, r3, a1, a2, x1, x2

DecimalValues == "-5" :> -5 @@ "0" :> 0 @@ "5" :> 5 @@ "8" :> 8 @@ "1E+2" :> 100
Plain == {"-5", "0", "5", "8"}

Grid(lower, upper) ==
    [kind |-> "grid", lower |-> lower, upper |-> upper, levels |-> 3, total |-> "8"]
Dca(quote) == [kind |-> "dca", quote |-> quote, interval |-> 1]
Ma(fast, slow) == [kind |-> "ma", fast |-> fast, slow |-> slow, quote |-> "5"]
Ai == [kind |-> "ai", quote |-> "5", interval |-> 1, lookback |-> 2]
Python(params) == [kind |-> "python", key |-> "momentum", params |-> params]

Cmp(left, right) == Comparison("<", left, right)
All(op, terms) == [op |-> op, left |-> NoText, right |-> NoText, terms |-> terms]
Ind(name, fn, period) == [name |-> name, fn |-> fn, period |-> period, value |-> "8"]
Buy(quote) == [side |-> "buy", type |-> "market", quote |-> quote, offset |-> NoText]
SellAt(offset) == [side |-> "sell", type |-> "limit", quote |-> "5", offset |-> offset]
Rules(indicators, when, do) ==
    [kind |-> "rules", indicators |-> indicators,
     rules |-> <<[when |-> when, do |-> do, cooldown |-> 0]>>]

\* Conditions over two indicators, nested up to two deep.
Atoms == {Cmp("a", "price"), Cmp("5", "b")}
Flat == Atoms \cup {All(op, <<c>>) : op \in BoolOps, c \in Atoms}
              \cup {All(op, <<Cmp("a", "price"), Cmp("5", "b")>>) : op \in BoolOps}
Nested == Flat \cup {All(op, <<c, d>>) : op \in {"and", "or"}, c \in Flat, d \in Flat}
               \cup {All("not", <<c>>) : c \in Flat}
Sources == <<Ind("a", "sma", 2), Ind("b", "value", 0)>>

\* What the model may come up with: the conditions above, unknown names, names
\* hidden behind terms that do not count, periods that are too short, duplicate
\* and reserved names, orders without a price, operands that are empty, numbers in scientific
\* notation and texts that are none.
Ideas ==
    {Rules(Sources, c, SellAt("-5")) : c \in Nested}
    \cup {Rules(Sources, Cmp("a", "c"), Buy("5")),
          Rules(Sources, [Cmp("a", "c") EXCEPT !.terms = <<Cmp("a", "b")>>], Buy("5")),
          Rules(Sources, [All("or", <<Cmp("a", "b")>>) EXCEPT !.left = "c"], Buy("5")),
          Rules(Sources, All("and", <<>>), Buy("5")),
          Rules(<<Ind("a", "rsi", 1)>>, Cmp("a", "5"), Buy("5")),
          Rules(<<Ind("a", "sma", 2), Ind("a", "rsi", 2)>>, Cmp("a", "5"), Buy("5")),
          Rules(<<Ind("price", "sma", 2)>>, Cmp("price", "5"), Buy("5")),
          Rules(<<Ind("a", "price", 2)>>, Cmp("a", "8"), [SellAt("5") EXCEPT !.type = "market"]),
          Rules(Sources, Cmp("a", Empty), Buy("5")),
          Rules(<<[Ind("b", "value", 0) EXCEPT !.value = "none"]>>, Cmp("b", "5"), Buy("5")),
          Rules(Sources, Cmp("a", "b"), SellAt("none")),
          Rules(Sources, Cmp("a", "b"), SellAt(NoText)),
          Rules(Sources, Cmp("a", "b"), Buy("-5")),
          Rules(Sources, Cmp("a", "b"), Buy("1E+2"))}

Nothing ==
    [checkouts |-> {}, statuses |-> 0, starts |-> <<>>, activations |-> {},
     secrets |-> 0, keys |-> {}, ideas |-> {}, allowLive |-> TRUE, aiEngine |-> TRUE]
Request(bot, config, live) == [bot |-> bot, config |-> config, live |-> live]
Paper(one, two, three) ==
    [Nothing EXCEPT !.aiEngine = FALSE,
        !.starts = r1 :> Request("b1", one, FALSE) @@ r2 :> Request("b1", two, FALSE)
                   @@ r3 :> Request("b1", three, FALSE)]

AllScenarios ==
    { \* two checkouts, and one with a longer history
      [Nothing EXCEPT !.checkouts = {k1, k2}, !.statuses = 2],
      [Nothing EXCEPT !.checkouts = {k1}, !.statuses = 4],
      \* live starts while the account changes
      [Nothing EXCEPT !.starts = r1 :> Request("b1", Dca("5"), TRUE),
                      !.checkouts = {k1}, !.statuses = 2,
                      !.activations = {a1}, !.secrets = 1, !.keys = {x1}],
      [Nothing EXCEPT !.starts = r1 :> Request("b1", Dca("5"), TRUE), !.allowLive = FALSE,
                      !.checkouts = {k1}, !.statuses = 1,
                      !.activations = {a1, a2}, !.secrets = 2, !.keys = {x1, x2}],
      [Nothing EXCEPT !.starts = r1 :> Request("b1", Ai, FALSE)
                                 @@ r2 :> Request("b1", Python("valid"), FALSE),
                      !.checkouts = {k1}, !.statuses = 2],
      \* concurrent starts of one bot
      Paper(Dca("5"), Grid("8", "5"), Grid("5", "8")),
      Paper(Dca("-5"), Ma(3, 3), Python("malformed")),
      Paper(Dca("1E+2"), Ma(2, 3), Python("invalid")),
      \* an authored strategy is edited and started
      [Nothing EXCEPT !.ideas = Ideas, !.starts = r1 :> Request("b1", None, FALSE)] }
=============================================================================
