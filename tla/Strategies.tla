---------------------------- MODULE Strategies ------------------------------
(***************************************************************************)
(* The bar strategies of xbt_core/strategies as functions: what on_bar     *)
(* returns for a bar and what it leaves in the bot's StrategyState.        *)
(*                                                                         *)
(* A bar is its timestamp and close.  Money and quantities are integers in *)
(* units small enough for every quotient of an instance to be exact.  A    *)
(* configuration is a record with a kind and the parameters of that kind;  *)
(* what the constructors refuse is in module StrategyConfig.  The symbol of *)
(* a bar is always the strategy's own.                                     *)
(***************************************************************************)
EXTENDS Integers, FiniteSets, Sequences, SequencesExt

CONSTANTS
    Literals,      \* the numbers among the operands, by their text
    MaxNesting     \* how deep the conditions of an instance are nested

ASSUME StrategiesAssumption == MaxNesting \in Nat

NoTime == -1
NoPrice == 0
NoValue == <<0, 0>>     \* an indicator without enough history (None)

Total(s) ==
    LET sum[k \in 0 .. Len(s)] == IF k = 0 THEN 0 ELSE sum[k - 1] + s[k]
    IN  sum[Len(s)]
LastN(s, n) == SubSeq(s, Len(s) - n + 1, Len(s))

\* The members of a finite set of numbers, the smallest first.
Ascending(S) ==
    CHOOSE s \in [1 .. Cardinality(S) -> S] :
        \A i, j \in DOMAIN s : i < j => s[i] < s[j]

\* Mutant: the window is one close too long.
SlideLong(closes, n, close) ==
    LET s == Append(closes, close) IN IF Len(s) > n + 1 THEN Tail(s) ELSE s

\* Append a close to a window of at most n closes.
Slide(closes, n, close) ==
    LET s == Append(closes, close) IN IF Len(s) > n THEN Tail(s) ELSE s

\* StrategyState of a new bot: last_action_ts_ms and the slots of custom that
\* the strategies use.
FreshState(cfg) ==
    [last |-> NoTime, prev |-> NoPrice, lots |-> <<>>, closes |-> <<>>,
     above |-> {}, inPosition |-> FALSE, held |-> 0,
     truth |-> {},
     fired |-> [i \in IF cfg.kind = "rules" THEN DOMAIN cfg.rules ELSE {} |-> NoTime],
     values |-> <<>>]

Quantity(quote, price) == quote \div price
Market(side, qty) == [side |-> side, type |-> "market", qty |-> qty, limit |-> NoPrice]
Quiet(st) == [st |-> st, intents |-> <<>>]

-----------------------------------------------------------------------------
\* Mutant: a bar exactly one interval after the last buy is too early.
DcaBarLate(p, st, bar) ==
    IF st.last # NoTime /\ bar.ts - st.last <= p.interval THEN Quiet(st)
    ELSE [st |-> [st EXCEPT !.last = bar.ts],
          intents |-> <<Market("buy", Quantity(p.quote, bar.close))>>]

\* DcaStrategy: buy when the interval has passed since the last buy.
DcaBar(p, st, bar) ==
    IF st.last # NoTime /\ bar.ts - st.last < p.interval THEN Quiet(st)
    ELSE [st |-> [st EXCEPT !.last = bar.ts],
          intents |-> <<Market("buy", Quantity(p.quote, bar.close))>>]

\* GridParams.lines and quote_per_level.
Lines(p) ==
    {p.lower + i * ((p.upper - p.lower) \div (p.levels - 1)) : i \in 0 .. p.levels - 1}
QuotePerLevel(p) == p.total \div (p.levels - 1)

\* GridStrategy: a lot is bought at every line the close fell to or through,
\* and one is sold, last in first out, at every line it rose to or through.
GridBar(p, st, bar) ==
    LET seen == [st EXCEPT !.prev = bar.close]
        fell == {l \in Lines(p) : st.prev > l /\ l >= bar.close}
        rose == {l \in Lines(p) : st.prev < l /\ l <= bar.close}
        n == Cardinality(fell)
        buys == [i \in 1 .. n |-> Quantity(QuotePerLevel(p), Ascending(fell)[n + 1 - i])]
        sold == IF Cardinality(rose) < Len(st.lots) THEN Cardinality(rose)
                                                    ELSE Len(st.lots)
    IN  IF st.prev = NoPrice THEN Quiet(seen)
        ELSE IF bar.close < st.prev
        THEN [st |-> [seen EXCEPT !.lots = @ \o buys],
              intents |-> [i \in DOMAIN buys |-> Market("buy", buys[i])]]
        ELSE [st |-> [seen EXCEPT !.lots = SubSeq(@, 1, Len(@) - sold)],
              intents |-> [i \in 1 .. sold |->
                              Market("sell", st.lots[Len(st.lots) + 1 - i])]]

\* Open or close the one position of a crossover or momentum bot.
Enter(p, st, bar) ==
    LET qty == Quantity(p.quote, bar.close)
    IN  [st |-> [st EXCEPT !.inPosition = TRUE, !.held = qty],
         intents |-> <<Market("buy", qty)>>]

\* Mutant: the position is closed but the held quantity stays.
LeaveHolding(st) ==
    [st |-> [st EXCEPT !.inPosition = FALSE],
     intents |-> <<Market("sell", st.held)>>]
Leave(st) ==
    [st |-> [st EXCEPT !.inPosition = FALSE, !.held = 0],
     intents |-> <<Market("sell", st.held)>>]

\* MaCrossoverStrategy: above holds the last relation of the two averages, and
\* is empty before there was one.
MaBar(p, st, bar) ==
    LET closes == Slide(st.closes, p.slow, bar.close)
        above == Total(LastN(closes, p.fast)) * p.slow > Total(closes) * p.fast
        seen == [st EXCEPT !.closes = closes]
        next == [seen EXCEPT !.above = {above}]
    IN  IF Len(closes) < p.slow THEN Quiet(seen)
        ELSE CASE st.above = {FALSE} /\ above /\ ~st.inPosition -> Enter(p, next, bar)
               [] st.above = {TRUE} /\ ~above /\ st.inPosition -> Leave(next)
               [] OTHER -> Quiet(next)

\* MomentumStrategy: the change over the window in percent of its first close.
MomentumBar(p, st, bar) ==
    LET closes == Slide(st.closes, p.lookback + 1, bar.close)
        seen == [st EXCEPT !.closes = closes]
        change == 100 * (bar.close - closes[1])
        bar100 == p.threshold * closes[1]
    IN  IF Len(closes) < p.lookback + 1 THEN Quiet(seen)
        ELSE CASE ~st.inPosition /\ change >= bar100 -> Enter(p, seen, bar)
               [] st.inPosition /\ change <= -bar100 -> Leave(seen)
               [] OTHER -> Quiet(seen)

-----------------------------------------------------------------------------
(* The rule engine.  Values are fractions <<numerator, denominator>>.      *)

\* IndicatorDef.window and RuleEngineParams.max_window.
WindowOf(ind) ==
    CASE ind.fn = "rsi" -> ind.period + 1
      [] ind.fn = "sma" -> ind.period
      [] OTHER -> 1
MaxWindow(p) ==
    LET windows == {WindowOf(p.indicators[i]) : i \in DOMAIN p.indicators} \cup {1}
    IN  CHOOSE w \in windows : \A v \in windows : v <= w

\* _compute: rsi is 100 - 100 / (1 + gains/losses).
Compute(ind, closes) ==
    LET recent == LastN(closes, ind.period + 1)
        delta(i) == recent[i + 1] - recent[i]
        gains == Total([i \in 1 .. ind.period |-> IF delta(i) > 0 THEN delta(i) ELSE 0])
        losses == Total([i \in 1 .. ind.period |-> IF delta(i) < 0 THEN -delta(i) ELSE 0])
    IN  CASE ind.fn = "value" -> <<ind.value, 1>>
          [] ind.fn = "price" -> <<Last(closes), 1>>
          [] ind.fn = "sma" ->
                IF Len(closes) < ind.period THEN NoValue
                ELSE <<Total(LastN(closes, ind.period)), ind.period>>
          [] ind.fn = "rsi" ->
                IF Len(closes) < ind.period + 1 THEN NoValue
                ELSE IF losses # 0 THEN <<100 * gains, gains + losses>>
                ELSE IF gains > 0 THEN <<100, 1>> ELSE <<50, 1>>

\* _indicator_values: the reserved price and the declared indicators.
Values(p, closes) ==
    [n \in {p.indicators[i].name : i \in DOMAIN p.indicators} \cup {"price"} |->
        IF n = "price" THEN <<Last(closes), 1>>
        ELSE LET i == CHOOSE k \in DOMAIN p.indicators : p.indicators[k].name = n
             IN  Compute(p.indicators[i], closes)]

\* _operand: a literal, or vals.get(token).
Operand(token, values) ==
    IF token \in DOMAIN Literals THEN <<Literals[token], 1>>
    ELSE IF token \in DOMAIN values THEN values[token] ELSE NoValue

Less(a, b) == a[1] * b[2] < b[1] * a[2]

\* A comparison that misses a value is false, whatever its operator.
Compares(c, cur, prev) ==
    LET l == Operand(c.left, cur)
        r == Operand(c.right, cur)
        lp == Operand(c.left, prev)
        rp == Operand(c.right, prev)
    IN  /\ NoValue \notin {l, r}
        /\ CASE c.op = "<" -> Less(l, r)
             [] c.op = "<=" -> ~Less(r, l)
             [] c.op = ">" -> Less(r, l)
             [] c.op = ">=" -> ~Less(l, r)
             [] c.op = "==" -> ~Less(l, r) /\ ~Less(r, l)
             [] c.op = "crossover" -> NoValue \notin {lp, rp} /\ ~Less(rp, lp) /\ Less(r, l)
             [] c.op = "crossunder" -> NoValue \notin {lp, rp} /\ ~Less(lp, rp) /\ Less(l, r)

\* A condition and the conditions nested in it.
TermsOf(c) == IF c.op \in {"and", "or", "not"} THEN ToSet(c.terms) ELSE {}
Parts(cond) ==
    LET at[depth \in 0 .. MaxNesting] ==
            IF depth = 0 THEN {cond} ELSE UNION {TermsOf(c) : c \in at[depth - 1]}
    IN  UNION {at[depth] : depth \in 0 .. MaxNesting}

\* _eval.
Eval(cond, cur, prev) ==
    LET holds[c \in Parts(cond)] ==
            CASE c.op = "not" -> ~holds[c.terms[1]]
              [] c.op = "and" -> \A i \in DOMAIN c.terms : holds[c.terms[i]]
              [] c.op = "or" -> \E i \in DOMAIN c.terms : holds[c.terms[i]]
              [] OTHER -> Compares(c, cur, prev)
    IN  holds[cond]

\* _intent; a limit price that is not positive gives no order.
LimitPrice(do, bar) == (bar.close * (100 + do.offset)) \div 100
Orderable(do, bar) == do.type = "limit" => LimitPrice(do, bar) > 0
RuleIntent(do, bar) ==
    IF do.type = "limit"
    THEN [side |-> do.side, type |-> "limit", limit |-> LimitPrice(do, bar),
          qty |-> Quantity(do.quote, LimitPrice(do, bar))]
    ELSE Market(do.side, Quantity(do.quote, bar.close))

\* Mutant: a rise is remembered only if the rule fired.
RuleBarForgetful(p, st, bar) ==
    LET closes == Slide(st.closes, MaxWindow(p), bar.close)
        cur == Values(p, closes)
        true == {i \in DOMAIN p.rules : Eval(p.rules[i].when, cur, st.values)}
        cooled(i) == \/ p.rules[i].cooldown = 0 \/ st.fired[i] = NoTime
                     \/ bar.ts - st.fired[i] >= p.rules[i].cooldown
        fires == {i \in true \ st.truth : cooled(i) /\ Orderable(p.rules[i].do, bar)}
        order == Ascending(fires)
    IN  [st |-> [st EXCEPT !.closes = closes, !.values = cur,
                           !.truth = (true \cap @) \cup fires,
                           !.fired = [i \in DOMAIN p.rules |->
                                         IF i \in fires THEN bar.ts ELSE @[i]]],
         intents |-> [k \in DOMAIN order |-> RuleIntent(p.rules[order[k]].do, bar)]]

\* A rule fires when its condition rose, its cooldown is over and it has an
\* order to place.  The rise is forgotten whether or not it fired.
RuleBar(p, st, bar) ==
    LET closes == Slide(st.closes, MaxWindow(p), bar.close)
        cur == Values(p, closes)
        true == {i \in DOMAIN p.rules : Eval(p.rules[i].when, cur, st.values)}
        cooled(i) == \/ p.rules[i].cooldown = 0 \/ st.fired[i] = NoTime
                     \/ bar.ts - st.fired[i] >= p.rules[i].cooldown
        fires == {i \in true \ st.truth : cooled(i) /\ Orderable(p.rules[i].do, bar)}
        order == Ascending(fires)
    IN  [st |-> [st EXCEPT !.closes = closes, !.values = cur, !.truth = true,
                           !.fired = [i \in DOMAIN p.rules |->
                                         IF i \in fires THEN bar.ts ELSE @[i]]],
         intents |-> [k \in DOMAIN order |-> RuleIntent(p.rules[order[k]].do, bar)]]

-----------------------------------------------------------------------------
\* What the constructors of the parameters accept (Builds of StrategyConfig).
ValidParams(p) ==
    /\ p.kind \in {"dca", "grid", "ma", "momentum", "rules"}
    /\ CASE p.kind = "dca" -> p.quote \in Nat \ {0} /\ p.interval \in Nat \ {0}
         [] p.kind = "grid" -> /\ {p.lower, p.upper, p.total} \subseteq Nat \ {0}
                               /\ p.upper > p.lower /\ p.levels \in Nat \ {0, 1}
         [] p.kind = "ma" -> /\ p.fast \in Nat \ {0, 1} /\ p.slow \in Nat
                             /\ p.slow > p.fast /\ p.quote \in Nat \ {0}
         [] p.kind = "momentum" ->
               {p.lookback, p.threshold, p.quote} \subseteq Nat \ {0}
         [] p.kind = "rules" ->
               /\ Len(p.indicators) \in Nat /\ DOMAIN p.indicators = 1 .. Len(p.indicators)
               /\ \A i \in DOMAIN p.indicators :
                     /\ p.indicators[i].fn \in {"value", "price", "sma", "rsi"}
                     /\ p.indicators[i].period \in Nat /\ p.indicators[i].value \in Int
               /\ Len(p.rules) \in Nat \ {0} /\ DOMAIN p.rules = 1 .. Len(p.rules)
               /\ \A i \in DOMAIN p.rules :
                     LET rule == p.rules[i]
                     IN  /\ \A c \in Parts(rule.when) : TermsOf(c) \subseteq Parts(rule.when)
                         /\ rule.do.side \in {"buy", "sell"}
                         /\ rule.do.type \in {"market", "limit"}
                         /\ rule.do.quote \in Nat \ {0} /\ rule.do.offset \in Int
                         /\ rule.cooldown \in Nat

\* on_bar of the strategy build_strategy makes of a configuration.  None of them
\* looks further at a close that is not positive.
OnBar(cfg, st, bar) ==
    IF bar.close <= 0 THEN Quiet(st)
    ELSE CASE cfg.kind = "dca" -> DcaBar(cfg, st, bar)
           [] cfg.kind = "grid" -> GridBar(cfg, st, bar)
           [] cfg.kind = "ma" -> MaBar(cfg, st, bar)
           [] cfg.kind = "momentum" -> MomentumBar(cfg, st, bar)
           [] cfg.kind = "rules" -> RuleBar(cfg, st, bar)
=============================================================================
