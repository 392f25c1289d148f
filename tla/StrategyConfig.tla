--------------------------- MODULE StrategyConfig ----------------------------
(***************************************************************************)
(* What a strategy configuration passes through on its way to a bot: the   *)
(* gateway's zod schema (packages/shared/src/bot.ts), the engines' pydantic *)
(* schema (xbt_core/strategy_config.py), the strategy classes themselves   *)
(* (build_strategy and the __post_init__ of their parameters), and, for an *)
(* authored one, the dashboard's rule editor (web dashboard/page.tsx).     *)
(*                                                                         *)
(* A configuration is a record of a kind and its fields.  A decimal is the *)
(* text it is sent as.  A condition has an op and all of left, right and   *)
(* terms, those that are not given being NoText and <<>>; the empty text   *)
(* is a text.  A field with a default is given.  Symbols and explanations  *)
(* are left out.                                                           *)
(***************************************************************************)
EXTENDS Integers, FiniteSets, Sequences, SequencesExt

CONSTANTS
    Decimals,     \* the decimal texts of the instance, with their values
    PlainTexts,   \* those the gateway's regular expression matches
    MaxNesting    \* how deep the conditions of an instance are nested

ASSUME ConfigAssumption ==
    PlainTexts \subseteq DOMAIN Decimals /\ MaxNesting \in Nat \ {0}

NoText == "not given"
Empty == ""
Comparators == {"<", "<=", ">", ">=", "==", "crossover", "crossunder"}
BoolOps == {"and", "or", "not"}
Windowed == {"sma", "rsi"}
Reserved == {"price"}

Positive(text) == text \in DOMAIN Decimals /\ Decimals[text] > 0
IsNumber(token) == token \in DOMAIN Decimals
Names(cfg) == {cfg.indicators[i].name : i \in DOMAIN cfg.indicators}
Known(cfg, tokens) ==
    \A token \in tokens : token \in Names(cfg) \cup Reserved \/ IsNumber(token)
Distinct(cfg) == Cardinality(Names(cfg)) = Len(cfg.indicators)

\* Condition c and what is nested in it, at each depth, if one looks at the terms
\* below the given operators only.
Levels(c, ops) ==
    LET level[depth \in 0 .. MaxNesting] ==
            IF depth = 0 THEN {c}
            ELSE UNION {ToSet(p.terms) : p \in {q \in level[depth - 1] : q.op \in ops}}
    IN  level
Parts(c, ops) == UNION {Levels(c, ops)[depth] : depth \in 0 .. MaxNesting}
Ops == Comparators \cup BoolOps

-----------------------------------------------------------------------------
(* The gateway: shape only.                                                *)

ZodCondition(c) ==
    \A p \in Parts(c, BoolOps) :
        \/ p.op \in Comparators /\ p.left # NoText /\ p.right # NoText
        \/ p.op \in BoolOps /\ p.terms # <<>>

ZodRule(r) ==
    /\ ZodCondition(r.when)
    /\ r.do.quote \in PlainTexts /\ r.do.offset \in PlainTexts \cup {NoText}
    /\ r.cooldown >= 0

ZodAccepts(cfg) ==
    CASE cfg.kind = "dca" -> cfg.quote \in PlainTexts /\ cfg.interval > 0
      [] cfg.kind = "grid" -> /\ {cfg.lower, cfg.upper, cfg.total} \subseteq PlainTexts
                              /\ cfg.levels \in 2 .. 200
      [] cfg.kind = "ma" -> cfg.fast >= 2 /\ cfg.slow >= 3 /\ cfg.quote \in PlainTexts
      [] cfg.kind = "rules" ->
            /\ \A i \in ToSet(cfg.indicators) :
                  i.name # Empty /\ i.period >= 0 /\ i.value \in PlainTexts
            /\ cfg.rules # <<>> /\ \A r \in ToSet(cfg.rules) : ZodRule(r)
      [] cfg.kind = "ai" -> /\ cfg.quote \in PlainTexts /\ cfg.interval >= 1
                            /\ cfg.lookback \in 2 .. 500
      [] cfg.kind = "python" -> cfg.key # Empty

\* A zod object drops the keys it does not know.
Stripped(c) ==
    LET stripped[p \in Parts(c, BoolOps)] ==
            IF p.op \in Comparators THEN [p EXCEPT !.terms = <<>>]
            ELSE [p EXCEPT !.left = NoText, !.right = NoText,
                           !.terms = [i \in DOMAIN p.terms |-> stripped[p.terms[i]]]]
    IN  stripped[c]
Forwarded(cfg) ==
    IF cfg.kind # "rules" THEN cfg
    ELSE LET rule(r) == [r EXCEPT !.when = Stripped(r.when)]
         IN  [cfg EXCEPT !.rules = [i \in DOMAIN cfg.rules |-> rule(cfg.rules[i])]]

-----------------------------------------------------------------------------
(* The engines' schema.                                                    *)

SchemaCondition(c) ==
    \A p \in Parts(c, Ops) :
        \/ p.op \in BoolOps /\ p.terms # <<>> /\ (p.op = "not" => Len(p.terms) = 1)
        \/ p.op \in Comparators /\ p.left # NoText /\ p.right # NoText

\* _referenced_tokens: a comparison that carries terms is looked at as if it
\* were a combination of them.
ReferencedTokens(c) ==
    UNION {{p.left, p.right} : p \in {q \in Parts(c, Ops) : q.terms = <<>>}} \ {NoText}

SchemaRule(r) ==
    /\ SchemaCondition(r.when)
    /\ Positive(r.do.quote)
    /\ r.do.offset = NoText \/ IsNumber(r.do.offset)
    /\ r.do.type = "limit" => r.do.offset # NoText
    /\ r.cooldown >= 0

SchemaAccepts(cfg) ==
    CASE cfg.kind = "dca" -> Positive(cfg.quote) /\ cfg.interval > 0
      [] cfg.kind = "grid" -> /\ Positive(cfg.lower) /\ Positive(cfg.upper)
                              /\ Positive(cfg.total) /\ cfg.levels \in 2 .. 200
      [] cfg.kind = "ma" -> /\ cfg.fast >= 2 /\ cfg.slow >= 3 /\ Positive(cfg.quote)
                            /\ cfg.slow > cfg.fast
      [] cfg.kind = "rules" ->
            /\ \A i \in ToSet(cfg.indicators) :
                  /\ i.name # Empty /\ IsNumber(i.value)
                  /\ i.period >= 0 /\ (i.fn \in Windowed => i.period >= 2)
            /\ cfg.rules # <<>> /\ \A r \in ToSet(cfg.rules) : SchemaRule(r)
            /\ Distinct(cfg) /\ Names(cfg) \cap Reserved = {}
            /\ \A r \in ToSet(cfg.rules) : Known(cfg, ReferencedTokens(r.when))
      [] cfg.kind = "ai" -> /\ Positive(cfg.quote) /\ cfg.interval >= 1
                            /\ cfg.lookback \in 2 .. 500
      [] cfg.kind = "python" -> cfg.key # Empty

-----------------------------------------------------------------------------
(* build_strategy, for what the schema has accepted.                       *)

\* _parse_condition and _referenced_names: a comparison's terms are dropped.
ParsesCondition(c) ==
    \A p \in Parts(c, BoolOps) :
        \/ p.op \in Comparators
        \/ p.op \in BoolOps /\ IF p.op = "not" THEN Len(p.terms) = 1 ELSE p.terms # <<>>
ReferencedNames(c) ==
    UNION {{p.left, p.right} : p \in {q \in Parts(c, BoolOps) : q.op \in Comparators}}

\* RuleEngineParams.from_config.
RulesBuild(cfg) ==
    /\ Distinct(cfg) /\ Names(cfg) \cap Reserved = {} /\ cfg.rules # <<>>
    /\ \A i \in ToSet(cfg.indicators) : i.fn \in Windowed => i.period >= 2
    /\ \A r \in ToSet(cfg.rules) :
          /\ ParsesCondition(r.when)
          /\ Positive(r.do.quote) /\ (r.do.type = "limit" => r.do.offset # NoText)
          /\ Known(cfg, ReferencedNames(r.when))

Builds(cfg) ==
    CASE cfg.kind = "dca" -> Positive(cfg.quote) /\ cfg.interval > 0
      [] cfg.kind = "grid" -> /\ Positive(cfg.lower) /\ Positive(cfg.total)
                              /\ Decimals[cfg.upper] > Decimals[cfg.lower]
                              /\ cfg.levels >= 2
      [] cfg.kind = "ma" -> cfg.fast >= 2 /\ cfg.slow > cfg.fast /\ Positive(cfg.quote)
      [] cfg.kind = "rules" -> RulesBuild(cfg)
      [] cfg.kind = "ai" -> Positive(cfg.quote) /\ cfg.interval >= 1 /\ cfg.lookback >= 2
      [] cfg.kind = "python" -> cfg.key = "momentum" /\ cfg.params = "valid"

-----------------------------------------------------------------------------
(* The dashboard's rule editor, which knows flat rules only: one           *)
(* combination of comparisons.                                             *)

IsCmp(c) == c.op \in Comparators /\ c.left # NoText /\ c.right # NoText
Comparison(op, left, right) == [op |-> op, left |-> left, right |-> right, terms |-> <<>>]

Leaves(c) ==
    LET leaves[p \in Parts(c, Ops)] ==
            IF IsCmp(p) THEN <<Comparison(p.op, p.left, p.right)>>
            ELSE FlattenSeq([i \in DOMAIN p.terms |-> leaves[p.terms[i]]])
    IN  leaves[c]

\* Mutant: the editor trusts a single term below a combination of any kind.
FlattensSilently(c) ==
    IsCmp(c) \/ \A t \in ToSet(c.terms) : IsCmp(t)

\* Whether the editor shows the condition as it is, and warns otherwise.
Flattens(c) ==
    IsCmp(c) \/ (c.op \in {"and", "or"} /\ \A t \in ToSet(c.terms) : IsCmp(t))

\* authoredToCustomCfg.
FormRule(r) ==
    [combinator |-> IF r.when.op = "or" THEN "or" ELSE "and",
     terms |-> IF Leaves(r.when) = <<>> THEN <<Comparison(">", "price", "0")>>
                                        ELSE Leaves(r.when),
     do |-> r.do, cooldown |-> r.cooldown]
AuthoredToForm(cfg) ==
    [indicators |-> cfg.indicators,
     rules |-> [i \in DOMAIN cfg.rules |-> FormRule(cfg.rules[i])],
     warned |-> {i \in DOMAIN cfg.rules : \/ ~Flattens(cfg.rules[i].when)
                                          \/ Leaves(cfg.rules[i].when) = <<>>}]

\* buildCustomRules: of an indicator and an action only what its kind needs.
BuildCustomRules(form) ==
    LET indicator(i) == [i EXCEPT !.period = IF i.fn \in Windowed THEN @ ELSE 0,
                                  !.value = IF i.fn = "value" THEN @ ELSE "0"]
        when(r) == IF Len(r.terms) = 1 THEN r.terms[1]
                   ELSE [op |-> r.combinator, left |-> NoText, right |-> NoText,
                         terms |-> r.terms]
        do(d) == [d EXCEPT !.offset = IF d.type = "limit" THEN @ ELSE NoText]
    IN  [kind |-> "rules",
         indicators |-> [i \in DOMAIN form.indicators |-> indicator(form.indicators[i])],
         rules |-> [i \in DOMAIN form.rules |->
                       [when |-> when(form.rules[i]), do |-> do(form.rules[i].do),
                        cooldown |-> form.rules[i].cooldown]]]
=============================================================================
