-------------------------- MODULE Strategies_proofs ---------------------------
(***************************************************************************)
(* Facts about the operators the strategies are built from.                *)
(***************************************************************************)
EXTENDS Strategies, Recursion_proofs, FiniteSetTheorems, SequenceTheorems, TLAPS

-----------------------------------------------------------------------------
(* Finite sets of numbers.                                                 *)

\* A finite set of numbers that is not empty has a largest member.
LEMMA Largest ==
    ASSUME NEW S, IsFiniteSet(S), S \subseteq Int, S # {}
    PROVE  \E m \in S : \A x \in S : x <= m
<1> DEFINE HasLargest(T) == \E m \in T : \A x \in T : x <= m
           Q == {n \in Nat : \A T \in SUBSET S :
                                (Cardinality(T) = n /\ T # {}) => HasLargest(T)}
<1>1. 0 \in Q
    BY FS_EmptySet, FS_Subset
<1>2. ASSUME NEW n \in Nat, n \in Q PROVE n + 1 \in Q
  <2> SUFFICES ASSUME NEW T \in SUBSET S, Cardinality(T) = n + 1, T # {}
               PROVE  HasLargest(T)
      OBVIOUS
  <2>1. PICK x \in T : TRUE
      OBVIOUS
  <2>2. IsFiniteSet(T)
      BY FS_Subset
  <2>3. Cardinality(T \ {x}) = n
    <3>1. Cardinality(T \ {x}) = Cardinality(T) - 1
        BY <2>1, <2>2, FS_RemoveElement
    <3> HIDE DEF Q
    <3> QED BY <3>1
  <2>4. CASE T \ {x} = {}
      BY <2>1, <2>4
  <2>5. CASE T \ {x} # {}
    <3>1. HasLargest(T \ {x})
        BY <1>2, <2>3, <2>5
    <3>2. PICK m \in T \ {x} : \A y \in T \ {x} : y <= m
        BY <3>1
    <3>3. m \in Int /\ x \in Int /\ T \subseteq Int
        OBVIOUS
    <3>4. CASE m <= x
        BY <3>2, <3>3, <3>4
    <3>5. CASE x <= m
        BY <3>2, <3>3, <3>5
    <3> QED BY <3>3, <3>4, <3>5
  <2> QED BY <2>4, <2>5
<1>3. Nat \subseteq Q
  <2> HIDE DEF Q
  <2> QED BY <1>1, <1>2, Induction
<1>4. Cardinality(S) \in Nat /\ S \in SUBSET S
    BY FS_CardinalityType
<1> QED BY <1>3, <1>4

\* Ascending enumerates a finite set of numbers.
IsAscending(s, S) ==
    /\ s \in [1 .. Cardinality(S) -> S]
    /\ \A i, j \in DOMAIN s : i < j => s[i] < s[j]
\* Every finite set of integers has an ascending enumeration.
LEMMA AscendingExists ==
    ASSUME NEW S, IsFiniteSet(S), S \subseteq Int
    PROVE  \E s : IsAscending(s, S)
<1> DEFINE Q == {n \in Nat : \A T \in SUBSET S :
                                Cardinality(T) = n => \E s : IsAscending(s, T)}
<1>1. 0 \in Q
  <2> SUFFICES ASSUME NEW T \in SUBSET S, Cardinality(T) = 0
               PROVE  \E s : IsAscending(s, T)
      OBVIOUS
  <2>1. IsAscending([i \in 1 .. 0 |-> i], T)
      BY DEF IsAscending
  <2> QED BY <2>1
<1>2. ASSUME NEW n \in Nat, n \in Q PROVE n + 1 \in Q
  <2> SUFFICES ASSUME NEW T \in SUBSET S, Cardinality(T) = n + 1
               PROVE  \E s : IsAscending(s, T)
      OBVIOUS
  <2>1. IsFiniteSet(T) /\ T # {} /\ T \subseteq Int
    <3>1. IsFiniteSet(T) /\ T \subseteq Int
        BY FS_Subset
    <3> QED BY <3>1, FS_EmptySet
  <2>2. PICK m \in T : \A x \in T : x <= m
      BY <2>1, Largest
  <2>3. Cardinality(T \ {m}) = n
    <3>1. Cardinality(T \ {m}) = Cardinality(T) - 1
        BY <2>1, <2>2, FS_RemoveElement
    <3> HIDE DEF Q
    <3> QED BY <3>1
  <2>4. PICK r : IsAscending(r, T \ {m})
      BY <1>2, <2>3
  <2>5. r \in [1 .. n -> T \ {m}] /\ \A i, j \in 1 .. n : i < j => r[i] < r[j]
      BY <2>3, <2>4 DEF IsAscending
  <2> DEFINE s == [i \in 1 .. n + 1 |-> IF i = n + 1 THEN m ELSE r[i]]
  <2>6. s \in [1 .. n + 1 -> T]
      BY <2>5
  <2>7. ASSUME NEW i \in 1 .. n + 1, NEW j \in 1 .. n + 1, i < j PROVE s[i] < s[j]
    <3>1. i \in 1 .. n /\ s[i] = r[i] /\ r[i] \in T \ {m}
        BY <2>5, <2>7
    <3>2. CASE j = n + 1
      <4>1. s[j] = m /\ r[i] <= m /\ r[i] # m /\ r[i] \in Int /\ m \in Int
          BY <2>1, <2>2, <3>1, <3>2
      <4> QED BY <3>1, <4>1
    <3>3. CASE j # n + 1
        BY <2>5, <2>7, <3>1, <3>3
    <3> QED BY <3>2, <3>3
  <2>8. IsAscending(s, T)
    <3> HIDE DEF s
    <3> QED BY <2>6, <2>7 DEF IsAscending
  <2> QED BY <2>8
<1>3. Nat \subseteq Q
  <2> HIDE DEF Q
  <2> QED BY <1>1, <1>2, Induction
<1>4. Cardinality(S) \in Nat /\ S \in SUBSET S
    BY FS_CardinalityType
<1> QED BY <1>3, <1>4

\* So Ascending, which chooses one, returns one.
LEMMA AscendingIsOne ==
    ASSUME NEW S, IsFiniteSet(S), S \subseteq Int
    PROVE  IsAscending(Ascending(S), S)
<1>1. PICK s : IsAscending(s, S)
    BY AscendingExists
<1>2. s \in [1 .. Cardinality(S) -> S] /\ \A i, j \in DOMAIN s : i < j => s[i] < s[j]
    BY <1>1 DEF IsAscending
<1> QED BY <1>2 DEF IsAscending, Ascending

-----------------------------------------------------------------------------
(* Sums.                                                                   *)

\* The running sums that Total is defined by.
Sums(s) == CHOOSE sum : sum = [k \in 0 .. Len(s) |-> IF k = 0 THEN 0 ELSE sum[k - 1] + s[k]]
\* The running sums exist, and Total is the last of them.
LEMMA SumsExist ==
    ASSUME NEW s \in Seq(Int)
    PROVE  /\ Sums(s) \in [0 .. Len(s) -> Int]
           /\ Sums(s)[0] = 0
           /\ \A k \in 1 .. Len(s) : Sums(s)[k] = Sums(s)[k - 1] + s[k]
           /\ Total(s) = Sums(s)[Len(s)]
<1> DEFINE n == Len(s)
           F == [k \in 1 .. n |-> [x \in Int |-> x + s[k]]]
           IsSums(g) == g = [k \in 0 .. n |-> IF k = 0 THEN 0 ELSE g[k - 1] + s[k]]
<1>1. F \in [1 .. n -> [Int -> Int]] /\ n \in Nat /\ 0 \in Int
    OBVIOUS
<1>2. Unfolds(n, Int, 0, F)
  <2> HIDE DEF F, n
  <2> QED BY <1>1, Recursion
<1>3. PICK g \in [0 .. n -> Int] : g[0] = 0 /\ \A k \in 1 .. n : g[k] = F[k][g[k - 1]]
  <2> HIDE DEF F, n
  <2> QED BY <1>2 DEF Unfolds
<1>4. \A k \in 1 .. n : g[k] = g[k - 1] + s[k]
  <2>1. \A k \in 1 .. n : k - 1 \in 0 .. n
      OBVIOUS
  <2>2. \A k \in 1 .. n : \A x \in Int : F[k][x] = x + s[k]
      OBVIOUS
  <2> HIDE DEF F
  <2> QED BY <1>3, <2>1, <2>2
<1>5. IsSums(g)
    BY <1>3, <1>4
<1>6. IsSums(Sums(s))
    BY <1>5 DEF Sums
<1> DEFINE Q == {k \in 0 .. n : Sums(s)[k] \in Int}
<1>7. 0 \in Q
    BY <1>6
<1>8. \A k \in 0 .. n - 1 : k \in Q => k + 1 \in Q
    BY <1>6
<1>9. 0 .. n \subseteq Q
  <2> HIDE DEF Q, n
  <2> QED BY <1>1, <1>7, <1>8, BoundedInduction
<1>10. Total(s) = Sums(s)[n]
    BY DEF Total, Sums
<1>11. \A k \in 0 .. n : Sums(s)[k] \in Int
    BY <1>9
<1>12. Sums(s) = [k \in 0 .. n |-> Sums(s)[k]]
    BY <1>6
<1>13. Sums(s) \in [0 .. n -> Int]
    BY <1>11, <1>12
<1>14. Sums(s)[0] = 0
    BY <1>6
<1>15. \A k \in 1 .. n : Sums(s)[k] = Sums(s)[k - 1] + s[k]
  <2>1. \A k \in 1 .. n : k \in 0 .. n /\ k # 0
      OBVIOUS
  <2> QED BY <1>6, <2>1
<1> QED BY <1>10, <1>13, <1>14, <1>15

\* One more number adds itself to the total.
LEMMA TotalAppend ==
    ASSUME NEW s \in Seq(Int), NEW x \in Int
    PROVE  /\ Total(s) \in Int
           /\ Total(<<>>) = 0
           /\ Total(Append(s, x)) = Total(s) + x
<1> DEFINE t == Append(s, x)
           Q == {k \in 0 .. Len(s) : Sums(t)[k] = Sums(s)[k]}
<1>1. t \in Seq(Int) /\ Len(t) = Len(s) + 1 /\ t[Len(s) + 1] = x
         /\ \A k \in 1 .. Len(s) : t[k] = s[k]
    OBVIOUS
<1>2. /\ Sums(t)[0] = 0 /\ Total(t) = Sums(t)[Len(t)]
      /\ \A k \in 1 .. Len(t) : Sums(t)[k] = Sums(t)[k - 1] + t[k]
    BY <1>1, SumsExist
<1>3. /\ Sums(s)[0] = 0 /\ Total(s) = Sums(s)[Len(s)] /\ Sums(s) \in [0 .. Len(s) -> Int]
      /\ \A k \in 1 .. Len(s) : Sums(s)[k] = Sums(s)[k - 1] + s[k]
    BY SumsExist
<1> HIDE DEF t
<1>4. 0 \in Q
    BY <1>2, <1>3
<1>5. ASSUME NEW k \in 0 .. Len(s) - 1, k \in Q PROVE k + 1 \in Q
  <2>1. k + 1 \in 1 .. Len(s) /\ k + 1 \in 1 .. Len(t) /\ (k + 1) - 1 = k
      BY <1>1
  <2> QED BY <1>1, <1>2, <1>3, <1>5, <2>1
<1>6. Len(s) \in Q
  <2>1. Len(s) \in Nat
      OBVIOUS
  <2>2. \A k \in 0 .. Len(s) - 1 : k \in Q => k + 1 \in Q
      BY <1>5
  <2> HIDE DEF Q
  <2>3. 0 .. Len(s) \subseteq Q
      BY <1>4, <2>1, <2>2, BoundedInduction
  <2> QED BY <2>1, <2>3
<1>7. Total(t) = Total(s) + x
  <2>1. Len(s) + 1 \in 1 .. Len(t) /\ (Len(s) + 1) - 1 = Len(s)
      BY <1>1
  <2> QED BY <1>1, <1>2, <1>3, <1>6, <2>1
<1>8. Total(<<>>) = 0
  <2>1. <<>> \in Seq(Int) /\ Len(<<>>) = 0
      OBVIOUS
  <2> QED BY <2>1, SumsExist
<1>9. Total(s) \in Int
  <2>1. Len(s) \in 0 .. Len(s)
      OBVIOUS
  <2> QED BY <1>3, <2>1
<1> QED BY <1>7, <1>8, <1>9 DEF t

-----------------------------------------------------------------------------
(* What a strategy does with a bar.                                        *)

Bars == [ts : Nat, close : Nat]
Intents == [side : {"buy", "sell"}, type : {"market", "limit"}, qty : Nat, limit : Int]

\* The states of a strategy, and that a position that is not open holds nothing.
RuleIds(p) == IF p.kind = "rules" THEN DOMAIN p.rules ELSE {}
StateOK(p, st) ==
    /\ st \in [last : Int, prev : Nat, lots : Seq(Nat), closes : Seq(Nat),
               above : {st.above}, inPosition : BOOLEAN, held : Nat,
               truth : SUBSET RuleIds(p), fired : [RuleIds(p) -> Int], values : {st.values}]
    /\ ~st.inPosition => st.held = 0
StepOK(p, step) ==
    /\ DOMAIN step = {"st", "intents"} /\ StateOK(p, step.st)
    /\ step.intents \in Seq(Intents)

\* Only some fields of the state change.
LEMMA StateChanges ==
    ASSUME NEW p, NEW st, StateOK(p, st)
    PROVE  /\ \A x \in Int : /\ StateOK(p, [st EXCEPT !.last = x])
                             /\ [st EXCEPT !.last = x].last = x
           /\ \A x \in Nat : StateOK(p, [st EXCEPT !.prev = x])
           /\ \A x \in Seq(Nat) : StateOK(p, [st EXCEPT !.lots = x])
           /\ \A x \in Seq(Nat) : StateOK(p, [st EXCEPT !.closes = x])
           /\ \A x : StateOK(p, [st EXCEPT !.above = x])
BY DEF StateOK

\* A market order is an order.
LEMMA MarketOK ==
    ASSUME NEW q \in Nat
    PROVE  /\ <<Market("buy", q)>> \in Seq(Intents) /\ <<Market("sell", q)>> \in Seq(Intents)
BY DEF Market, Intents, NoPrice

\* The quantity bought is a whole number of units.
LEMMA QuantityOK ==
    ASSUME NEW quote \in Nat, NEW price \in Nat \ {0}
    PROVE  Quantity(quote, price) \in Nat
BY DEF Quantity

\* The window of closes stays a sequence of prices.
LEMMA SlideOK ==
    ASSUME NEW s \in Seq(Nat), NEW n \in Nat, NEW c \in Nat
    PROVE  Slide(s, n, c) \in Seq(Nat)
<1>1. Append(s, c) \in Seq(Nat) /\ Append(s, c) # <<>>
    OBVIOUS
<1>2. Tail(Append(s, c)) \in Seq(Nat)
    BY <1>1, HeadTailProperties
<1> QED BY <1>1, <1>2 DEF Slide

\* A DCA bar buys exactly when the interval has passed since the last buy.
LEMMA DcaStep ==
    ASSUME NEW p, ValidParams(p), p.kind = "dca", NEW st, StateOK(p, st),
           NEW bar \in Bars, bar.close # 0
    PROVE  LET step == DcaBar(p, st, bar)
           IN  /\ StepOK(p, step)
               /\ IF st.last # NoTime /\ bar.ts - st.last < p.interval
                  THEN step.st = st /\ step.intents = <<>>
                  ELSE step.st.last = bar.ts /\ step.intents # <<>>
<1> DEFINE q == Quantity(p.quote, bar.close)
<1>1. q \in Nat
    BY QuantityOK DEF ValidParams, Bars
<1>2. <<Market("buy", q)>> \in Seq(Intents)
    BY <1>1, MarketOK
<1>3. CASE st.last # NoTime /\ bar.ts - st.last < p.interval
  <2>1. DcaBar(p, st, bar) = [st |-> st, intents |-> <<>>]
      BY <1>3 DEF DcaBar, Quiet
  <2> QED BY <2>1, <1>3 DEF StepOK
<1>4. CASE ~(st.last # NoTime /\ bar.ts - st.last < p.interval)
  <2> DEFINE bought == [st EXCEPT !.last = bar.ts]
  <2>1. DcaBar(p, st, bar) = [st |-> bought, intents |-> <<Market("buy", q)>>]
      BY <1>4 DEF DcaBar
  <2>2. bar.ts \in Int
      BY DEF Bars
  <2>3. StateOK(p, bought) /\ bought.last = bar.ts
      BY <2>2, StateChanges
  <2> HIDE DEF bought
  <2>4. <<Market("buy", q)>> # <<>>
      OBVIOUS
  <2>5. StepOK(p, DcaBar(p, st, bar))
    <3> HIDE DEF q
    <3> QED BY <2>1, <2>3, <1>2 DEF StepOK
  <2>6. DcaBar(p, st, bar).st.last = bar.ts
      BY <2>1, <2>3
  <2>7. DcaBar(p, st, bar).intents # <<>>
    <3> HIDE DEF q
    <3> QED BY <2>1, <2>4
  <2> QED BY <2>5, <2>6, <2>7, <1>4
<1> QED BY <1>3, <1>4

\* Open or close a position: what a crossover and a momentum bot do.
PositionStep(st, step) ==
    \/ /\ step.intents = <<>>
       /\ step.st.inPosition = st.inPosition /\ step.st.held = st.held
    \/ /\ ~st.inPosition /\ step.st.inPosition
       /\ step.intents = <<Market("buy", step.st.held)>>
    \/ /\ st.inPosition /\ ~step.st.inPosition /\ step.st.held = 0
       /\ step.intents = <<Market("sell", st.held)>>

\* An entry buys when flat, an exit sells what is held.
LEMMA EnterLeave ==
    ASSUME NEW p, NEW st, StateOK(p, st), NEW bar \in Bars, bar.close # 0, p.quote \in Nat
    PROVE  /\ ~st.inPosition => LET step == Enter(p, st, bar)
                                IN  /\ StepOK(p, step) /\ PositionStep(st, step)
                                    /\ step.st.closes = st.closes /\ step.st.above = st.above
           /\ st.inPosition => LET step == Leave(st)
                               IN  /\ StepOK(p, step) /\ PositionStep(st, step)
                                   /\ step.st.closes = st.closes /\ step.st.above = st.above
<1> DEFINE q == Quantity(p.quote, bar.close)
           in == [st EXCEPT !.inPosition = TRUE, !.held = q]
           out == [st EXCEPT !.inPosition = FALSE, !.held = 0]
<1>1. q \in Nat /\ st.held \in Nat
    BY QuantityOK DEF Bars, StateOK
<1>2. <<Market("buy", q)>> \in Seq(Intents) /\ <<Market("sell", st.held)>> \in Seq(Intents)
    BY <1>1, MarketOK
<1>3. Enter(p, st, bar) = [st |-> in, intents |-> <<Market("buy", q)>>]
    BY DEF Enter
<1>4. Leave(st) = [st |-> out, intents |-> <<Market("sell", st.held)>>]
    BY DEF Leave
<1>5. StateOK(p, in) /\ in.inPosition /\ in.held = q /\ in.closes = st.closes /\ in.above = st.above
  <2> HIDE DEF q
  <2> QED BY <1>1 DEF StateOK
<1>6. /\ StateOK(p, out) /\ ~out.inPosition /\ out.held = 0
      /\ out.closes = st.closes /\ out.above = st.above
    BY DEF StateOK
<1> HIDE DEF q, in, out
<1> QED BY <1>2, <1>3, <1>4, <1>5, <1>6 DEF StepOK, PositionStep

\* Nothing is ordered and only the closes and their relation are remembered.
LEMMA Watching ==
    ASSUME NEW p, NEW st, StateOK(p, st), NEW seen, StateOK(p, seen),
           seen.inPosition = st.inPosition, seen.held = st.held
    PROVE  StepOK(p, Quiet(seen)) /\ PositionStep(st, Quiet(seen)) /\ Quiet(seen).st = seen
BY DEF Quiet, StepOK, PositionStep

\* A moving-average bar takes a position step and remembers the fresh comparison.
LEMMA MaStep ==
    ASSUME NEW p, ValidParams(p), p.kind = "ma", NEW st, StateOK(p, st),
           NEW bar \in Bars, bar.close # 0
    PROVE  LET step == MaBar(p, st, bar)
               closes == Slide(st.closes, p.slow, bar.close)
           IN  /\ StepOK(p, step) /\ PositionStep(st, step)
               /\ step.st.closes = closes
               /\ Len(closes) >= p.slow =>
                     step.st.above = {Total(LastN(closes, p.fast)) * p.slow > Total(closes) * p.fast}
<1> DEFINE closes == Slide(st.closes, p.slow, bar.close)
           above == Total(LastN(closes, p.fast)) * p.slow > Total(closes) * p.fast
           seen == [st EXCEPT !.closes = closes]
           next == [seen EXCEPT !.above = {above}]
           step == MaBar(p, st, bar)
<1>1. p.quote \in Nat /\ p.slow \in Nat /\ bar.close \in Nat /\ st.closes \in Seq(Nat)
    BY DEF ValidParams, Bars, StateOK
<1>2. closes \in Seq(Nat)
    BY <1>1, SlideOK
<1>3. step = IF Len(closes) < p.slow THEN Quiet(seen)
             ELSE CASE st.above = {FALSE} /\ above /\ ~st.inPosition -> Enter(p, next, bar)
                    [] st.above = {TRUE} /\ ~above /\ st.inPosition -> Leave(next)
                    [] OTHER -> Quiet(next)
    BY DEF MaBar
<1> HIDE DEF closes, above, step
<1>4. StateOK(p, seen)
    BY <1>2, StateChanges
<1>5. StateOK(p, next)
    BY <1>4, StateChanges
<1>6. /\ seen.inPosition = st.inPosition /\ seen.held = st.held /\ seen.closes = closes
      /\ next.inPosition = st.inPosition /\ next.held = st.held /\ next.closes = closes
    BY DEF StateOK
<1>11. next.above = {above}
    BY DEF StateOK
<1> HIDE DEF seen, next
<1>7. CASE Len(closes) < p.slow
  <2>1. step = Quiet(seen)
      BY <1>3, <1>7
  <2>2. StepOK(p, step) /\ PositionStep(st, step) /\ step.st = seen
      BY <2>1, <1>4, <1>6, Watching
  <2>3. ~(Len(closes) >= p.slow)
      BY <1>1, <1>2, <1>7
  <2> QED BY <2>2, <2>3, <1>6 DEF step, closes, above
<1>8. CASE ~(Len(closes) < p.slow) /\ st.above = {FALSE} /\ above /\ ~st.inPosition
  <2>1. step = Enter(p, next, bar)
      BY <1>3, <1>8
  <2>2. /\ StepOK(p, step) /\ PositionStep(next, step)
        /\ step.st.closes = next.closes /\ step.st.above = next.above
    <3>1. next.inPosition = st.inPosition
        BY <1>6
    <3>2. next.inPosition = FALSE
        BY <3>1, <1>8 DEF StateOK
    <3> QED BY <2>1, <1>1, <1>5, <3>2, EnterLeave
  <2>3. PositionStep(st, step)
      BY <2>2, <1>6 DEF PositionStep
  <2> QED BY <2>2, <2>3, <1>6, <1>11 DEF step, closes, above
<1>9. CASE ~(Len(closes) < p.slow) /\ st.above = {TRUE} /\ ~above /\ st.inPosition
  <2>1. step = Leave(next)
      BY <1>3, <1>9
  <2>2. /\ StepOK(p, step) /\ PositionStep(next, step)
        /\ step.st.closes = next.closes /\ step.st.above = next.above
    <3>1. next.inPosition = st.inPosition
        BY <1>6
    <3>2. next.inPosition = TRUE
        BY <3>1, <1>9 DEF StateOK
    <3> QED BY <2>1, <1>1, <1>5, <3>2, EnterLeave
  <2>3. PositionStep(st, step)
      BY <2>2, <1>6 DEF PositionStep
  <2> QED BY <2>2, <2>3, <1>6, <1>11 DEF step, closes, above
<1>10. CASE /\ ~(Len(closes) < p.slow)
            /\ ~(st.above = {FALSE} /\ above /\ ~st.inPosition)
            /\ ~(st.above = {TRUE} /\ ~above /\ st.inPosition)
  <2>1. step = Quiet(next)
      BY <1>3, <1>10
  <2>2. StepOK(p, step) /\ PositionStep(st, step) /\ step.st = next
      BY <2>1, <1>5, <1>6, Watching
  <2> QED BY <2>2, <1>6, <1>11 DEF step, closes, above
<1> QED BY <1>7, <1>8, <1>9, <1>10

\* A momentum bar takes a position step and remembers the closes it looked at.
LEMMA MomentumStep ==
    ASSUME NEW p, ValidParams(p), p.kind = "momentum", NEW st, StateOK(p, st),
           NEW bar \in Bars, bar.close # 0
    PROVE  LET step == MomentumBar(p, st, bar)
           IN  /\ StepOK(p, step) /\ PositionStep(st, step)
               /\ step.st.closes = Slide(st.closes, p.lookback + 1, bar.close)
<1> DEFINE closes == Slide(st.closes, p.lookback + 1, bar.close)
           seen == [st EXCEPT !.closes = closes]
           rises == 100 * (bar.close - closes[1]) >= p.threshold * closes[1]
           falls == 100 * (bar.close - closes[1]) <= -(p.threshold * closes[1])
           step == MomentumBar(p, st, bar)
<1>1. p.quote \in Nat /\ p.lookback + 1 \in Nat /\ bar.close \in Nat /\ st.closes \in Seq(Nat)
    BY DEF ValidParams, Bars, StateOK
<1>2. closes \in Seq(Nat)
    BY <1>1, SlideOK
<1>3. step = IF Len(closes) < p.lookback + 1 THEN Quiet(seen)
             ELSE CASE ~st.inPosition /\ rises -> Enter(p, seen, bar)
                    [] st.inPosition /\ falls -> Leave(seen)
                    [] OTHER -> Quiet(seen)
    BY DEF MomentumBar
<1> HIDE DEF closes, rises, falls, step
<1>4. StateOK(p, seen)
    BY <1>2, StateChanges
<1>5. seen.inPosition = st.inPosition /\ seen.held = st.held /\ seen.closes = closes
    BY DEF StateOK
<1> HIDE DEF seen
<1>6. CASE step = Quiet(seen)
  <2>1. StepOK(p, step) /\ PositionStep(st, step) /\ step.st = seen
      BY <1>6, <1>4, <1>5, Watching
  <2> QED BY <2>1, <1>5 DEF step, closes
<1>7. CASE step = Enter(p, seen, bar) /\ ~st.inPosition
  <2>1. StepOK(p, step) /\ PositionStep(seen, step) /\ step.st.closes = seen.closes
      BY <1>1, <1>4, <1>5, <1>7, EnterLeave
  <2>2. PositionStep(st, step)
      BY <2>1, <1>5 DEF PositionStep
  <2> QED BY <2>1, <2>2, <1>5 DEF step, closes
<1>8. CASE step = Leave(seen) /\ st.inPosition
  <2>1. StepOK(p, step) /\ PositionStep(seen, step) /\ step.st.closes = seen.closes
      BY <1>1, <1>4, <1>5, <1>8, EnterLeave
  <2>2. PositionStep(st, step)
      BY <2>1, <1>5 DEF PositionStep
  <2> QED BY <2>1, <2>2, <1>5 DEF step, closes
<1>9. \/ step = Quiet(seen)
      \/ step = Enter(p, seen, bar) /\ ~st.inPosition
      \/ step = Leave(seen) /\ st.inPosition
    BY <1>3
<1> QED BY <1>6, <1>7, <1>8, <1>9

\* The lines of a grid.
LEMMA LinesOK ==
    ASSUME NEW p, ValidParams(p), p.kind = "grid"
    PROVE  /\ IsFiniteSet(Lines(p)) /\ Lines(p) \subseteq Nat \ {0}
           /\ Cardinality(Lines(p)) <= p.levels /\ QuotePerLevel(p) \in Nat
<1> DEFINE gap == (p.upper - p.lower) \div (p.levels - 1)
           line == [i \in 0 .. p.levels - 1 |-> p.lower + i * gap]
<1>1. /\ p.lower \in Nat \ {0} /\ p.upper \in Nat /\ p.upper > p.lower
      /\ p.levels \in Nat \ {0, 1} /\ p.total \in Nat
    BY DEF ValidParams
<1>2. p.levels - 1 \in Nat \ {0} /\ p.upper - p.lower \in Nat
    BY <1>1
<1>3. gap \in Nat
  <2>1. \A a \in Nat, b \in Nat \ {0} : a \div b \in Nat
      OBVIOUS
  <2> QED BY <1>2, <2>1
<1>4. QuotePerLevel(p) \in Nat
    BY <1>1, <1>2 DEF QuotePerLevel
<1>5. Lines(p) = {line[i] : i \in 0 .. p.levels - 1}
    BY DEF Lines
<1>6. ASSUME NEW i \in 0 .. p.levels - 1 PROVE line[i] \in Nat \ {0}
  <2>1. i \in Nat
      BY <1>1
  <2>2. i * gap \in Nat
    <3> HIDE DEF gap
    <3> QED BY <1>3, <2>1
  <2> QED BY <1>1, <2>2
<1> HIDE DEF line
<1>7. line \in Surjection(0 .. p.levels - 1, Lines(p))
    BY <1>5 DEF Surjection, line
<1>8. IsFiniteSet(0 .. p.levels - 1) /\ Cardinality(0 .. p.levels - 1) = p.levels
  <2>1. 0 \in Int /\ p.levels - 1 \in Int /\ ~(0 > p.levels - 1)
      BY <1>1
  <2>2. Cardinality(0 .. p.levels - 1) = (p.levels - 1) - 0 + 1
      BY <2>1, FS_Interval
  <2> QED BY <1>1, <2>1, <2>2, FS_Interval
<1>9. IsFiniteSet(Lines(p)) /\ Cardinality(Lines(p)) <= p.levels
  <2>1. IsFiniteSet(Lines(p)) /\ Cardinality(Lines(p)) <= Cardinality(0 .. p.levels - 1)
      BY <1>7, <1>8, FS_Surjection
  <2> QED BY <1>8, <2>1
<1> QED BY <1>4, <1>5, <1>6, <1>9

\* What a grid does: nothing on its first bar, a buy at every line it fell to or
\* through, a sell at every line it rose to or through as long as it has lots.
Fell(p, prev, close) == {l \in Lines(p) : prev > l /\ l >= close}
Rose(p, prev, close) == {l \in Lines(p) : prev < l /\ l <= close}
GridStarts(st, step) == st.prev = NoPrice /\ step.st.lots = st.lots /\ step.intents = <<>>
GridFalls(p, st, step, close) ==
    /\ st.prev # NoPrice /\ close < st.prev
    /\ \E bought \in Seq(Nat) :
          /\ Len(bought) = Cardinality(Fell(p, st.prev, close))
          /\ step.st.lots = st.lots \o bought
          /\ step.intents = [i \in DOMAIN bought |-> Market("buy", bought[i])]
GridRises(p, st, step, close) ==
    /\ st.prev # NoPrice /\ close >= st.prev
    /\ \E n \in 0 .. Len(st.lots) :
          /\ n < Cardinality(Rose(p, st.prev, close)) => n = Len(st.lots)
          /\ n <= Cardinality(Rose(p, st.prev, close))
          /\ step.st.lots = SubSeq(st.lots, 1, Len(st.lots) - n)
          /\ step.intents = [i \in 1 .. n |-> Market("sell", st.lots[Len(st.lots) + 1 - i])]

\* A grid bar starts, buys one lot per line fallen through or sells one per line risen through.
LEMMA GridStep ==
    ASSUME NEW p, ValidParams(p), p.kind = "grid", NEW st, StateOK(p, st),
           NEW bar \in Bars, bar.close # 0
    PROVE  LET step == GridBar(p, st, bar)
           IN  /\ StepOK(p, step) /\ step.st.prev = bar.close
               /\ \/ GridStarts(st, step) \/ GridFalls(p, st, step, bar.close)
                  \/ GridRises(p, st, step, bar.close)
<1> DEFINE close == bar.close
           lots == st.lots
           fell == Fell(p, st.prev, close)
           rose == Rose(p, st.prev, close)
           n == Cardinality(fell)
           quote == QuotePerLevel(p)
           down == Ascending(fell)
           bought == [i \in 1 .. n |-> Quantity(quote, down[n + 1 - i])]
           sold == IF Cardinality(rose) < Len(lots) THEN Cardinality(rose) ELSE Len(lots)
           left == SubSeq(lots, 1, Len(lots) - sold)
           buys == [i \in DOMAIN bought |-> Market("buy", bought[i])]
           sells == [i \in 1 .. sold |-> Market("sell", lots[Len(lots) + 1 - i])]
           seen == [st EXCEPT !.prev = close]
           step == GridBar(p, st, bar)
<1>1. /\ st.prev \in Nat /\ lots \in Seq(Nat) /\ close \in Nat \ {0} /\ quote \in Nat
      /\ Lines(p) \subseteq Nat \ {0} /\ IsFiniteSet(Lines(p)) /\ NoPrice \in Int
    BY LinesOK DEF StateOK, Bars, NoPrice
<1>2. /\ IsFiniteSet(fell) /\ fell \in SUBSET (Nat \ {0}) /\ n \in Nat
      /\ IsFiniteSet(rose) /\ Cardinality(rose) \in Nat
    BY <1>1, FS_Subset, FS_CardinalityType DEF Fell, Rose
<1>3. down \in [1 .. n -> fell]
    BY <1>1, <1>2, AscendingIsOne DEF IsAscending
<1>4. step = IF st.prev = NoPrice THEN Quiet(seen)
             ELSE IF close < st.prev
             THEN [st |-> [seen EXCEPT !.lots = @ \o bought], intents |-> buys]
             ELSE [st |-> [seen EXCEPT !.lots = SubSeq(@, 1, Len(@) - sold)], intents |-> sells]
    BY <1>1 DEF GridBar, Fell, Rose
<1>5. seen.lots = lots /\ StateOK(p, seen) /\ seen.prev = close
    BY <1>1, StateChanges DEF StateOK
<1> HIDE DEF seen, fell, rose, quote, down, close
<1>6. bought \in Seq(Nat) /\ Len(bought) = n /\ DOMAIN bought = 1 .. n
  <2>1. ASSUME NEW i \in 1 .. n PROVE bought[i] \in Nat
    <3>1. n + 1 - i \in 1 .. n
        BY <1>2
    <3>2. down[n + 1 - i] \in Nat \ {0}
        BY <1>2, <1>3, <3>1
    <3>3. Quantity(quote, down[n + 1 - i]) \in Nat
        BY <1>1, <3>2, QuantityOK
    <3> QED BY <3>3
  <2> QED BY <1>2, <2>1
<1>7. sold \in 0 .. Len(lots) /\ sold <= Cardinality(rose)
        /\ (sold < Cardinality(rose) => sold = Len(lots))
  <2>1. Len(lots) \in Nat
      BY <1>1
  <2> QED BY <1>2, <2>1
<1>8. ASSUME NEW i \in 1 .. sold PROVE lots[Len(lots) + 1 - i] \in Nat
  <2>1. Len(lots) + 1 - i \in 1 .. Len(lots)
      BY <1>1, <1>7
  <2> QED BY <1>1, <2>1
<1>9. left \in Seq(Nat)
  <2>1. Len(lots) \in Nat /\ sold \in 0 .. Len(lots)
      BY <1>1, <1>7
  <2> HIDE DEF lots, sold
  <2>2. Len(lots) - sold \in 0 .. Len(lots)
      BY <2>1
  <2>3. \A s \in Seq(Nat) : \A k \in 0 .. Len(s) : SubSeq(s, 1, k) \in Seq(Nat)
      OBVIOUS
  <2> QED BY <1>1, <2>2, <2>3
<1>10. buys \in Seq(Intents)
  <2>1. \A q \in Nat : Market("buy", q) \in Intents
      BY DEF Market, Intents, NoPrice
  <2> HIDE DEF bought, n
  <2>2. \A i \in 1 .. n : bought[i] \in Nat
      BY <1>6
  <2>3. DOMAIN bought = 1 .. n
      BY <1>6
  <2>4. buys \in [1 .. n -> Intents]
      BY <2>1, <2>2, <2>3
  <2> HIDE DEF buys
  <2> QED BY <1>2, <2>4
<1>11. sells \in Seq(Intents)
  <2>1. \A q \in Nat : Market("sell", q) \in Intents
      BY DEF Market, Intents, NoPrice
  <2>2. sells \in [1 .. sold -> Intents]
      BY <1>8, <2>1
  <2>3. sold \in Nat
      BY <1>1, <1>7
  <2> HIDE DEF sells, sold
  <2> QED BY <2>2, <2>3
<1> DEFINE down_ == [seen EXCEPT !.lots = lots \o bought]
           up_ == [seen EXCEPT !.lots = left]
<1>12. lots \o bought \in Seq(Nat)
    BY <1>1, <1>6
<1>13. StateOK(p, down_) /\ StateOK(p, up_)
    BY <1>5, <1>9, <1>12, StateChanges
<1>14. /\ down_.prev = close /\ down_.lots = lots \o bought
       /\ up_.prev = close /\ up_.lots = left
    BY <1>5 DEF StateOK
<1>15. step = IF st.prev = NoPrice THEN Quiet(seen)
              ELSE IF close < st.prev THEN [st |-> down_, intents |-> buys]
              ELSE [st |-> up_, intents |-> sells]
    BY <1>4, <1>5
<1> HIDE DEF step, bought, sold, left, buys, sells, down_, up_
<1>16. CASE st.prev = NoPrice
  <2>1. step.st = seen /\ step.intents = <<>> /\ DOMAIN step = {"st", "intents"}
      BY <1>15, <1>16 DEF Quiet
  <2>2. StepOK(p, step) /\ step.st.prev = close /\ GridStarts(st, step)
      BY <2>1, <1>5, <1>16 DEF StepOK, GridStarts
  <2> QED BY <2>2 DEF step, close
<1>17. CASE st.prev # NoPrice /\ close < st.prev
  <2>1. step.st = down_ /\ step.intents = buys /\ DOMAIN step = {"st", "intents"}
      BY <1>15, <1>17
  <2>2. StepOK(p, step) /\ step.st.prev = close
      BY <2>1, <1>10, <1>13, <1>14 DEF StepOK
  <2>3. GridFalls(p, st, step, close)
      BY <2>1, <1>6, <1>14, <1>17 DEF GridFalls, buys, fell
  <2> QED BY <2>2, <2>3 DEF step, close
<1>18. CASE st.prev # NoPrice /\ ~(close < st.prev)
  <2>1. step.st = up_ /\ step.intents = sells /\ DOMAIN step = {"st", "intents"}
      BY <1>15, <1>18
  <2>2. StepOK(p, step) /\ step.st.prev = close
      BY <2>1, <1>11, <1>13, <1>14 DEF StepOK
  <2>3. close >= st.prev
      BY <1>1, <1>18
  <2>4. GridRises(p, st, step, close)
      BY <2>1, <2>3, <1>7, <1>14, <1>18 DEF GridRises, sells, left, rose
  <2> QED BY <2>2, <2>4 DEF step, close
<1> QED BY <1>16, <1>17, <1>18

\* The longest window is a window, and at least one close long.
LEMMA MaxWindowOK ==
    ASSUME NEW p, ValidParams(p), p.kind = "rules"
    PROVE  /\ MaxWindow(p) \in Nat \ {0}
           /\ \A i \in DOMAIN p.indicators : WindowOf(p.indicators[i]) <= MaxWindow(p)
<1> DEFINE n == Len(p.indicators)
           window == [i \in 1 .. n |-> WindowOf(p.indicators[i])]
           windows == {WindowOf(p.indicators[i]) : i \in DOMAIN p.indicators} \cup {1}
<1>1. /\ n \in Nat /\ DOMAIN p.indicators = 1 .. n
      /\ \A i \in 1 .. n : p.indicators[i].period \in Nat
    BY DEF ValidParams
<1>2. \A i \in 1 .. n : window[i] \in Nat
    BY <1>1 DEF WindowOf
<1>3. windows = Range(window) \cup {1}
    BY <1>1 DEF Range
<1>4. IsFiniteSet(1 .. n)
    BY <1>1, FS_Interval
<1> HIDE DEF window
<1>5. window \in Surjection(1 .. n, Range(window))
    BY DEF Surjection, Range, window
<1>6. IsFiniteSet(Range(window))
    BY <1>4, <1>5, FS_Surjection
<1>7. IsFiniteSet(windows)
    BY <1>3, <1>6, FS_AddElement
<1>8. windows \subseteq Nat
  <2>1. \A i \in 1 .. n : WindowOf(p.indicators[i]) \in Nat
      BY <1>2 DEF window
  <2> QED BY <1>1, <2>1
<1>9. 1 \in windows
    OBVIOUS
<1> HIDE DEF windows
<1>10. \E w \in windows : \A v \in windows : v <= w
  <2>1. windows \subseteq Int /\ windows # {}
      BY <1>8, <1>9
  <2> QED BY <1>7, <2>1, Largest
<1>11. MaxWindow(p) \in windows /\ \A v \in windows : v <= MaxWindow(p)
    BY <1>10 DEF MaxWindow, windows
<1>12. \A i \in DOMAIN p.indicators : WindowOf(p.indicators[i]) \in windows
    BY DEF windows
<1>13. MaxWindow(p) \in Nat \ {0}
  <2>1. MaxWindow(p) \in Nat /\ 1 <= MaxWindow(p)
      BY <1>8, <1>9, <1>11
  <2> QED BY <2>1
<1> QED BY <1>11, <1>12, <1>13

\* A rule's order is an order.
LEMMA RuleIntentOK ==
    ASSUME NEW do, do.side \in {"buy", "sell"}, do.type \in {"market", "limit"},
           do.quote \in Nat, do.offset \in Int, NEW bar \in Bars, bar.close # 0,
           Orderable(do, bar)
    PROVE  RuleIntent(do, bar) \in Intents
<1> DEFINE limit == LimitPrice(do, bar)
<1>1. bar.close \in Nat \ {0}
    BY DEF Bars
<1>2. limit \in Int
  <2>1. \A a \in Int : a \div 100 \in Int
      OBVIOUS
  <2>2. bar.close * (100 + do.offset) \in Int
      BY <1>1
  <2> QED BY <2>1, <2>2 DEF LimitPrice
<1> HIDE DEF limit
<1>3. CASE do.type = "limit"
  <2>1. limit \in Nat \ {0}
      BY <1>2, <1>3 DEF Orderable, limit
  <2>2. Quantity(do.quote, limit) \in Nat
      BY <2>1, QuantityOK
  <2> QED BY <1>3, <2>1, <2>2 DEF RuleIntent, Intents, limit
<1>4. CASE do.type # "limit"
  <2>1. Quantity(do.quote, bar.close) \in Nat
      BY <1>1, QuantityOK
  <2> QED BY <1>4, <2>1 DEF RuleIntent, Intents, Market, NoPrice
<1> QED BY <1>3, <1>4

\* What a bar does to the rules: the conditions that are true now, the rules
\* that fire, and when each of them fired last.
RulesTrue(p, st, closes) ==
    {i \in DOMAIN p.rules : Eval(p.rules[i].when, Values(p, closes), st.values)}
RulesFiring(p, st, closes, bar) ==
    {i \in RulesTrue(p, st, closes) \ st.truth :
        /\ \/ p.rules[i].cooldown = 0 \/ st.fired[i] = NoTime
           \/ bar.ts - st.fired[i] >= p.rules[i].cooldown
        /\ Orderable(p.rules[i].do, bar)}
\* A rule bar fires the rules it should, stamps them, and keeps the values and truths it computed.
LEMMA RuleStep ==
    ASSUME NEW p, ValidParams(p), p.kind = "rules", NEW st, StateOK(p, st),
           NEW bar \in Bars, bar.close # 0
    PROVE  LET step == RuleBar(p, st, bar)
               closes == Slide(st.closes, MaxWindow(p), bar.close)
           IN  /\ StepOK(p, step)
               /\ step.st.closes = closes /\ step.st.values = Values(p, closes)
               /\ step.st.truth = RulesTrue(p, st, closes)
               /\ step.st.fired = [i \in DOMAIN p.rules |->
                                     IF i \in RulesFiring(p, st, closes, bar) THEN bar.ts
                                                                          ELSE st.fired[i]]
<1> DEFINE closes == Slide(st.closes, MaxWindow(p), bar.close)
           cur == Values(p, closes)
           true == RulesTrue(p, st, closes)
           fires == RulesFiring(p, st, closes, bar)
           order == Ascending(fires)
           intents == [k \in DOMAIN order |-> RuleIntent(p.rules[order[k]].do, bar)]
           fired == [i \in DOMAIN p.rules |-> IF i \in fires THEN bar.ts ELSE st.fired[i]]
           next == [st EXCEPT !.closes = closes, !.values = cur, !.truth = true, !.fired = fired]
           step == RuleBar(p, st, bar)
<1>1. step.st = next /\ step.intents = intents /\ DOMAIN step = {"st", "intents"}
    BY DEF RuleBar, RulesTrue, RulesFiring
<1>2. /\ RuleIds(p) = DOMAIN p.rules /\ Len(p.rules) \in Nat /\ DOMAIN p.rules = 1 .. Len(p.rules)
      /\ \A i \in DOMAIN p.rules :
            /\ p.rules[i].do.side \in {"buy", "sell"} /\ p.rules[i].do.type \in {"market", "limit"}
            /\ p.rules[i].do.quote \in Nat /\ p.rules[i].do.offset \in Int
    BY DEF ValidParams, RuleIds
<1>3. /\ st.fired \in [DOMAIN p.rules -> Int] /\ st.closes \in Seq(Nat)
      /\ bar.ts \in Int /\ bar.close \in Nat
    BY <1>2 DEF StateOK, Bars
<1>4. closes \in Seq(Nat)
    BY <1>3, MaxWindowOK, SlideOK
<1>5. true \subseteq DOMAIN p.rules /\ fires \subseteq true
        /\ \A i \in fires : Orderable(p.rules[i].do, bar)
    BY DEF RulesTrue, RulesFiring
<1>6. fired \in [DOMAIN p.rules -> Int]
    BY <1>3
<1> HIDE DEF closes, cur, true, fires, fired, step
<1>7. IsFiniteSet(fires) /\ fires \subseteq Int
  <2>1. IsFiniteSet(DOMAIN p.rules)
      BY <1>2, FS_Interval
  <2>2. DOMAIN p.rules \subseteq Int
      BY <1>2
  <2> QED BY <1>5, <2>1, <2>2, FS_Subset
<1>8. order \in [1 .. Cardinality(fires) -> fires] /\ Cardinality(fires) \in Nat
    BY <1>7, AscendingIsOne, FS_CardinalityType DEF IsAscending
<1>9. intents \in Seq(Intents)
  <2>1. \A k \in 1 .. Cardinality(fires) : RuleIntent(p.rules[order[k]].do, bar) \in Intents
      BY <1>2, <1>5, <1>8, RuleIntentOK
  <2>2. intents \in [1 .. Cardinality(fires) -> Intents]
      BY <1>8, <2>1
  <2> HIDE DEF intents
  <2> QED BY <1>8, <2>2
<1>10. /\ StateOK(p, next) /\ next.closes = closes /\ next.values = cur
       /\ next.truth = true /\ next.fired = fired
  <2>1. true \subseteq RuleIds(p) /\ fired \in [RuleIds(p) -> Int]
      BY <1>2, <1>5, <1>6
  <2> QED BY <1>4, <2>1 DEF StateOK
<1> HIDE DEF next, intents
<1>11. StepOK(p, step)
    BY <1>1, <1>9, <1>10 DEF StepOK
<1>12. step.st.closes = closes /\ step.st.values = cur /\ step.st.truth = true
         /\ step.st.fired = fired
    BY <1>1, <1>10
<1> QED BY <1>11, <1>12 DEF closes, cur, true, fired, fires, step

\* What on_bar of any strategy does.
LEMMA OnBarKinds ==
    ASSUME NEW p, ValidParams(p), NEW st, NEW bar \in Bars
    PROVE  /\ bar.close = 0 => OnBar(p, st, bar) = Quiet(st)
           /\ bar.close # 0 =>
                 /\ p.kind = "dca" => OnBar(p, st, bar) = DcaBar(p, st, bar)
                 /\ p.kind = "grid" => OnBar(p, st, bar) = GridBar(p, st, bar)
                 /\ p.kind = "ma" => OnBar(p, st, bar) = MaBar(p, st, bar)
                 /\ p.kind = "momentum" => OnBar(p, st, bar) = MomentumBar(p, st, bar)
                 /\ p.kind = "rules" => OnBar(p, st, bar) = RuleBar(p, st, bar)
           /\ p.kind \in {"dca", "grid", "ma", "momentum", "rules"}
<1>1. bar.close \in Nat
    BY DEF Bars
<1>2. bar.close = 0 => OnBar(p, st, bar) = Quiet(st)
    BY DEF OnBar
<1>3. p.kind \in {"dca", "grid", "ma", "momentum", "rules"}
    BY DEF ValidParams
<1>4. bar.close # 0 => ~(bar.close <= 0)
    BY <1>1
<1>5. bar.close # 0 /\ p.kind = "dca" => OnBar(p, st, bar) = DcaBar(p, st, bar)
    BY <1>4 DEF OnBar
<1>6. bar.close # 0 /\ p.kind = "grid" => OnBar(p, st, bar) = GridBar(p, st, bar)
    BY <1>4 DEF OnBar
<1>7. bar.close # 0 /\ p.kind = "ma" => OnBar(p, st, bar) = MaBar(p, st, bar)
    BY <1>4 DEF OnBar
<1>8. bar.close # 0 /\ p.kind = "momentum" => OnBar(p, st, bar) = MomentumBar(p, st, bar)
    BY <1>4 DEF OnBar
<1>9. bar.close # 0 /\ p.kind = "rules" => OnBar(p, st, bar) = RuleBar(p, st, bar)
    BY <1>4 DEF OnBar
<1> QED BY <1>2, <1>3, <1>5, <1>6, <1>7, <1>8, <1>9

\* Whatever the strategy and the bar, the memory and the orders stay well formed.
LEMMA OnBarStep ==
    ASSUME NEW p, ValidParams(p), NEW st, StateOK(p, st), NEW bar \in Bars
    PROVE  /\ StepOK(p, OnBar(p, st, bar))
           /\ bar.close = 0 => /\ OnBar(p, st, bar).st = st
                               /\ OnBar(p, st, bar).intents = <<>>
<1>1. CASE bar.close = 0
  <2>1. OnBar(p, st, bar) = Quiet(st)
      BY <1>1, OnBarKinds
  <2> QED BY <2>1 DEF Quiet, StepOK
<1>2. CASE bar.close # 0
  <2>1. p.kind = "dca" => StepOK(p, OnBar(p, st, bar))
      BY <1>2, OnBarKinds, DcaStep
  <2>2. p.kind = "grid" => StepOK(p, OnBar(p, st, bar))
      BY <1>2, OnBarKinds, GridStep
  <2>3. p.kind = "ma" => StepOK(p, OnBar(p, st, bar))
      BY <1>2, OnBarKinds, MaStep
  <2>4. p.kind = "momentum" => StepOK(p, OnBar(p, st, bar))
      BY <1>2, OnBarKinds, MomentumStep
  <2>5. ASSUME p.kind = "rules" PROVE StepOK(p, OnBar(p, st, bar))
    <3>1. StepOK(p, RuleBar(p, st, bar))
        BY <1>2, <2>5, RuleStep
    <3>2. OnBar(p, st, bar) = RuleBar(p, st, bar)
        BY <1>2, <2>5, OnBarKinds
    <3> QED BY <3>1, <3>2
  <2> QED BY <1>2, <2>1, <2>2, <2>3, <2>4, <2>5, OnBarKinds
<1> QED BY <1>1, <1>2

-----------------------------------------------------------------------------
(* Windows.                                                                *)

\* The last n closes, or all of them.
Recent(s, n) == IF Len(s) <= n THEN s ELSE LastN(s, n)

\* The last n of a sequence are n of its elements, in order.
LEMMA LastNOK ==
    ASSUME NEW s \in Seq(Nat), NEW n \in Nat, n <= Len(s)
    PROVE  /\ LastN(s, n) \in Seq(Nat) /\ Len(LastN(s, n)) = n
           /\ \A i \in 1 .. n : LastN(s, n)[i] = s[Len(s) - n + i]
<1>1. Len(s) \in Nat /\ Len(s) - n + 1 \in Int /\ \A i \in Len(s) - n + 1 .. Len(s) : s[i] \in Nat
    OBVIOUS
<1>2. /\ SubSeq(s, Len(s) - n + 1, Len(s)) \in Seq(Nat)
      /\ Len(SubSeq(s, Len(s) - n + 1, Len(s))) =
            IF Len(s) - n + 1 <= Len(s) THEN Len(s) - (Len(s) - n + 1) + 1 ELSE 0
      /\ \A i \in 1 .. Len(s) - (Len(s) - n + 1) + 1 :
            SubSeq(s, Len(s) - n + 1, Len(s))[i] = s[Len(s) - n + 1 + i - 1]
    BY <1>1, SubSeqProperties
<1> QED BY <1>1, <1>2 DEF LastN

\* Recent keeps the end of a sequence.
LEMMA RecentOK ==
    ASSUME NEW s \in Seq(Nat), NEW n \in Nat
    PROVE  /\ Recent(s, n) \in Seq(Nat)
           /\ Len(Recent(s, n)) = IF Len(s) <= n THEN Len(s) ELSE n
           /\ \A i \in 1 .. Len(Recent(s, n)) :
                 Recent(s, n)[i] = s[Len(s) - Len(Recent(s, n)) + i]
<1>1. CASE Len(s) <= n
    BY <1>1 DEF Recent
<1>2. CASE ~(Len(s) <= n)
  <2>1. n <= Len(s) /\ Recent(s, n) = LastN(s, n)
      BY <1>2 DEF Recent
  <2>2. /\ Recent(s, n) \in Seq(Nat) /\ Len(Recent(s, n)) = n
        /\ \A i \in 1 .. n : Recent(s, n)[i] = s[Len(s) - n + i]
      BY <2>1, LastNOK
  <2> QED BY <1>2, <2>2
<1> QED BY <1>1, <1>2

\* A window that slides over all closes holds the most recent of them.
LEMMA RecentFull ==
    ASSUME NEW s \in Seq(Nat), NEW n \in Nat, n <= Len(s)
    PROVE  /\ Recent(s, n) \in Seq(Nat) /\ Len(Recent(s, n)) = n
           /\ \A i \in 1 .. n : Recent(s, n)[i] = s[Len(s) - n + i]
<1> DEFINE r == Recent(s, n)
<1>1. /\ r \in Seq(Nat) /\ Len(r) = IF Len(s) <= n THEN Len(s) ELSE n
      /\ \A i \in 1 .. Len(r) : r[i] = s[Len(s) - Len(r) + i]
    BY RecentOK
<1> HIDE DEF r
<1>2. Len(r) = n
    BY <1>1
<1>3. \A i \in 1 .. n : r[i] = s[Len(s) - n + i]
    BY <1>1, <1>2
<1> QED BY <1>1, <1>2, <1>3 DEF r

\* A window that slides with every close is the last closes of them all.
LEMMA SlideRecent ==
    ASSUME NEW s \in Seq(Nat), NEW n \in Nat \ {0}, NEW c \in Nat
    PROVE  Slide(Recent(s, n), n, c) = Recent(Append(s, c), n)
<1> DEFINE r == Recent(s, n)
           t == Append(r, c)
           a == Append(s, c)
           R == Recent(a, n)
<1>1. /\ r \in Seq(Nat) /\ Len(r) = IF Len(s) <= n THEN Len(s) ELSE n
      /\ \A i \in 1 .. Len(r) : r[i] = s[Len(s) - Len(r) + i]
    BY RecentOK
<1>2. a \in Seq(Nat) /\ Len(a) = Len(s) + 1 /\ a[Len(s) + 1] = c
        /\ \A i \in 1 .. Len(s) : a[i] = s[i]
    OBVIOUS
<1>3. /\ R \in Seq(Nat) /\ Len(R) = IF Len(a) <= n THEN Len(a) ELSE n
      /\ \A i \in 1 .. Len(R) : R[i] = a[Len(a) - Len(R) + i]
    BY <1>2, RecentOK
<1> HIDE DEF r, R, a
<1>4. t \in Seq(Nat) /\ Len(t) = Len(r) + 1 /\ t[Len(r) + 1] = c
        /\ \A i \in 1 .. Len(r) : t[i] = r[i]
    BY <1>1
<1> HIDE DEF t
<1>5. Len(s) \in Nat /\ Len(r) <= Len(s)
    BY <1>1
<1>6. \A i \in 1 .. Len(t) : t[i] = a[Len(a) - Len(t) + i]
  <2>1. ASSUME NEW i \in 1 .. Len(r) PROVE t[i] = a[Len(a) - Len(t) + i]
    <3>1. Len(s) - Len(r) + i \in 1 .. Len(s) /\ Len(a) - Len(t) + i = Len(s) - Len(r) + i
        BY <1>1, <1>2, <1>4, <1>5
    <3> QED BY <1>1, <1>2, <1>4, <3>1
  <2>2. t[Len(t)] = a[Len(a) - Len(t) + Len(t)]
    <3>1. Len(a) - Len(t) + Len(t) = Len(s) + 1 /\ Len(t) = Len(r) + 1
        BY <1>2, <1>4, <1>5
    <3> QED BY <1>2, <1>4, <3>1
  <2>3. \A i \in 1 .. Len(t) : i \in 1 .. Len(r) \/ i = Len(t)
      BY <1>1, <1>4
  <2> QED BY <2>1, <2>2, <2>3
<1>7. CASE Len(t) <= n
  <2>1. Slide(r, n, c) = t
      BY <1>7 DEF Slide, t
  <2>2. Len(R) = Len(t)
      BY <1>1, <1>2, <1>3, <1>4, <1>5, <1>7
  <2>3. R = t
      BY <1>3, <1>4, <1>6, <2>2, SeqEqual
  <2> QED BY <2>1, <2>3 DEF r, R, a
<1>8. CASE ~(Len(t) <= n)
  <2>1. Slide(r, n, c) = Tail(t)
      BY <1>8 DEF Slide, t
  <2>2. Len(t) = n + 1 /\ Len(R) = n /\ Len(a) > n
    <3>1. Len(r) = n /\ Len(t) = n + 1
        BY <1>1, <1>4, <1>5, <1>8
    <3>2. Len(a) > n /\ Len(a) \in Nat
        BY <1>2, <1>5, <3>1
    <3>3. ~(Len(a) <= n)
        BY <3>2
    <3> QED BY <1>3, <3>1, <3>2, <3>3
  <2>3. /\ Tail(t) \in Seq(Nat) /\ Len(Tail(t)) = n
        /\ \A i \in 1 .. n : Tail(t)[i] = t[i + 1]
    <3>1. t # <<>>
        BY <2>2
    <3>2. /\ Tail(t) \in Seq(Nat) /\ Len(Tail(t)) = Len(t) - 1
          /\ \A i \in 1 .. Len(Tail(t)) : Tail(t)[i] = t[i + 1]
        BY <1>4, <3>1, HeadTailProperties
    <3>3. Len(Tail(t)) = n
        BY <2>2, <3>2
    <3> QED BY <3>2, <3>3
  <2>4. ASSUME NEW i \in 1 .. n PROVE Tail(t)[i] = R[i]
    <3>1. i + 1 \in 1 .. Len(t) /\ Len(a) - Len(t) + (i + 1) = Len(a) - Len(R) + i
        BY <1>2, <2>2
    <3>2. t[i + 1] = a[Len(a) - Len(R) + i]
        BY <1>6, <3>1
    <3>3. R[i] = a[Len(a) - Len(R) + i]
        BY <1>3, <2>2
    <3> QED BY <2>3, <3>2, <3>3
  <2>5. Tail(t) = R
      BY <1>3, <2>2, <2>3, <2>4, SeqEqual
  <2> QED BY <2>1, <2>5 DEF r, R, a
<1>9. Len(t) \in Nat
    BY <1>4
<1> QED BY <1>7, <1>8, <1>9

\* Windows of two streams are the same once the shorter one, with which the
\* longer one ends, fills them.
Ends(s, t) == Len(t) <= Len(s) /\ \A i \in 1 .. Len(t) : t[i] = s[Len(s) - Len(t) + i]
\* The end of a sequence grows with it.
LEMMA EndsAppend ==
    ASSUME NEW s \in Seq(Nat), NEW t \in Seq(Nat), Ends(s, t), NEW c \in Nat
    PROVE  Ends(Append(s, c), Append(t, c))
<1>1. Len(Append(s, c)) = Len(s) + 1 /\ Len(Append(t, c)) = Len(t) + 1
        /\ Len(s) \in Nat /\ Len(t) \in Nat /\ Len(t) <= Len(s)
    BY DEF Ends
<1>2. ASSUME NEW i \in 1 .. Len(t) + 1
      PROVE  Append(t, c)[i] = Append(s, c)[Len(s) - Len(t) + i]
  <2>1. CASE i = Len(t) + 1
    <3>1. Len(s) - Len(t) + i = Len(s) + 1
        BY <1>1, <2>1
    <3> QED BY <2>1, <3>1
  <2>2. CASE i # Len(t) + 1
    <3>1. i \in 1 .. Len(t) /\ Len(s) - Len(t) + i \in 1 .. Len(s)
        BY <1>1, <2>2
    <3> QED BY <3>1 DEF Ends
  <2> QED BY <2>1, <2>2
<1>3. Len(s) + 1 - (Len(t) + 1) = Len(s) - Len(t) /\ Len(t) + 1 <= Len(s) + 1
    BY <1>1
<1> DEFINE s1 == Append(s, c)
           t1 == Append(t, c)
<1> HIDE DEF s1, t1
<1>4. Len(s1) = Len(s) + 1 /\ Len(t1) = Len(t) + 1
    BY <1>1 DEF s1, t1
<1>5. \A i \in 1 .. Len(t1) : t1[i] = s1[Len(s1) - Len(t1) + i]
  <2>1. \A i \in 1 .. Len(t) + 1 : t1[i] = s1[Len(s) - Len(t) + i]
      BY <1>2 DEF s1, t1
  <2>2. Len(s1) - Len(t1) = Len(s) - Len(t)
      BY <1>3, <1>4
  <2> QED BY <1>4, <2>1, <2>2
<1>6. Len(t1) <= Len(s1)
    BY <1>3, <1>4
<1> QED BY <1>5, <1>6 DEF Ends, s1, t1

\* Two sequences with one end have the same recent elements.
LEMMA RecentAgrees ==
    ASSUME NEW s \in Seq(Nat), NEW t \in Seq(Nat), Ends(s, t), NEW n \in Nat, n <= Len(t)
    PROVE  Recent(s, n) = Recent(t, n)
<1>1. Len(s) \in Nat /\ Len(t) \in Nat /\ Len(t) <= Len(s)
    BY DEF Ends
<1>2. /\ Recent(s, n) \in Seq(Nat) /\ Len(Recent(s, n)) = n
      /\ \A i \in 1 .. n : Recent(s, n)[i] = s[Len(s) - n + i]
  <2>1. n <= Len(s)
      BY <1>1
  <2> QED BY <2>1, RecentFull
<1>3. /\ Recent(t, n) \in Seq(Nat) /\ Len(Recent(t, n)) = n
      /\ \A i \in 1 .. n : Recent(t, n)[i] = t[Len(t) - n + i]
    BY <1>1, RecentFull
<1>4. ASSUME NEW i \in 1 .. n PROVE Recent(s, n)[i] = Recent(t, n)[i]
  <2>1. Len(t) - n + i \in 1 .. Len(t) /\ Len(s) - Len(t) + (Len(t) - n + i) = Len(s) - n + i
      BY <1>1
  <2>2. t[Len(t) - n + i] = s[Len(s) - n + i]
      BY <2>1 DEF Ends
  <2> QED BY <1>2, <1>3, <2>2
<1> QED BY <1>2, <1>3, <1>4, SeqEqual

\* The values of the indicators depend on the window alone.
LEMMA ValuesRecent ==
    ASSUME NEW p, ValidParams(p), p.kind = "rules", NEW s \in Seq(Nat), s # <<>>
    PROVE  Values(p, Recent(s, MaxWindow(p))) = Values(p, s)
<1> DEFINE n == MaxWindow(p)
           r == Recent(s, n)
<1>1. n \in Nat \ {0} /\ \A i \in DOMAIN p.indicators : WindowOf(p.indicators[i]) <= n
    BY MaxWindowOK
<1> HIDE DEF n
<1>2. CASE Len(s) <= n
    BY <1>2 DEF Recent, n
<1>3. CASE ~(Len(s) <= n)
  <2>1. /\ r \in Seq(Nat) /\ Len(r) = n /\ \A i \in 1 .. n : r[i] = s[Len(s) - n + i]
    <3>1. n <= Len(s)
        BY <1>1, <1>3
    <3> QED BY <1>1, <3>1, RecentFull
  <2>2. Len(s) \in Nat /\ Len(s) > n
      BY <1>1, <1>3
  <2> HIDE DEF r
  <2>3. Last(r) = Last(s)
    <3>1. Len(s) - n + n = Len(s) /\ n \in 1 .. n
        BY <1>1, <2>2
    <3>2. r[n] = s[Len(s)]
        BY <2>1, <3>1
    <3> QED BY <2>1, <3>2 DEF Last
  <2>4. ASSUME NEW k \in Nat, k <= n PROVE LastN(r, k) = LastN(s, k)
    <3>1. /\ LastN(r, k) \in Seq(Nat) /\ Len(LastN(r, k)) = k
          /\ \A i \in 1 .. k : LastN(r, k)[i] = r[n - k + i]
        BY <1>1, <2>1, <2>4, LastNOK
    <3>2. /\ LastN(s, k) \in Seq(Nat) /\ Len(LastN(s, k)) = k
          /\ \A i \in 1 .. k : LastN(s, k)[i] = s[Len(s) - k + i]
        BY <1>1, <2>2, <2>4, LastNOK
    <3>3. ASSUME NEW i \in 1 .. k PROVE LastN(r, k)[i] = LastN(s, k)[i]
      <4>1. n - k + i \in 1 .. n /\ Len(s) - n + (n - k + i) = Len(s) - k + i
          BY <1>1, <2>2, <2>4
      <4>2. r[n - k + i] = s[Len(s) - k + i]
          BY <2>1, <4>1
      <4> QED BY <3>1, <3>2, <4>2
    <3> QED BY <3>1, <3>2, <3>3, SeqEqual
  <2>5. ASSUME NEW i \in DOMAIN p.indicators
        PROVE  Compute(p.indicators[i], r) = Compute(p.indicators[i], s)
    <3> DEFINE ind == p.indicators[i]
    <3>1. ind.fn \in {"value", "price", "sma", "rsi"} /\ ind.period \in Nat
        BY DEF ValidParams
    <3>2. WindowOf(ind) <= n
        BY <1>1
    <3> HIDE DEF ind
    <3>3. CASE ind.fn = "value"
        BY <3>3 DEF Compute
    <3>4. CASE ind.fn = "price"
        BY <2>3, <3>4 DEF Compute
    <3>5. CASE ind.fn = "sma"
      <4>1. WindowOf(ind) = ind.period
          BY <3>5 DEF WindowOf
      <4>2. ind.period <= n
          BY <3>2, <4>1
      <4>3. LastN(r, ind.period) = LastN(s, ind.period) /\ ~(Len(r) < ind.period) /\ ~(Len(s) < ind.period)
          BY <1>1, <2>1, <2>2, <2>4, <3>1, <4>2
      <4> QED BY <3>5, <4>3 DEF Compute
    <3>6. CASE ind.fn = "rsi"
      <4>1. WindowOf(ind) = ind.period + 1
          BY <3>6 DEF WindowOf
      <4>2. ind.period + 1 <= n /\ ind.period + 1 \in Nat
          BY <3>1, <3>2, <4>1
      <4>3. LastN(r, ind.period + 1) = LastN(s, ind.period + 1)
          BY <2>4, <4>2
      <4>4. ~(Len(r) < ind.period + 1) /\ ~(Len(s) < ind.period + 1)
        <5> DEFINE q == ind.period
        <5>1. q \in Nat /\ q + 1 <= Len(r) /\ q + 1 <= Len(s)
            BY <1>1, <2>1, <2>2, <3>1, <4>2
        <5>2. Len(r) \in Nat /\ Len(s) \in Nat
            BY <2>1
        <5> HIDE DEF q
        <5>3. ~Len(r) < q + 1 /\ ~Len(s) < q + 1
            BY <5>1, <5>2
        <5> QED BY <5>3 DEF q
      <4> QED BY <3>6, <4>3, <4>4 DEF Compute
    <3> QED BY <3>1, <3>3, <3>4, <3>5, <3>6 DEF ind
  <2> DEFINE names == {p.indicators[i].name : i \in DOMAIN p.indicators} \cup {"price"}
             pick(m) == CHOOSE k \in DOMAIN p.indicators : p.indicators[k].name = m
             value(m, t) == IF m = "price" THEN <<Last(t), 1>> ELSE Compute(p.indicators[pick(m)], t)
  <2>6. ASSUME NEW m \in names PROVE value(m, r) = value(m, s)
    <3>1. CASE m = "price"
        BY <2>3, <3>1
    <3>2. CASE m # "price"
      <4>1. \E k \in DOMAIN p.indicators : p.indicators[k].name = m
          BY <3>2
      <4>2. pick(m) \in DOMAIN p.indicators
          BY <4>1
      <4> QED BY <2>5, <3>2, <4>2
    <3> QED BY <3>1, <3>2
  <2>7. \A t : Values(p, t) = [m \in names |-> value(m, t)]
      BY DEF Values
  <2> HIDE DEF value, names
  <2>8. Values(p, r) = Values(p, s)
      BY <2>6, <2>7
  <2> QED BY <2>8 DEF r, n
<1> QED BY <1>1, <1>2, <1>3
=============================================================================
