------------------------------- MODULE AiBot --------------------------------
(***************************************************************************)
(* An ai_signal bot: its bar loop (Supervisor._run over a BarSource, with  *)
(* AiSignalStrategy.on_bar) and, beside it on the same event loop, the     *)
(* companion that consults the AI engine (ai_companion.py).  They share    *)
(* the bot's StrategyState: the companion writes the signal slot, on_bar   *)
(* reads it; on_bar keeps the window and the held quantity, the companion  *)
(* reads them.                                                             *)
(*                                                                         *)
(* An action is what one of the two coroutines does between two awaits.    *)
(* The bot may end and be started again: a new run has a new StrategyState *)
(* and a new companion; what it holds at the venue stays.                  *)
(*                                                                         *)
(* Abstracted: prices and sizes.  A quantity is a set of lots, a lot being *)
(* what one buy asked for, named by its decision <<run, seq>>.  A venue    *)
(* may execute a lot in Parts units <<lot, part>>, each of them at once,   *)
(* later or never, and submit reports the fills of the answer only.        *)
(* Cap 0 stands for no cap.  The market session and the breaker are        *)
(* choices.                                                                *)
(***************************************************************************)
EXTENDS BarSource, Sequences

CONSTANTS
    MaxRuns,     \* bound: starts of the bot
    MaxDays,     \* bound: UTC days
    MaxSeq,      \* bound: decisions of one run
    MaxFails,    \* bound: failed consults of one run and day
    Parts,       \* bound: executions that one lot may take
    Cap,         \* max_daily_consults
    Lookback     \* lookback_bars

ASSUME AiBotAssumption ==
    /\ MaxRuns \in Nat \ {0} /\ MaxDays \in Nat \ {0} /\ MaxSeq \in Nat
    /\ MaxFails \in Nat /\ Parts \in Nat \ {0}
    /\ Cap \in Nat /\ Lookback \in Nat /\ Lookback >= 2

Actions == {"buy", "sell", "hold"}
Runs == 1 .. MaxRuns
Days == 1 .. MaxDays
Lots == Runs \X (1 .. MaxSeq)
Units == Lots \X (1 .. Parts)
NoSignal == [seq |-> 0, action |-> "hold", seen |-> 0]
NoIntent == [side |-> "none", lots |-> {}]

VARIABLES
    run,       \* which start of the bot this is
    today,     \* the UTC date
    loop,      \* the await of _run: "next" bar, "submit", or "ended"
    intent,    \* the order being submitted
    closes,    \* length of the window of closes
    slot,      \* state.custom["ai_signal"]; seen is history
    consumed,  \* ai_consumed_seq
    held,      \* ai_held_qty
    comp,      \* the await of the companion
    day, consults, flagged, seq,  \* the companion's locals
    snap,      \* history: decisions acted on, or in the slot, at the snapshot
    acted,     \* history: decisions on_bar has acted on in this run
    orders,    \* history: every order submitted: [id, side, lots]
    executed,  \* venue: <<side, unit>> of orders that it has executed
    open,      \* venue: <<side, unit>> of orders that it may still execute
    unfilled,  \* history: <<side, unit>> that were refused or cancelled
    asked,     \* history: consults asked, by run and day
    failed,    \* history: those of them that failed
    flags      \* history: ai_budget_exhausted events by run and day

loopVars  == <<loop, intent>>
stateVars == <<closes, slot, consumed, held>>
compVars  == <<comp, day, consults, flagged, seq, snap>>
venueOrders == <<executed, open, unfilled>>
histVars  == <<acted, orders, venueOrders>>
costVars  == <<asked, failed, flags>>
vars == <<venueVars, genVars, run, today, loopVars, stateVars, compVars,
          histVars, costVars>>

Init ==
    /\ BarInit
    /\ loop = "next" /\ intent = NoIntent
    /\ closes = 0 /\ slot = NoSignal /\ consumed = 0 /\ held = {}
    /\ comp = "asleep" /\ day = 0 /\ consults = 0 /\ flagged = FALSE
    /\ seq = 0 /\ snap = 0
    /\ run = 1 /\ today = 1
    /\ acted = 0 /\ orders = <<>>
    /\ executed = {} /\ open = {} /\ unfilled = {}
    /\ asked = [r \in Runs |-> [d \in Days |-> 0]]
    /\ failed = asked /\ flags = asked

-----------------------------------------------------------------------------
(* The bar loop.                                                           *)

Fresher == slot.seq > consumed

\* The side of the order that on_bar returns, if any.
Side ==
    CASE Fresher /\ slot.action = "buy" -> "buy"
      [] Fresher /\ slot.action = "sell" /\ held # {} -> "sell"
      [] OTHER -> "none"

\* Mutant: the window is never cut.
WindowUncut == closes + 1
\* The length of the window with the new close.
WindowAfter == IF closes < Lookback THEN closes + 1 ELSE closes

\* Mutant: the decision in the slot is not marked as consumed.
ConsumedNever == consumed
\* A decision is consumed whatever it says.
ConsumedAfter == IF Fresher THEN slot.seq ELSE consumed

Bought == {<<run, slot.seq>>}

\* Mutant: a sell leaves the held quantity as it was.
HeldAfterAnyway == IF Side = "buy" THEN held \cup Bought ELSE held
HeldAfter ==
    CASE Side = "buy" -> held \cup Bought
      [] Side = "sell" -> {}
      [] OTHER -> held

\* AiSignalStrategy.on_bar: the window, then the decision in the slot.
OnBar ==
    /\ closes' = WindowAfter
    /\ consumed' = ConsumedAfter
    /\ acted' = IF Fresher THEN acted + 1 ELSE acted
    /\ held' = HeldAfter
    /\ intent' = CASE Side = "buy" -> [side |-> "buy", lots |-> Bought]
                   [] Side = "sell" -> [side |-> "sell", lots |-> held]
                   [] OTHER -> NoIntent
    /\ orders' = IF Side = "none" THEN orders
                 ELSE Append(orders, [id |-> <<run, slot.seq>>, side |-> Side,
                                      lots |-> intent'.lots])
    /\ UNCHANGED slot

\* A bar while the market is open: on_bar, then the await of its order or of
\* the next bar.
BarOpen ==
    /\ loop = "next"
    /\ Yield /\ OnBar
    /\ loop' = IF Side = "none" THEN "between" ELSE "submit"
    /\ UNCHANGED <<run, today, compVars, venueOrders, costVars>>

\* A bar while the market is closed: continue.
BarClosed ==
    /\ loop = "next" /\ Yield
    /\ loop' = "between"
    /\ UNCHANGED <<run, today, intent, stateVars, compVars, histVars, costVars>>

\* The loop body is done and the bar source is asked for the next bar.
NextBar ==
    /\ loop = "between" /\ AskNext
    /\ loop' = "next"
    /\ UNCHANGED <<run, today, intent, stateVars, compVars, histVars, costVars>>

\* The bar source polls without news.
Poll ==
    /\ loop = "next"
    /\ NoNews \/ PollAgain
    /\ UNCHANGED <<run, today, loopVars, stateVars, compVars, histVars, costVars>>

UnitsOf(order) == {order.side} \X (order.lots \X (1 .. Parts))

\* What becomes of the order in flight: some of it, all or nothing executes,
\* and the rest stays open or is over (rejected, cancelled or expired, by the
\* venue, or refused by the session guard before it came there).
Outcome ==
    \E done \in SUBSET UnitsOf(intent) :
        LET rest == UnitsOf(intent) \ done
        IN  /\ executed' = executed \cup done
            /\ \/ open' = open \cup rest /\ UNCHANGED unfilled
               \/ unfilled' = unfilled \cup rest /\ UNCHANGED open

\* submit returns.
Submitted ==
    /\ loop = "submit"
    /\ Outcome
    /\ loop' = "between" /\ intent' = NoIntent
    /\ UNCHANGED <<venueVars, genVars, run, today, stateVars, compVars, acted,
                   orders, costVars>>

\* The venue executes a unit of an order that it had acknowledged only, or
\* what is left of an order ends: it is cancelled (by cancel_open, or by hand)
\* or it expires.  Nobody tells the bot.
ExecutesLater ==
    \E unit \in open :
        /\ executed' = executed \cup {unit} /\ open' = open \ {unit}
        /\ UNCHANGED <<venueVars, genVars, run, today, loopVars, stateVars,
                       compVars, acted, orders, unfilled, costVars>>
RestIsOver ==
    \E i \in DOMAIN orders :
        /\ UnitsOf(orders[i]) \cap open # {}
        /\ open' = open \ UnitsOf(orders[i])
        /\ unfilled' = unfilled \cup (UnitsOf(orders[i]) \cap open)
        /\ UNCHANGED <<venueVars, genVars, run, today, loopVars, stateVars,
                       compVars, acted, orders, executed, costVars>>

\* The worker leaves: submit or the bar source raises, the breaker trips, or
\* the bot is stopped or killed.  The finally cancels the companion, in the
\* middle of a consult too, and waits for it.  Whatever becomes of an order in
\* flight.
Ends ==
    /\ loop # "ended"
    /\ IF loop = "submit" THEN Outcome ELSE UNCHANGED venueOrders
    /\ loop' = "ended" /\ intent' = NoIntent
    /\ comp' = "dead"
    /\ UNCHANGED <<venueVars, genVars, run, today, stateVars, day, consults,
                   flagged, seq, snap, acted, orders, costVars>>

\* The bot is started again, with a new BotHandle, bar source and companion.
Restart ==
    /\ loop = "ended" /\ run < MaxRuns
    /\ run' = run + 1
    /\ loop' = "next" /\ gen' = "fetching" /\ lastTs' = 0
    /\ closes' = 0 /\ slot' = NoSignal /\ consumed' = 0 /\ held' = {}
    /\ comp' = "asleep" /\ day' = 0 /\ consults' = 0 /\ flagged' = FALSE
    /\ seq' = 0 /\ snap' = 0 /\ acted' = 0
    /\ UNCHANGED <<venueVars, forming, intent, today, orders, venueOrders,
                   costVars>>

-----------------------------------------------------------------------------
(* The companion.                                                          *)

\* The counters after the date check.
Rolled == day # today
ConsultsToday == IF Rolled THEN 0 ELSE consults
FlaggedToday == ~Rolled /\ flagged
\* Mutant: one consult too many.
CapPassed == Cap > 0 /\ ConsultsToday > Cap
CapHit == Cap > 0 /\ ConsultsToday >= Cap

\* Mutant: the position is read once, when the companion starts.
SnapshotKept == snap
\* What is known when the position is read: the decisions acted on so far, and
\* the one in the slot that the next bar will act on.
Snapshot == IF Fresher THEN acted + 1 ELSE acted

\* The sleep is over: the date check, the snapshot, and then one of: too few
\* closes, the cap with or without its event, a consult.
Tick ==
    /\ comp = "asleep"
    /\ day' = today
    /\ consults' = ConsultsToday
    /\ snap' = Snapshot
    /\ \/ /\ closes < 2
          /\ flagged' = FlaggedToday /\ UNCHANGED <<comp, asked>>
       \/ /\ closes >= 2 /\ CapHit
          /\ flagged' = TRUE
          /\ comp' = IF FlaggedToday THEN "asleep" ELSE "flagging"
          /\ UNCHANGED asked
       \/ /\ closes >= 2 /\ ~CapHit
          /\ flagged' = FlaggedToday
          /\ seq < MaxSeq
          /\ comp' = "consulting"
          /\ asked' = [asked EXCEPT ![run][today] = @ + 1]
    /\ UNCHANGED <<venueVars, genVars, run, today, loopVars, stateVars, seq,
                   histVars, failed, flags>>

\* client.signal answers with a valid action: it is counted and written into
\* the slot, over a decision that may not have been acted on, and announced.
Decide ==
    /\ comp = "consulting"
    /\ consults' = consults + 1 /\ seq' = seq + 1
    /\ \E a \in Actions : slot' = [seq |-> seq + 1, action |-> a, seen |-> snap]
    /\ comp' = "announcing"
    /\ UNCHANGED <<venueVars, genVars, run, today, loopVars, closes, consumed,
                   held, day, flagged, snap, histVars, costVars>>

\* client.signal raises (no answer, an error status, an unknown action): the
\* companion sleeps on, and nothing is counted.
ConsultFails ==
    /\ comp = "consulting" /\ failed[run][day] < MaxFails
    /\ comp' = "asleep"
    /\ failed' = [failed EXCEPT ![run][day] = @ + 1]
    /\ UNCHANGED <<venueVars, genVars, run, today, loopVars, stateVars, day,
                   consults, flagged, seq, snap, histVars, asked, flags>>

\* _emit returns; the event is in the stream.
Announced ==
    /\ comp \in {"announcing", "flagging"}
    /\ flags' = IF comp = "flagging" THEN [flags EXCEPT ![run][day] = @ + 1]
                                     ELSE flags
    /\ comp' = "asleep"
    /\ UNCHANGED <<venueVars, genVars, run, today, loopVars, stateVars, day,
                   consults, flagged, seq, snap, histVars, asked, failed>>

\* The publish raises: run() ends, and nobody notices before the bot ends.
AnnounceFails ==
    /\ comp \in {"announcing", "flagging"}
    /\ comp' = "dead"
    /\ UNCHANGED <<venueVars, genVars, run, today, loopVars, stateVars, day,
                   consults, flagged, seq, snap, histVars, costVars>>

-----------------------------------------------------------------------------
Midnight ==
    /\ today < MaxDays
    /\ today' = today + 1
    /\ UNCHANGED <<venueVars, genVars, run, loopVars, stateVars, compVars,
                   histVars, costVars>>

Market ==
    /\ Period
    /\ UNCHANGED <<run, today, loopVars, stateVars, compVars, histVars, costVars>>

BarLoop == BarOpen \/ BarClosed \/ NextBar \/ Poll \/ Submitted
Companion == Tick \/ Decide \/ ConsultFails \/ Announced \/ AnnounceFails

\* The bounds are used up and the bot has ended for good.
Over ==
    /\ loop = "ended" /\ run = MaxRuns /\ today = MaxDays /\ now = MaxPeriod
    /\ UNCHANGED vars

Venue == ExecutesLater \/ RestIsOver

Next ==
    \/ BarLoop \/ Companion \/ Ends \/ Restart \/ Venue
    \/ Midnight \/ Market \/ Over

Spec == Init /\ [][Next]_vars

\* The event loop resumes the bar loop, whose fetches, sleeps and submits have
\* an outcome.  Nothing is promised of the market, the model or the operator.
FairSpec == Spec /\ WF_vars(BarLoop)

-----------------------------------------------------------------------------
(* Properties.                                                             *)

Executions == {"buy", "sell"} \X Units
TypeOK ==
    /\ now \in 0 .. MaxPeriod /\ candles \subseteq 1 .. now
    /\ gen \in {"fetching", "sleeping", "yielded"}
    /\ lastTs \in 0 .. now /\ forming \subseteq candles
    /\ run \in Runs /\ today \in Days
    /\ loop \in {"next", "between", "submit", "ended"}
    /\ intent \in [side : {"buy", "sell", "none"}, lots : SUBSET Lots]
    /\ closes \in 0 .. Lookback
    /\ slot \in [seq : 0 .. MaxSeq, action : Actions, seen : 0 .. MaxSeq]
    /\ consumed \in 0 .. MaxSeq /\ held \subseteq Lots
    /\ comp \in {"asleep", "consulting", "announcing", "flagging", "dead"}
    /\ day \in 0 .. MaxDays /\ consults \in Nat /\ flagged \in BOOLEAN
    /\ seq \in 0 .. MaxSeq /\ snap \in 0 .. MaxSeq /\ acted \in 0 .. MaxSeq
    /\ executed \subseteq Executions /\ open \subseteq Executions
    /\ unfilled \subseteq Executions

\* No decision leads to two orders, and orders follow the order of the
\* decisions, over restarts too, although the slot is written and read by two
\* coroutines and survives until the next decision.
ActedOnce ==
    \A i, j \in DOMAIN orders : i < j =>
        \/ orders[i].id[1] < orders[j].id[1]
        \/ orders[i].id[1] = orders[j].id[1] /\ orders[i].id[2] < orders[j].id[2]

\* A decision is acted on at the position it was made for, except that the one
\* decision that was in the slot when the companion took its snapshot may have
\* been acted on since: a slow answer never meets a position that two or more
\* later orders, or one that was decided on later, have changed.
AtMostOneBehind ==
    Fresher => acted <= slot.seen

\* What the executions add up to: the units bought and not sold, and those
\* sold without having been bought.
Done(side) == {unit \in Units : <<side, unit>> \in executed}
Position == Done("buy") \ Done("sell")
Short == Done("sell") \ Done("buy")
\* A unit of a submitted order that has not executed, yet or for good.
Outstanding(side, unit) == <<side, unit>> \in open \cup unfilled

\* The held quantity follows intents and not fills.  A sell unwinds exactly
\* buys of its own run that no earlier sell unwound, and the quantity departs
\* from the position in this way only: the bot is short by units of buys that
\* have not executed, yet or for good, and believes it holds such units; and it
\* keeps, unknown to itself, units whose sell has not executed or whose run
\* ended.
HeldAgainstPosition ==
    /\ \A j \in DOMAIN orders : orders[j].side = "sell" =>
          \A lot \in orders[j].lots :
              /\ lot[1] = orders[j].id[1]
              /\ \E i \in 1 .. j - 1 : orders[i].side = "buy" /\ orders[i].lots = {lot}
              /\ \A i \in 1 .. j - 1 :
                    orders[i].side = "sell" => lot \notin orders[i].lots
    /\ \A unit \in Short : Outstanding("buy", unit)
    /\ \A unit \in Units \ Position : unit[1] \in held =>
          Outstanding("buy", unit) \/ unit[1] \in intent.lots
    /\ \A unit \in Position : unit[1] \notin held =>
          \/ Outstanding("sell", unit)
          \/ unit[1][1] < run \/ unit[1] \in intent.lots

\* Spending, by start of the bot: consults of one run and day that were
\* answered, lost to the bot's end or are under way never exceed the cap; its
\* exhaustion is announced at most once, after it was reached, and no consult
\* follows the announcement.  What fails is not counted.
BudgetKept ==
    Cap > 0 => \A r \in Runs, d \in Days :
        /\ asked[r][d] <= failed[r][d] + Cap
        /\ flags[r][d] <= 1
        /\ flags[r][d] = 1 => asked[r][d] = failed[r][d] + Cap

\* The cap as it is documented: "per-bot/day cap on ai_signal model consults"
\* (entrypoint.py:11), "at most this many model consults per UTC day"
\* (ai_companion.py:69).  The count starts over with the bot and leaves out
\* what failed.
DailyCap ==
    Cap > 0 => \A d \in Days : MapThenSumSet(LAMBDA r : asked[r][d], Runs) <= Cap

\* A candle is yielded while its period goes on only if no other candle is in
\* the window of the request then: the first one a venue ever had, or the first
\* after a pause as long as the window.
FormingIsAlone ==
    forming \subseteq {c \in candles : ~\E d \in candles : d < c /\ c < d + Window}

\* What the bar source feeds the strategy: closed bars but for a lone one, and
\* without stalling.  A candle that is followed by another is yielded, or passed
\* over for a later one, unless it leaves the window or the bot ends.
BarFeed ==
    /\ []FormingIsAlone
    /\ \A c \in 1 .. MaxPeriod :
          (c \in candles /\ \E d \in candles : d > c) ~>
              (lastTs >= c \/ now >= c + Window \/ loop = "ended")
=============================================================================
