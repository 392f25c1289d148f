----------------------------- MODULE BarSource ------------------------------
(***************************************************************************)
(* CcxtBarSource (exchanges/ccxt_live.py): the generator that polls a      *)
(* venue for candles and yields a bar per newly closed one.                *)
(*                                                                         *)
(* A candle is its timestamp.  A period without trades has no candle, so   *)
(* the venue's candles are any subset of the periods begun so far, and the *)
(* newest one may be forming or closed long ago (alpaca_data.py's IEX feed *)
(* is sparse; crypto venues fill every period).  The generator advances    *)
(* only while its consumer awaits the next bar.                            *)
(***************************************************************************)
EXTENDS Naturals, FiniteSetsExt

CONSTANTS
    Limit,      \* rows asked of the venue
    Window,     \* periods that the request reaches back
    MaxPeriod,  \* bound: periods
    MaxGaps     \* bound: periods without a candle

\* Every caller leaves the limit at 2.
ASSUME BarSourceAssumption ==
    /\ Limit \in Nat \ {0, 1} /\ Window \in Nat \ {0}
    /\ MaxPeriod \in Nat /\ MaxGaps \in Nat

VARIABLES
    now,        \* venue: the current period
    candles,    \* venue: periods with a candle
    gen,        \* where the generator is suspended
    lastTs,     \* its last_ts; 0 is None
    forming     \* history: bars that were yielded before their period ended

venueVars == <<now, candles>>
genVars == <<gen, lastTs, forming>>

BarInit ==
    /\ now = 0 /\ candles = {}
    /\ gen = "fetching" /\ lastTs = 0 /\ forming = {}

\* Time passes at the venue, and the new period has a trade or it has none.
Period ==
    /\ now < MaxPeriod
    /\ now' = now + 1
    /\ \/ candles' = candles \cup {now + 1}
       \/ now - Cardinality(candles) < MaxGaps /\ UNCHANGED candles
    /\ UNCHANGED genVars

\* fetch_ohlcv: the newest Limit rows of a window that reaches back from now.
\* _request_bars of alpaca_data.py asks for them newest first and reverses them;
\* its window is six days (seven for daily bars), so a symbol that trades rarely
\* may have one row in it, or none.
Rows == {c \in candles : c + Window > now /\ Cardinality({d \in candles : d > c}) < Limit}

\* _latest_closed: the row before the last, or the last if there is no other.
LatestClosed(rows) ==
    IF Cardinality(rows) >= 2 THEN Max(rows \ {Max(rows)}) ELSE Max(rows)

\* Mutant: only the candle of the next period is news.
HasNewsInSequence ==
    Rows # {} /\ (lastTs = 0 \/ LatestClosed(Rows) = lastTs + 1) /\ LatestClosed(Rows) > lastTs

\* The answer holds a row newer than any yielded before.
HasNews == Rows # {} /\ LatestClosed(Rows) > lastTs

\* The answer arrives and a bar is yielded.
Yield ==
    /\ gen = "fetching" /\ HasNews
    /\ lastTs' = LatestClosed(Rows)
    /\ forming' = forming \cup ({lastTs'} \cap {now})
    /\ gen' = "yielded"
    /\ UNCHANGED venueVars

\* The answer has nothing new.
NoNews ==
    /\ gen = "fetching" /\ ~HasNews
    /\ gen' = "sleeping"
    /\ UNCHANGED <<lastTs, forming, venueVars>>

\* asyncio.sleep(poll_interval) is over.
PollAgain ==
    /\ gen = "sleeping"
    /\ gen' = "fetching"
    /\ UNCHANGED <<lastTs, forming, venueVars>>

\* The consumer asks for the next bar: the generator goes to sleep first.
AskNext ==
    /\ gen = "yielded"
    /\ gen' = "sleeping"
    /\ UNCHANGED <<lastTs, forming, venueVars>>
=============================================================================
