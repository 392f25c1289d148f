---------------------------- MODULE MarketSession ----------------------------
(***************************************************************************)
(* market/session.py: when a market is open.  Time is counted in slots of  *)
(* a day in the exchange's own time zone; day 0 is a Monday.  Abstracted:  *)
(* the conversion from UTC, and with it days that are an hour longer or    *)
(* shorter.                                                                *)
(***************************************************************************)
EXTENDS Integers

CONSTANTS
    SlotsPerDay,
    OpenSlot, CloseSlot,  \* regular hours, the closing slot excluded
    Holidays              \* days of full closure

ASSUME SessionAssumption ==
    /\ SlotsPerDay \in Nat \ {0}
    /\ OpenSlot \in 0 .. SlotsPerDay - 1
    /\ CloseSlot \in OpenSlot + 1 .. SlotsPerDay
    /\ Holidays \subseteq Nat

Day(t) == t \div SlotsPerDay
TradingDay(d) == d % 7 < 5 /\ d \notin Holidays

\* is_open of CryptoSession and UsEquitySession.
IsOpen(class, t) ==
    class = "equity" =>
        TradingDay(Day(t)) /\ t % SlotsPerDay \in OpenSlot .. CloseSlot - 1
=============================================================================
