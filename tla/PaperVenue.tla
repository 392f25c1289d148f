----------------------------- MODULE PaperVenue ------------------------------
(***************************************************************************)
(* PaperExchangeAdapter (exchanges/paper.py) for one symbol, and the       *)
(* SessionGuardedAdapter before it, as functions.  A venue is its mark and *)
(* its resting limit orders; order ids are left out, as nothing but the    *)
(* take-down of all orders refers to them.                                 *)
(***************************************************************************)
EXTENDS Integers, Sequences, SequencesExt

CONSTANTS SlippageBps, FeeBps

ASSUME VenueAssumption == SlippageBps \in Nat /\ FeeBps \in Nat

NoMark == -1
EmptyVenue == [mark |-> NoMark, resting |-> <<>>]

\* _apply_slippage and _build_fill.
Slipped(price, side) ==
    LET adj == (price * SlippageBps) \div 10000
    IN  IF side = "buy" THEN price + adj ELSE price - adj
Fill(side, qty, price) ==
    [side |-> side, qty |-> qty, price |-> price,
     fee |-> (qty * price * FeeBps) \div 10000]

\* _match_resting: what the new mark crosses.
Crossed(order, mark) ==
    IF order.side = "buy" THEN mark <= order.limit ELSE mark >= order.limit
MatchFill(order, mark) ==
    LET better == IF (order.side = "buy") = (mark < order.limit) THEN mark
                                                                 ELSE order.limit
    IN  Fill(order.side, order.qty, Slipped(better, order.side))

\* The elements of a sequence that are in S, in their order.
Kept(s, S) ==
    LET kept[k \in 0 .. Len(s)] ==
            IF k = 0 THEN <<>>
            ELSE IF s[k] \in S THEN Append(kept[k - 1], s[k]) ELSE kept[k - 1]
    IN  kept[Len(s)]
Matched(orders, mark) == Kept(orders, {o \in ToSet(orders) : Crossed(o, mark)})
Unmatched(orders, mark) == Kept(orders, {o \in ToSet(orders) : ~Crossed(o, mark)})

\* update_mark: the orders that filled are gone, and their fills are returned.
UpdateMark(venue, price) ==
    LET filled == Matched(venue.resting, price)
    IN  [venue |-> [mark |-> price, resting |-> Unmatched(venue.resting, price)],
         fills |-> [i \in DOMAIN filled |-> MatchFill(filled[i], price)]]

\* place_order: a market order fills at the mark or is refused without one, a
\* limit order rests until the next mark, even if it crosses this one.
Place(venue, intent) ==
    IF intent.type = "limit"
    THEN [venue |-> [venue EXCEPT !.resting = Append(@, intent)],
          status |-> "submitted", fills |-> <<>>]
    ELSE IF venue.mark <= 0
    THEN [venue |-> venue, status |-> "rejected", fills |-> <<>>]
    ELSE [venue |-> venue, status |-> "filled",
          fills |-> <<Fill(intent.side, intent.qty, Slipped(venue.mark, intent.side))>>]

\* SessionGuardedAdapter.place_order: refused when the market is closed.
GuardedPlace(venue, intent, open) ==
    IF open THEN Place(venue, intent)
            ELSE [venue |-> venue, status |-> "rejected", fills |-> <<>>]
=============================================================================
