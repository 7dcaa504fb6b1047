------------------------- MODULE MCApplicationPrice -------------------------
(* Half hours.  Amounts that leave something to round; a schedule with a   *)
(* dearer space, and one without a price for the space and without option.  *)
(* The discount by an amount can take everything.                          *)
EXTENDS ApplicationPrice

Fee(base, baseFee, unit, extra, night) ==
  [base |-> base, baseFee |-> baseFee, unit |-> unit, extraFee |-> extra, night |-> night]

PerHourOption(fee) == [fee |-> fee, unit |-> "per_hour"]
PerBooking(fee) == [fee |-> fee, unit |-> "per_booking"]

First == [space |-> Fee(2, 7, 2, 3, 5), options |-> [l \in {"projector"} |-> PerHourOption(3)]]
Dearer == [space |-> Fee(4, 9, 1, 2, 0), options |-> [l \in {"projector"} |-> PerBooking(4)]]
Without == [space |-> Null, options |-> [l \in {} |-> Null]]

MCFees == {First, Dearer, Without}
MCFirstFees == <<First>>

Percent == [kind |-> "percent", value |-> 30]
Amount == [kind |-> "amount", value |-> 8]
MCDiscounts == {Percent, Amount}
MCFirstRules == [r \in Rule |-> IF r = "public" THEN Amount ELSE Percent]

MCTimes == {[start |-> 0, end |-> 2], [start |-> 0, end |-> 5]}
=============================================================================
