--------------------------- MODULE MCPaymentFlow ---------------------------
(***************************************************************************)
(* Instances of PaymentFlow for TLC.                                       *)
(***************************************************************************)
EXTENDS PaymentFlow, TLC

CONSTANTS job, web

\* Failed attempts paid again under two orders, refunds that fail, and
\* confirmations that are overtaken: the discount stays.
Callers == [orders |-> 2, prices |-> {2}, discounts |-> FALSE, repay |-> TRUE, fails |-> TRUE, slow |-> TRUE]

\* Prices that change while windows are open: one order, nothing fails.
Discounts == [orders |-> 1, prices |-> {0, 1, 2, 3}, discounts |-> TRUE, repay |-> FALSE, fails |-> FALSE,
              slow |-> FALSE]

BothWorlds == {Callers, Discounts}

\* Overtaken confirmations of an order whose price has changed.
Stale == {[orders |-> 1, prices |-> {1, 2}, discounts |-> TRUE, repay |-> FALSE, fails |-> FALSE,
           slow |-> TRUE]}

\* The refund bound is never met: it cuts no behaviour off.
RefundsSuffice == Len(refunds) < MaxRefunds
=============================================================================
