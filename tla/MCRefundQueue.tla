--------------------------- MODULE MCRefundQueue ---------------------------
(***************************************************************************)
(* Instances of RefundQueue for TLC.                                       *)
(***************************************************************************)
EXTENDS RefundQueue, TLC

CONSTANTS r1, r2

\* Two refunds that together return the payment, and could each be sent twice
\* without exceeding it before the other is.
Halves == [r \in {r1, r2} |-> 2]
=============================================================================
