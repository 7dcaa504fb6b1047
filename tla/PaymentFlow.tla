---------------------------- MODULE PaymentFlow -----------------------------
(***************************************************************************)
(* The money of one application paid online: the payment orders it opens,  *)
(* the payment gateway (PG) behind them, the confirmations that webhook,   *)
(* browser and reconciliation job run side by side, the price changes of   *)
(* the administrators, and the refunds all of them create.                 *)
(*                                                                         *)
(* Every transaction locks the application row, so it is one action.  What *)
(* is not atomic: confirmPayment asks the PG first and opens its           *)
(* transaction afterwards, a checkout window stays open while everything   *)
(* else goes on, and a refund is carried out after the transaction that    *)
(* created it (see RefundQueue for that one).                              *)
(***************************************************************************)
EXTENDS Integers, Sequences, FiniteSets, FiniteSetsExt

CONSTANTS
  MaxOrders,    \* bound: payment orders of the application
  MaxRefunds,   \* bound: refunds of the application
  Rates,        \* refund percentages of withdrawal and cancellation
  Caller,       \* confirmations that may be in progress together
  Job,          \* the one of them the reconciliation job may use too
  Worlds        \* what the behaviours looked at may contain: see World

\* orders: payment orders the application opens; prices: what the discounts
\* can lead to; discounts: whether the discount is changed; repay: the PG takes
\* another attempt under a failed order number; fails: refunds may fail for
\* good, to be retried by an administrator; slow: a refund may overtake a
\* confirmation of the same order.
World == [orders : 1..MaxOrders, prices : SUBSET Nat, discounts : BOOLEAN, repay : BOOLEAN,
          fails : BOOLEAN, slow : BOOLEAN]

ASSUME ConstantsAssumption ==
  /\ MaxOrders \in Nat \ {0} /\ MaxRefunds \in Nat
  /\ Rates \subseteq 0..100
  /\ Job \in Caller
  /\ Worlds \subseteq World

Totals == UNION {w.prices : w \in Worlds}

VARIABLES
  world,    \* the one of Worlds this behaviour is in
  status,   \* applications.status; "submitted" stands for every later, live status
  lapsed,   \* the payment deadline is over
  total,    \* applications.total_amount
  pay,      \* payments: one row for each order number
  refunds,  \* refunds, in the order they were created
  windows,  \* checkout windows open in browsers: <<order, amount>>
  pg,       \* what the PG knows of each order number
  read      \* read[c]: what confirmation c was told by the PG

vars == <<world, status, lapsed, total, pay, refunds, windows, pg, read>>

-----------------------------------------------------------------------------
Order == 1..MaxOrders

NoPay == [status |-> "none", amount |-> 0, at |-> 0]

NoRead == [order |-> 0, status |-> "none", amount |-> 0, at |-> 0]

Init ==
  /\ world \in Worlds
  /\ status = "pending_payment"
  /\ lapsed = FALSE
  /\ total \in world.prices \ {0}
  /\ pay = [o \in Order |-> IF o = 1 THEN [status |-> "ready", amount |-> total, at |-> 0] ELSE NoPay]
  /\ refunds = <<>>
  /\ windows = {}
  /\ pg = [o \in Order |-> [status |-> "none", amount |-> 0, cancelled |-> 0, at |-> 0]]
  /\ read = [c \in Caller |-> NoRead]

Opened == {o \in Order : pay[o].status # "none"}

SumOver(f, S) == MapThenSumSet(LAMBDA x : f[x], S)

\* The sum of the refunds of the orders O that are in one of the states S.
Refunded(O, S) ==
  SumOver([i \in DOMAIN refunds |-> refunds[i].amount],
          {i \in DOMAIN refunds : refunds[i].order \in O /\ refunds[i].status \in S})

Owed == {"requested", "succeeded"}

\* The order createRefund takes: the paid one that was paid last, if any.
LatestPaid(p) ==
  {o \in Order : p[o].status = "paid" /\ \A q \in Order : p[q].status = "paid" => p[q].at <= p[o].at}

\* Mutant: what was refunded before is not taken off.
CreateRefund_Gross(p, diff, rate, basis) ==
  IF LatestPaid(p) = {} THEN refunds
  ELSE LET o == Max(LatestPaid(p)) IN
       Append(refunds, [order |-> o, status |-> "requested", basis |-> basis,
                        amount |-> IF diff > 0 THEN diff ELSE (p[o].amount * rate) \div 100])

\* createRefund: diff won, or rate percent of the payment when diff is 0, but
\* never more than what is left of it.  p is payments as the transaction has
\* written it so far.
CreateRefund(p, diff, rate, basis) ==
  IF LatestPaid(p) = {} THEN refunds
  ELSE LET o      == Max(LatestPaid(p))
           wanted == IF diff > 0 THEN diff ELSE (p[o].amount * rate) \div 100
           amount == Min({wanted, p[o].amount - Refunded({o}, Owed)})
       IN IF amount <= 0 THEN refunds
          ELSE Append(refunds, [order |-> o, status |-> "requested", basis |-> basis, amount |-> amount])

CanRefund == Len(refunds) < MaxRefunds

-----------------------------------------------------------------------------
(* The applicant, the browser and the PG.                                  *)

Lapse ==
  /\ status = "pending_payment" /\ ~lapsed
  /\ lapsed' = TRUE
  /\ UNCHANGED <<world, status, total, pay, refunds, windows, pg, read>>

\* prepareCheckout: the last order is used while it is ready; otherwise a new
\* one is opened.  The amount goes to the browser.
PrepareCheckout ==
  LET last == Max(Opened)
      o    == IF pay[last].status = "ready" THEN last ELSE last + 1
  IN /\ status = "pending_payment" /\ ~lapsed
     /\ o <= world.orders
     /\ pay' = IF o = last THEN pay
               ELSE [pay EXCEPT ![o] = [status |-> "ready", amount |-> total, at |-> 0]]
     /\ windows' = windows \cup {<<o, total>>}
     /\ UNCHANGED <<world, status, lapsed, total, refunds, pg, read>>

\* The PG accepts a payment attempt under this order number.
PgTakes(o) == pg[o].status = "none" \/ (world.repay /\ pg[o].status = "FAILED")

\* The applicant pays in an open window, whatever happened since it opened.
PayInWindow(o, amount) ==
  /\ <<o, amount>> \in windows /\ amount > 0
  /\ PgTakes(o)
  /\ pg' = [pg EXCEPT ![o] = [status |-> "PAID", amount |-> amount, cancelled |-> 0,
                              at |-> 1 + Max({pg[q].at : q \in Order})]]
  /\ UNCHANGED <<world, status, lapsed, total, pay, refunds, windows, read>>

FailInWindow(o, amount) ==
  /\ <<o, amount>> \in windows
  /\ PgTakes(o) /\ pg[o].status = "none"
  /\ pg' = [pg EXCEPT ![o].status = "FAILED", ![o].amount = amount]
  /\ UNCHANGED <<world, status, lapsed, total, pay, refunds, windows, read>>

-----------------------------------------------------------------------------
(* Confirmation.                                                           *)

Snapshot(o) == [order |-> o, status |-> pg[o].status, amount |-> pg[o].amount, at |-> pg[o].at]

\* A webhook, or the browser coming back: gateway.getPayment.
ReadPayment(c, o) ==
  /\ read[c] = NoRead
  /\ o \in Opened /\ pg[o].status # "none"
  /\ read' = [read EXCEPT ![c] = Snapshot(o)]
  /\ UNCHANGED <<world, status, lapsed, total, pay, refunds, windows, pg>>

\* Mutant: only orders still ready are asked about.
Reconciled_ReadyOnly(o) ==
  /\ pay[o].status = "ready" /\ pay[o].at = 0
  /\ status \in {"pending_payment", "payment_expired", "withdrawn"}

\* The orders reconcilePayments asks about.
Reconciled(o) ==
  /\ pay[o].status \in {"ready", "cancelled"} /\ pay[o].at = 0
  /\ status \in {"pending_payment", "payment_expired", "withdrawn"}

ReconcileRead(o) ==
  /\ read[Job] = NoRead
  /\ Reconciled(o) /\ pg[o].status # "none"
  /\ read' = [read EXCEPT ![Job] = Snapshot(o)]
  /\ UNCHANGED <<world, status, lapsed, total, pay, refunds, windows, pg>>

Done(c) == read' = [read EXCEPT ![c] = NoRead]

\* The order was confirmed before.
ConfirmAlready(c) ==
  /\ read[c].order # 0 /\ pay[read[c].order].status = "paid"
  /\ Done(c)
  /\ UNCHANGED <<world, status, lapsed, total, pay, refunds, windows, pg>>

\* Not paid: a failed attempt closes a ready order.
ConfirmUnpaid(c) ==
  LET r == read[c] IN
  /\ r.order # 0 /\ pay[r.order].status # "paid" /\ r.status # "PAID"
  /\ pay' = IF r.status \in {"FAILED", "CANCELLED"} /\ pay[r.order].status = "ready"
            THEN [pay EXCEPT ![r.order].status = "failed"] ELSE pay
  /\ Done(c)
  /\ UNCHANGED <<world, status, lapsed, total, refunds, windows, pg>>

Unconfirmed(r) == r.order # 0 /\ pay[r.order].status # "paid" /\ r.status = "PAID"

Recorded(r) ==
  [pay EXCEPT ![r.order] = [status |-> "paid", amount |-> r.amount, at |-> r.at]]

\* Mutant: the amount is not compared.
RightAmount_Any(r) == TRUE

RightAmount(r) == r.amount = pay[r.order].amount

\* Money came in, but not the amount of the order: recorded and returned.
ConfirmMismatch(c) ==
  LET r == read[c] IN
  /\ Unconfirmed(r) /\ ~RightAmount(r) /\ CanRefund
  /\ pay' = Recorded(r)
  /\ refunds' = CreateRefund(Recorded(r), 0, 100, "payment_error")
  /\ Done(c)
  /\ UNCHANGED <<world, status, lapsed, total, windows, pg>>

\* In the right amount and while the unpaid hold is there: received.
ConfirmPaid(c) ==
  LET r == read[c] IN
  /\ Unconfirmed(r) /\ RightAmount(r) /\ status = "pending_payment"
  /\ pay' = Recorded(r)
  /\ status' = "submitted"
  /\ Done(c)
  /\ UNCHANGED <<world, lapsed, total, refunds, windows, pg>>

\* In the right amount but too late, or twice: recorded and returned.
ConfirmLate(c) ==
  LET r == read[c] IN
  /\ Unconfirmed(r) /\ RightAmount(r) /\ status # "pending_payment" /\ CanRefund
  /\ pay' = Recorded(r)
  /\ refunds' = CreateRefund(Recorded(r), 0, 100, "late_payment")
  /\ Done(c)
  /\ UNCHANGED <<world, status, lapsed, total, windows, pg>>

ConfirmPayment(c) ==
  ConfirmAlready(c) \/ ConfirmUnpaid(c) \/ ConfirmMismatch(c) \/ ConfirmPaid(c) \/ ConfirmLate(c)

-----------------------------------------------------------------------------
(* The end of the application.                                             *)

\* Ready orders are cancelled with the application.
CancelReady == [o \in Order |-> IF pay[o].status = "ready" THEN [pay[o] EXCEPT !.status = "cancelled"] ELSE pay[o]]

Expire ==
  /\ status = "pending_payment" /\ lapsed
  /\ status' = "payment_expired"
  /\ pay' = CancelReady
  /\ UNCHANGED <<world, lapsed, total, refunds, windows, pg, read>>

Withdraw(rate) ==
  /\ CanRefund
  /\ \/ /\ status = "pending_payment"
        /\ pay' = CancelReady
        /\ UNCHANGED refunds
     \/ /\ status = "submitted"
        /\ refunds' = CreateRefund(pay, 0, rate, "withdrawn")
        /\ UNCHANGED pay
  /\ status' = "withdrawn"
  /\ UNCHANGED <<world, lapsed, total, windows, pg, read>>

\* Mutant: only an application under review is refunded.
Reject_NoRefund ==
  /\ status \in {"pending_payment", "submitted"} /\ CanRefund
  /\ status' = "rejected"
  /\ UNCHANGED <<world, lapsed, total, pay, refunds, windows, pg, read>>

\* Rejection, and likewise the closing of an overdue revision: all of the
\* payment is returned.
Reject ==
  /\ status \in {"pending_payment", "submitted"} /\ CanRefund
  /\ status' = "rejected"
  /\ refunds' = CreateRefund(pay, 0, 100, "rejected")
  /\ UNCHANGED <<world, lapsed, total, pay, windows, pg, read>>

Cancel(rate) ==
  /\ status = "submitted" /\ CanRefund
  /\ status' = "cancelled"
  /\ refunds' = IF rate > 0 THEN CreateRefund(pay, 0, rate, "cancelled") ELSE refunds
  /\ UNCHANGED <<world, lapsed, total, pay, windows, pg, read>>

-----------------------------------------------------------------------------
(* Price changes.                                                          *)

PaidAmount == [o \in Order |-> pay[o].amount]

\* What was received, as changeApplicationDiscount counts it.
Received ==
  LET paid == {o \in Order : pay[o].status = "paid"} IN
  SumOver(PaidAmount, paid)
    - (IF paid = {} THEN 0 ELSE Refunded(Order, Owed))

\* Mutant: the orders already opened keep their amount.
RepriceReady_Keep(t) == pay

RepriceReady(t) == [o \in Order |-> IF pay[o].status = "ready" THEN [pay[o] EXCEPT !.amount = t] ELSE pay[o]]

\* Another discount, perhaps at the same price: before payment the ready orders
\* get it; afterwards it may not exceed what was received, and the difference is
\* returned.
ChangeDiscount(t) ==
  /\ world.discounts /\ CanRefund
  /\ \/ /\ status = "pending_payment"
        /\ pay' = RepriceReady(t)
        /\ UNCHANGED refunds
     \/ /\ status = "submitted" /\ t <= Received
        /\ refunds' = IF t < Received THEN CreateRefund(pay, Received - t, 0, "discount") ELSE refunds
        /\ UNCHANGED pay
  /\ total' = t
  /\ UNCHANGED <<world, status, lapsed, windows, pg, read>>

-----------------------------------------------------------------------------
(* Refunds.                                                                *)

\* markSucceeded: a payment returned in full becomes cancelled.
Settled(i) ==
  LET o == refunds[i].order IN
  /\ refunds' = [refunds EXCEPT ![i].status = "succeeded"]
  /\ pay' = IF Refunded({o}, {"succeeded"}) + refunds[i].amount >= pay[o].amount
            THEN [pay EXCEPT ![o].status = "cancelled"] ELSE pay

\* Nothing in the code keeps a refund from finishing between the two halves of
\* a confirmation; worlds that look at something else leave that out.
Overtakes(o) == world.slow \/ \A c \in Caller : read[c].order # o

\* processRefund, and the PG returns the money.
RefundSucceeds(i) ==
  LET r == refunds[i]
      c == pg[r.order].cancelled + r.amount
  IN /\ r.status = "requested" /\ Overtakes(r.order)
     /\ pg[r.order].status \in {"PAID", "PARTIAL_CANCELLED"} /\ c <= pg[r.order].amount
     /\ pg' = [pg EXCEPT ![r.order].cancelled = c,
                         ![r.order].status = IF c = pg[r.order].amount THEN "CANCELLED" ELSE "PARTIAL_CANCELLED"]
     /\ Settled(i)
     /\ UNCHANGED <<world, status, lapsed, total, windows, read>>

\* processRefund for the last time it tries.
RefundGivenUp(i) ==
  /\ world.fails /\ refunds[i].status = "requested"
  /\ refunds' = [refunds EXCEPT ![i].status = "failed"]
  /\ UNCHANGED <<world, status, lapsed, total, pay, windows, pg, read>>

RetryRefund(i) ==
  /\ refunds[i].status = "failed"
  /\ refunds' = [refunds EXCEPT ![i].status = "requested"]
  /\ UNCHANGED <<world, status, lapsed, total, pay, windows, pg, read>>

-----------------------------------------------------------------------------
Checkout ==
  \/ Lapse \/ PrepareCheckout
  \/ \E o \in Order, t \in world.prices : PayInWindow(o, t) \/ FailInWindow(o, t)

\* The webhook and the browser's return.
WebhookOrReturn == \E c \in Caller, o \in Order : ReadPayment(c, o)

Confirmation ==
  \/ WebhookOrReturn
  \/ \E o \in Order : ReconcileRead(o)
  \/ \E c \in Caller : ConfirmPayment(c)

Ending ==
  \/ Expire \/ Reject
  \/ \E rate \in Rates : Withdraw(rate) \/ Cancel(rate)
  \/ \E t \in world.prices : ChangeDiscount(t)

Refunding ==
  \E i \in DOMAIN refunds :
    RefundSucceeds(i) \/ RefundGivenUp(i) \/ RetryRefund(i)

Next == Checkout \/ Confirmation \/ Ending \/ Refunding

Spec == Init /\ [][Next]_vars

\* The reconciliation job runs every five minutes and asks about each order it
\* selects; a confirmation that began commits.  Webhooks and browsers owe
\* nothing.
Fairness ==
  /\ \A o \in Order : SF_vars(ReconcileRead(o))
  /\ \A c \in Caller : WF_vars(ConfirmPayment(c))

FairSpec == Spec /\ Fairness

-----------------------------------------------------------------------------
(* Properties.                                                             *)

\* Every variable has its type.
TypeOK ==
  /\ world \in Worlds
  /\ status \in {"pending_payment", "payment_expired", "submitted", "rejected", "withdrawn", "cancelled"}
  /\ lapsed \in BOOLEAN
  /\ total \in Totals
  /\ pay \in [Order -> [status : {"none", "ready", "paid", "failed", "cancelled"},
                        amount : Totals \cup {0}, at : Nat]]
  /\ refunds \in Seq([order : Order, amount : Nat \ {0},
                      status : {"requested", "succeeded", "failed"},
                      basis : {"payment_error", "late_payment", "discount",
                               "withdrawn", "rejected", "cancelled"}])
  /\ windows \subseteq Order \X Totals
  /\ pg \in [Order -> [status : {"none", "PAID", "FAILED", "CANCELLED", "PARTIAL_CANCELLED"},
                       amount : Totals \cup {0}, cancelled : Nat, at : Nat]]
  /\ read \in [Caller -> [order : 0..MaxOrders, status : {"none", "PAID", "FAILED", "CANCELLED", "PARTIAL_CANCELLED"},
                          amount : Totals \cup {0}, at : Nat]]

Taken == SumOver(PaidAmount, {o \in Order : pay[o].at # 0})

AnyState == {"requested", "succeeded", "failed"}

\* What a live application has paid, less every refund created, is its price:
\* after failed attempts, new orders, windows left open while the discount
\* changed, and confirmations that race each other.
\* (createRefund takes the order paid last.  When that is returned already, a
\* further late payment is not: this takes a third order and a PG that takes
\* second attempts.  Likewise, a confirmation that is overtaken may refund
\* another order while prices change.  The worlds checked leave these out.)
PriceIsPaid ==
  status = "submitted" => Taken - Refunded(Order, AnyState) = total

\* An application that expired or was rejected keeps nothing: whatever was ever
\* taken for it, in time or late, has its refund.  (createRefund finds one paid
\* order only: a PG that took the money of two orders is left out.  Nor is it
\* true of refunds that fail while the price changes: the one that failed and the
\* one created since may both be there.)
EndedOwesNothing ==
  ~world.repay /\ status \in {"payment_expired", "rejected"} => Taken = Refunded(Order, AnyState)

\* The refunds of a payment, done or under way, never exceed it: whoever creates
\* them, in whatever order.  (A refund that failed is not counted by
\* createRefund and may be retried later: worlds with failures are left out.)
RefundsWithinPayment ==
  ~world.fails => \A o \in Order : Refunded({o}, Owed) <= pay[o].amount

\* An application is received only for money that is there: on an order taken
\* in full of which nothing is being returned.
AcceptedWithMoney ==
  [][status # "submitted" /\ status' = "submitted"
       => \E o \in Order : /\ pay'[o].status = "paid" /\ pg[o].status = "PAID"
                           /\ pay'[o].amount = total
                           /\ Refunded({o}, AnyState) = 0]_vars

\* A payment the PG took is noticed even when no webhook and no browser comes
\* back, and then it is accepted or refunded.  Not looked at again are the
\* orders of an application that was rejected or goes on with another order, and
\* those a failed attempt has closed.
PaidIsNoticed ==
  \A o \in Order :
    pg[o].status = "PAID" /\ pay[o].at = 0
      ~> pay[o].at # 0 \/ pay[o].status = "failed" \/ status \in {"rejected", "submitted", "cancelled"}
=============================================================================
