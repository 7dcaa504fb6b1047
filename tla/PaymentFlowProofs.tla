-------------------------- MODULE PaymentFlowProofs -------------------------
(***************************************************************************)
(* Proofs about PaymentFlow, for any numbers of orders, refunds and        *)
(* confirmations, any prices, any rates and every kind of world.           *)
(*                                                                         *)
(* A step is first reduced to what it does to a row, to what the PG knows, *)
(* to what confirmations were told and to the refunds (Move); each         *)
(* invariant is then proved for such moves:                                *)
(*   MInv          in every world; with it RefundsWithin;                  *)
(*   OrderlyInv    without second attempts; with it Accepted;              *)
(*   AllReturned   without failures either; with it OwesNothing;           *)
(*   PriceOfLast   in a PlainWorld; with it PricePaid.                     *)
(*                                                                         *)
(* And about ApplicationPrice, for any schedules, rules and times: the     *)
(* price stands (Stands) since a discount put in place of another gives    *)
(* what a calculation from the beginning would (DiscountReplaced).         *)
(***************************************************************************)
EXTENDS PaymentFlow, ApplicationPrice, Sums, TLAPS

Bases == {"payment_error", "late_payment", "discount", "withdrawn", "rejected", "cancelled"}

Refund == [order : Order, amount : Nat \ {0}, status : {"requested", "succeeded", "failed"}, basis : Bases]

\* What the refunds rs of the orders O in one of the states S come to.
Amounts(rs) == [i \in DOMAIN rs |-> rs[i].amount]
Which(rs, O, S) == {i \in DOMAIN rs : rs[i].order \in O /\ rs[i].status \in S}
Returned(rs, O, S) == Total(Amounts(rs), Which(rs, O, S))

LEMMA SumOverIs == \A f, S : SumOver(f, S) = Total(f, S)
  BY DEF SumOver, Total

LEMMA RefundedIs == \A O, S : Refunded(O, S) = Returned(refunds, O, S)
  BY SumOverIs DEF Refunded, Returned, Amounts, Which

LEMMA RefundedIsNext == \A O, S : Refunded(O, S)' = Returned(refunds', O, S)
  BY SumOverIs DEF Refunded, Returned, Amounts, Which

LEMMA RefundsAreFew ==
  ASSUME NEW rs \in Seq(Refund)
  PROVE  /\ IsFiniteSet(DOMAIN rs) /\ Amounts(rs) \in [DOMAIN rs -> Nat]
         /\ DOMAIN rs = 1 .. Len(rs) /\ Len(rs) \in Nat
         /\ \A i \in DOMAIN rs : rs[i] \in Refund
         /\ \A O, S : Which(rs, O, S) \in SUBSET DOMAIN rs
<1>1. DOMAIN rs = 1 .. Len(rs) /\ Len(rs) \in Nat
  OBVIOUS
<1>2. IsFiniteSet(1 .. Len(rs))
  BY <1>1, FS_Interval
<1>3. \A i \in DOMAIN rs : rs[i] \in Refund
  BY <1>1
<1>4. Amounts(rs) \in [DOMAIN rs -> Nat]
  BY <1>3 DEF Amounts, Refund
<1> QED
  BY <1>1, <1>2, <1>3, <1>4 DEF Which

LEMMA ReturnedType ==
  ASSUME NEW rs \in Seq(Refund), NEW O, NEW S
  PROVE  Returned(rs, O, S) \in Nat
  BY RefundsAreFew, TotalType DEF Returned

\* Nothing is returned of orders without refunds.
LEMMA ReturnedNone ==
  ASSUME NEW rs \in Seq(Refund), NEW O, NEW S, \A i \in DOMAIN rs : rs[i].order \notin O
  PROVE  Returned(rs, O, S) = 0
<1>1. Which(rs, O, S) = {}
  BY DEF Which
<1> QED
  BY <1>1, TotalEmpty DEF Returned

\* One refund more.
LEMMA ReturnedMore ==
  ASSUME NEW rs \in Seq(Refund), NEW r \in Refund, NEW O, NEW S
  PROVE  Returned(Append(rs, r), O, S) =
           Returned(rs, O, S) + (IF r.order \in O /\ r.status \in S THEN r.amount ELSE 0)
<1> DEFINE n == Len(rs) + 1
           us == Append(rs, r)
           W  == Which(rs, O, S)
<1>1. us \in Seq(Refund) /\ DOMAIN us = (DOMAIN rs) \cup {n} /\ n \notin DOMAIN rs
      /\ us[n] = r /\ \A i \in DOMAIN rs : us[i] = rs[i]
  BY RefundsAreFew
<1> HIDE DEF us, n
<1>2. Which(us, O, S) = IF r.order \in O /\ r.status \in S THEN W \cup {n} ELSE W
  BY <1>1 DEF Which
<1>3. W \in SUBSET DOMAIN rs /\ W \in SUBSET DOMAIN us /\ n \notin W /\ n \in DOMAIN us
  BY <1>1, RefundsAreFew
<1>4. Total(Amounts(us), W) = Total(Amounts(rs), W)
  <2>1. \A i \in W : Amounts(us)[i] = Amounts(rs)[i]
    BY <1>1, <1>3 DEF Amounts
  <2>2. IsFiniteSet(W)
    BY <1>3, RefundsAreFew, FS_Subset
  <2> HIDE DEF W
  <2> QED
    BY <2>1, <2>2, TotalSame
<1>5. Total(Amounts(us), W \cup {n}) = Total(Amounts(us), W) + Amounts(us)[n]
  <2>1. IsFiniteSet(DOMAIN us) /\ Amounts(us) \in [DOMAIN us -> Nat]
    BY <1>1, RefundsAreFew
  <2> HIDE DEF W
  <2> QED
    BY <1>3, <2>1, TotalAdd
<1>6. Amounts(us)[n] = r.amount
  BY <1>1, <1>3 DEF Amounts
<1>7. Total(Amounts(rs), W) \in Nat
  BY ReturnedType DEF Returned
<1> QED
  BY <1>2, <1>4, <1>5, <1>6, <1>7 DEF Returned, us

\* One refund is found in another state.
LEMMA ReturnedAlike ==
  ASSUME NEW rs \in Seq(Refund), NEW i \in DOMAIN rs, NEW new, NEW O, NEW S,
         rs[i].status \in S <=> new \in S
  PROVE  Returned([rs EXCEPT ![i].status = new], O, S) = Returned(rs, O, S)
<1> DEFINE us == [rs EXCEPT ![i].status = new]
<1>1. /\ DOMAIN us = DOMAIN rs
      /\ \A j \in DOMAIN rs : us[j].order = rs[j].order /\ us[j].amount = rs[j].amount
      /\ \A j \in DOMAIN rs : us[j].status \in S <=> rs[j].status \in S
  BY RefundsAreFew DEF Refund
<1> HIDE DEF us
<1>2. Which(us, O, S) = Which(rs, O, S)
  BY <1>1 DEF Which
<1>3. Amounts(us) = Amounts(rs)
  BY <1>1 DEF Amounts
<1> QED
  BY <1>2, <1>3 DEF Returned, us

-----------------------------------------------------------------------------
PayRow == [status : {"none", "ready", "paid", "failed", "cancelled"}, amount : Totals \cup {0}, at : Nat]

PgState == {"none", "PAID", "FAILED", "CANCELLED", "PARTIAL_CANCELLED"}

PgRow == [status : PgState, amount : Totals \cup {0}, cancelled : Nat, at : Nat]

Told == [order : 0..MaxOrders, status : PgState, amount : Totals \cup {0}, at : Nat]

LEMMA TypesAre ==
  TypeOK <=>
    /\ world \in Worlds
    /\ status \in {"pending_payment", "payment_expired", "submitted", "rejected", "withdrawn", "cancelled"}
    /\ lapsed \in BOOLEAN
    /\ total \in Totals
    /\ pay \in [Order -> PayRow]
    /\ refunds \in Seq(Refund)
    /\ windows \subseteq Order \X Totals
    /\ pg \in [Order -> PgRow]
    /\ read \in [Caller -> Told]
  BY DEF TypeOK, PayRow, Refund, Bases, PgRow, PgState, Told

LEMMA WorldIs ==
  ASSUME TypeOK
  PROVE  /\ world.prices \subseteq Totals /\ Totals \subseteq Nat
         /\ world.orders \in 1 .. MaxOrders /\ world.fails \in BOOLEAN
         /\ world.slow \in BOOLEAN /\ world.repay \in BOOLEAN
         /\ MaxOrders \in Nat \ {0} /\ 1 \in Order /\ Order \subseteq Nat \ {0} /\ 0 \notin Order
<1>1. world \in Worlds /\ world \in World
  BY ConstantsAssumption DEF TypeOK
<1>2. world.prices \subseteq Totals
  BY <1>1 DEF Totals
<1>3. Totals \subseteq Nat
  BY ConstantsAssumption DEF World, Totals
<1>4. /\ world.orders \in 1 .. MaxOrders /\ world.fails \in BOOLEAN
      /\ world.slow \in BOOLEAN /\ world.repay \in BOOLEAN
  BY <1>1 DEF World
<1>5. MaxOrders \in Nat \ {0} /\ 1 \in Order /\ Order \subseteq Nat \ {0} /\ 0 \notin Order
  BY ConstantsAssumption DEF Order
<1> QED
  BY <1>2, <1>3, <1>4, <1>5

\* The largest of finitely many numbers.
LEMMA MaxIs ==
  ASSUME NEW S, IsFiniteSet(S), S \subseteq Nat, S # {}
  PROVE  Max(S) \in S /\ \A y \in S : y <= Max(S)
<1> DEFINE Good == {T \in SUBSET S : T # {} => \E x \in T : \A y \in T : y <= x}
<1>1. ASSUME NEW T \in SUBSET S, \A U \in SUBSET T : U # T => U \in Good PROVE T \in Good
  <2> SUFFICES ASSUME T # {} PROVE \E x \in T : \A y \in T : y <= x
    OBVIOUS
  <2>1. PICK z \in T : TRUE
    OBVIOUS
  <2>2. CASE T \ {z} = {}
    <3>1. \A y \in T : y = z
      BY <2>2
    <3>2. z \in T /\ z <= z
      BY <2>1
    <3>3. \A y \in T : y <= z
      BY <3>1, <3>2
    <3> QED
      BY <3>2, <3>3
  <2>3. CASE T \ {z} # {}
    <3>0. T \ {z} \in Good
      <4>1. T \ {z} \in SUBSET T /\ T \ {z} # T
        BY <2>1
      <4> QED
        BY <1>1, <4>1
    <3>1. PICK x \in T \ {z} : \A y \in T \ {z} : y <= x
      BY <2>3, <3>0
    <3>2. z \in Nat /\ x \in Nat /\ \A y \in T : y \in Nat
      BY <2>1, <3>1
    <3>3. CASE z <= x
      BY <3>1, <3>3
    <3>4. CASE x <= z
      <4>1. \A y \in T : y <= z
        BY <3>1, <3>2, <3>4
      <4> QED
        BY <2>1, <4>1
    <3> QED
      BY <3>2, <3>3, <3>4
  <2> QED
    BY <2>2, <2>3
<1> HIDE DEF Good
<1>2. S \in Good
  BY <1>1, SubsetInduction
<1>3. \E x \in S : \A y \in S : x >= y
  BY <1>2 DEF Good
<1>4. Max(S) \in S /\ \A y \in S : Max(S) >= y
  BY <1>3 DEF Max
<1> QED
  BY <1>4

LEMMA MinIs ==
  ASSUME NEW a \in Int, NEW b \in Int
  PROVE  Min({a, b}) \in {a, b} /\ Min({a, b}) <= a /\ Min({a, b}) <= b
<1>1. \E x \in {a, b} : \A y \in {a, b} : x <= y
  OBVIOUS
<1>2. Min({a, b}) \in {a, b} /\ \A y \in {a, b} : Min({a, b}) <= y
  BY <1>1 DEF Min
<1> QED
  BY <1>2

LEMMA OrdersAreFew ==
  ASSUME TypeOK, NEW S \in SUBSET Order
  PROVE  IsFiniteSet(S) /\ S \subseteq Nat
<1>1. IsFiniteSet(Order)
  BY FS_Interval, ConstantsAssumption DEF Order
<1> QED
  BY <1>1, FS_Subset, WorldIs

LEMMA PercentType ==
  ASSUME NEW a \in Nat, NEW rate \in Nat
  PROVE  (a * rate) \div 100 \in Nat
<1>1. a * rate \in Nat
  BY Z3
<1> QED
  BY <1>1, Z3

\* The refunds with a new one.
With(rs, o, basis, a) ==
  Append(rs, [order |-> o, status |-> "requested", basis |-> basis, amount |-> a])

\* What createRefund does: nothing, or one refund of the order it takes, within
\* what is left of that.
LEMMA CreateRefundIs ==
  ASSUME TypeOK, NEW p \in [Order -> PayRow], NEW diff \in Nat, NEW rate \in Nat, NEW basis \in Bases
  PROVE  \/ CreateRefund(p, diff, rate, basis) = refunds
         \/ \E o \in LatestPaid(p), a \in Nat \ {0} :
              /\ a + Refunded({o}, Owed) <= p[o].amount
              /\ CreateRefund(p, diff, rate, basis) =
                   With(refunds, o, basis, a)
<1> DEFINE o      == Max(LatestPaid(p))
           left   == p[o].amount - Refunded({o}, Owed)
           wanted == IF diff > 0 THEN diff ELSE (p[o].amount * rate) \div 100
           amount == Min({wanted, left})
<1> SUFFICES ASSUME LatestPaid(p) # {}
             PROVE  \/ amount <= 0
                    \/ /\ o \in LatestPaid(p) /\ amount \in Nat \ {0}
                       /\ amount + Refunded({o}, Owed) <= p[o].amount
  BY DEF CreateRefund, With
<1>1. o \in LatestPaid(p) /\ o \in Order
  <2>1. LatestPaid(p) \in SUBSET Order
    BY DEF LatestPaid
  <2>2. IsFiniteSet(LatestPaid(p)) /\ LatestPaid(p) \subseteq Nat
    BY <2>1, OrdersAreFew
  <2> QED
    BY <2>1, <2>2, MaxIs
<1>2. p[o].amount \in Nat
  <2>1. p[o] \in PayRow
    BY <1>1
  <2> QED
    BY <2>1, WorldIs DEF PayRow
<1>3. Refunded({o}, Owed) \in Nat
  BY RefundedIs, ReturnedType, TypesAre
<1>4. wanted \in Nat
  BY <1>2, PercentType
<1> HIDE DEF o, wanted
<1>5. left \in Int
  BY <1>2, <1>3
<1> HIDE DEF left
<1>6. amount \in {wanted, left} /\ amount <= left
  BY <1>4, <1>5, MinIs
<1> HIDE DEF amount
<1>7. amount \in Int /\ amount + Refunded({o}, Owed) <= p[o].amount
  <2>1. amount \in Int
    BY <1>4, <1>5, <1>6
  <2>2. amount <= p[o].amount - Refunded({o}, Owed)
    BY <1>6 DEF left
  <2> QED
    BY <2>1, <2>2, <1>2, <1>3
<1> QED
  BY <1>1, <1>7

-----------------------------------------------------------------------------
Took == {"PAID", "CANCELLED", "PARTIAL_CANCELLED"}

\* An order is recorded as paid when, and with what, the PG took.
PaidWasTaken ==
  \A o \in Order :
    /\ pay[o].status = "paid" => pay[o].at # 0
    /\ pay[o].status \in {"none", "ready", "failed"} => pay[o].at = 0
    /\ pay[o].at # 0 => pg[o].at = pay[o].at /\ pg[o].amount = pay[o].amount
    /\ pg[o].at # 0 <=> pg[o].status \in Took

\* What a confirmation was told of money stays so.
ToldStands ==
  \A c \in Caller : read[c].order # 0 =>
    /\ pay[read[c].order].status # "none"
    /\ read[c].status \in Took =>
         read[c].at # 0 /\ pg[read[c].order].at = read[c].at /\ pg[read[c].order].amount = read[c].amount

\* Only what was paid is returned.
RefundsOfPaid == \A i \in DOMAIN refunds : pay[refunds[i].order].at # 0

NoneFails == ~world.fails => \A i \in DOMAIN refunds : refunds[i].status # "failed"

\* Orders are opened one after the other, and only the last can be ready.
OrdersInRow ==
  /\ pay[1].status # "none"
  /\ \A o \in Order : pay[o].status # "none" =>
       /\ o <= world.orders
       /\ \A q \in Order : q < o => pay[q].status \notin {"none", "ready"}

MInv ==
  /\ TypeOK /\ PaidWasTaken /\ ToldStands /\ OrdersInRow
  /\ RefundsOfPaid /\ NoneFails /\ RefundsWithinPayment

-----------------------------------------------------------------------------
\* What a step does to the row of an order: nothing, or it is opened, ends or
\* is repriced unpaid, is recorded as paid, or is returned in full.
RowStays(o) == pay'[o] = pay[o]
RowOpens(o) ==
  /\ pay[o].status = "none" /\ pay'[o] = [status |-> "ready", amount |-> total, at |-> 0]
  /\ o <= world.orders
  /\ \A q \in Order : q < o => pay[q].status \notin {"none", "ready"}
  /\ \A q \in Order : q > o => pay[q].status = "none"
RowUnpaid(o) ==
  pay[o].status = "ready" /\ pay'[o].status \in {"ready", "failed", "cancelled"} /\ pay'[o].at = 0
RowPaid(o) ==
  /\ pay[o].status \notin {"none", "paid"} /\ pg[o].at # 0
  /\ pay'[o] = [status |-> "paid", amount |-> pg[o].amount, at |-> pg[o].at]
RowReturned(o) ==
  /\ pay[o].at # 0
  /\ pay'[o].status = "cancelled" /\ pay'[o].amount = pay[o].amount /\ pay'[o].at = pay[o].at

RowsMove == \A o \in Order : RowStays(o) \/ RowOpens(o) \/ RowUnpaid(o) \/ RowPaid(o) \/ RowReturned(o)

\* What it does to what the PG knows: nothing, an attempt, or a refund.
PgMoves ==
  \A o \in Order :
    \/ pg'[o] = pg[o]
    \/ pg[o].status \in {"none", "FAILED"} /\ (pg'[o].at # 0 <=> pg'[o].status \in Took)
    \/ /\ pg[o].status \in Took /\ pg'[o].status \in Took
       /\ pg'[o].at = pg[o].at /\ pg'[o].amount = pg[o].amount

\* And to the confirmations: nothing, one ends, or one begins.
ReadsMove ==
  \A c \in Caller :
    \/ read'[c] = read[c] \/ read'[c].order = 0
    \/ \E o \in Order : pay[o].status # "none" /\ read'[c] = Snapshot(o) /\ pg' = pg

\* What a step does to the refunds.
NoRefund == refunds' = refunds
NewRefund ==
  \E o \in LatestPaid(pay'), a \in Nat \ {0}, basis \in Bases :
    /\ a + Refunded({o}, Owed) <= pay'[o].amount
    /\ refunds' = With(refunds, o, basis, a)
RefundMoves ==
  \E i \in DOMAIN refunds :
    \/ refunds[i].status = "requested" /\ refunds' = [refunds EXCEPT ![i].status = "succeeded"]
    \/ /\ world.fails \/ refunds[i].status = "failed"
       /\ \E new \in {"requested", "failed"} : refunds' = [refunds EXCEPT ![i].status = new]

\* The whole of a step.
Move ==
  /\ TypeOK' /\ world' = world
  /\ RowsMove /\ PgMoves /\ ReadsMove
  /\ NoRefund \/ NewRefund \/ RefundMoves

\* A paid order keeps its payment.
PaymentsStay ==
  \A o \in Order : pay[o].at # 0 => pay'[o].at = pay[o].at /\ pay'[o].amount = pay[o].amount

LEMMA RowTypes ==
  ASSUME TypeOK
  PROVE  /\ \A o \in Order : /\ pay[o] \in PayRow /\ pay[o].amount \in Nat /\ pay[o].at \in Nat
                              /\ pg[o] \in PgRow
         /\ \A c \in Caller : read[c] \in Told
<1>1. \A o \in Order : pay[o] \in PayRow /\ pg[o] \in PgRow
  BY TypesAre
<1> QED
  BY <1>1, TypesAre, WorldIs DEF PayRow

LEMMA RowsKeep ==
  ASSUME MInv, Move
  PROVE  PaidWasTaken' /\ ToldStands' /\ OrdersInRow' /\ PaymentsStay
<1>f. /\ TypeOK /\ PaidWasTaken /\ ToldStands /\ OrdersInRow
      /\ TypeOK' /\ world' = world /\ RowsMove /\ PgMoves /\ ReadsMove
  BY DEF MInv, Move
<1>1. ASSUME NEW o \in Order
      PROVE  /\ pay'[o].status = "paid" => pay'[o].at # 0
             /\ pay'[o].status \in {"none", "ready", "failed"} => pay'[o].at = 0
             /\ pay'[o].at # 0 => pg'[o].at = pay'[o].at /\ pg'[o].amount = pay'[o].amount
             /\ pg'[o].at # 0 <=> pg'[o].status \in Took
             /\ pay[o].at # 0 => pay'[o].at = pay[o].at /\ pay'[o].amount = pay[o].amount
             /\ pay[o].status # "none" => pay'[o].status # "none"
  <2>1. /\ pay[o].status = "paid" => pay[o].at # 0
        /\ pay[o].status \in {"none", "ready", "failed"} => pay[o].at = 0
        /\ pay[o].at # 0 => pg[o].at = pay[o].at /\ pg[o].amount = pay[o].amount
        /\ pg[o].at # 0 <=> pg[o].status \in Took
    BY <1>f DEF PaidWasTaken
  <2>2. /\ pg'[o].at # 0 <=> pg'[o].status \in Took
        /\ pg[o].at # 0 => pg'[o].at = pg[o].at /\ pg'[o].amount = pg[o].amount
    BY <1>f, <2>1 DEF PgMoves, Took
  <2>3. RowStays(o) \/ RowOpens(o) \/ RowUnpaid(o) \/ RowPaid(o) \/ RowReturned(o)
    BY <1>f DEF RowsMove
  <2> QED
    BY <2>1, <2>2, <2>3 DEF RowStays, RowOpens, RowUnpaid, RowPaid, RowReturned
<1>2. PaidWasTaken' /\ PaymentsStay
  BY <1>1 DEF PaidWasTaken, PaymentsStay
<1>3. ToldStands'
  <2> SUFFICES ASSUME NEW c \in Caller, read'[c].order # 0
               PROVE  /\ pay'[read'[c].order].status # "none"
                      /\ read'[c].status \in Took =>
                           /\ read'[c].at # 0 /\ pg'[read'[c].order].at = read'[c].at
                           /\ pg'[read'[c].order].amount = read'[c].amount
    BY DEF ToldStands
  <2>1. \/ read'[c] = read[c]
        \/ \E o \in Order : pay[o].status # "none" /\ read'[c] = Snapshot(o) /\ pg' = pg
    BY <1>f DEF ReadsMove
  <2>2. CASE read'[c] = read[c]
    <3>1. read[c].order \in Order
      BY <1>f, <2>2, RowTypes, WorldIs DEF Told, Order
    <3>2. pay'[read[c].order].status # "none"
      BY <1>1, <1>f, <2>2, <3>1 DEF ToldStands
    <3>3. read[c].status \in Took => pg'[read[c].order].at = pg[read[c].order].at
                                     /\ pg'[read[c].order].amount = pg[read[c].order].amount
      BY <1>f, <2>2, <3>1 DEF ToldStands, PgMoves, PaidWasTaken, Took
    <3> QED
      BY <1>f, <2>2, <3>2, <3>3 DEF ToldStands
  <2>3. ASSUME NEW o \in Order, pay[o].status # "none", read'[c] = Snapshot(o), pg' = pg
        PROVE  /\ pay'[read'[c].order].status # "none"
               /\ read'[c].status \in Took =>
                    /\ read'[c].at # 0 /\ pg'[read'[c].order].at = read'[c].at
                    /\ pg'[read'[c].order].amount = read'[c].amount
    <3>1. /\ read'[c].order = o /\ read'[c].status = pg[o].status
          /\ read'[c].amount = pg[o].amount /\ read'[c].at = pg[o].at
      BY <2>3 DEF Snapshot
    <3>2. pay'[o].status # "none" /\ (pg[o].at # 0 <=> pg[o].status \in Took)
      BY <1>1, <1>f, <2>3 DEF PaidWasTaken
    <3> QED
      BY <2>3, <3>1, <3>2
  <2> QED
    BY <2>1, <2>2, <2>3
<1>4. OrdersInRow'
  <2>1. pay'[1].status # "none"
    BY <1>1, <1>f, WorldIs DEF OrdersInRow
  <2>2. ASSUME NEW o \in Order, pay'[o].status # "none"
        PROVE  o <= world.orders /\ \A q \in Order : q < o => pay'[q].status \notin {"none", "ready"}
    <3>0. \A q \in Order : RowStays(q) \/ RowOpens(q) \/ RowUnpaid(q) \/ RowPaid(q) \/ RowReturned(q)
      BY <1>f DEF RowsMove
    <3>1. o <= world.orders /\ \A q \in Order : q < o => pay[q].status \notin {"none", "ready"}
      <4>1. CASE pay[o].status = "none"
        <5>1. RowOpens(o)
          BY <1>f, <2>2, <3>0, <4>1 DEF RowStays, RowUnpaid, RowPaid, RowReturned, PaidWasTaken
        <5> QED
          BY <5>1 DEF RowOpens
      <4>2. CASE pay[o].status # "none"
        BY <1>f, <4>2 DEF OrdersInRow
      <4> QED
        BY <4>1, <4>2
    <3>2. ASSUME NEW q \in Order, q < o PROVE pay'[q].status \notin {"none", "ready"}
      <4>1. pay[q].status \notin {"none", "ready"}
        BY <3>1, <3>2
      <4>2. RowStays(q) \/ RowUnpaid(q) \/ RowPaid(q) \/ RowReturned(q)
        BY <3>0, <4>1 DEF RowOpens
      <4>3. RowUnpaid(q) => pay[q].status = "ready"
        BY DEF RowUnpaid
      <4> QED
        BY <4>1, <4>2, <4>3 DEF RowStays, RowPaid, RowReturned
    <3> QED
      BY <3>1, <3>2
  <2> QED
    BY <1>f, <2>1, <2>2 DEF OrdersInRow
<1> QED
  BY <1>2, <1>3, <1>4

\* Refunds stay within the payments whatever creates them.
LEMMA RefundsStayWithin ==
  ASSUME MInv, Move
  PROVE  MInv'
<1>f. /\ TypeOK /\ TypeOK' /\ PaidWasTaken /\ RefundsOfPaid /\ NoneFails /\ RefundsWithinPayment
      /\ world' = world /\ pay' \in [Order -> PayRow] /\ PaymentsStay
      /\ PaidWasTaken' /\ ToldStands' /\ OrdersInRow' /\ (NoRefund \/ NewRefund \/ RefundMoves)
  <2>1. TypeOK' => pay' \in [Order -> PayRow]
    BY DEF TypeOK, PayRow
  <2> QED
    BY <2>1, RowsKeep DEF MInv, Move
<1>0. /\ refunds \in Seq(Refund) /\ refunds' \in Seq(Refund) /\ pay \in [Order -> PayRow]
      /\ \A o \in Order : pay[o].amount \in Nat /\ pay'[o].amount \in Nat
      /\ \A i \in DOMAIN refunds : refunds[i].order \in Order
  <2>1. refunds \in Seq(Refund) /\ refunds' \in Seq(Refund) /\ pay \in [Order -> PayRow]
    BY <1>f, TypesAre, RefundsAreFew DEF TypeOK, Refund, Bases
  <2>2. \A o \in Order : pay[o] \in PayRow /\ pay'[o] \in PayRow
    BY <1>f, <2>1
  <2>3. \A o \in Order : pay[o].amount \in Nat /\ pay'[o].amount \in Nat
    BY <1>f, <2>2, WorldIs DEF PayRow
  <2>4. \A i \in DOMAIN refunds : refunds[i].order \in Order
    BY <1>f, <2>1, RefundsAreFew DEF Refund
  <2> QED
    BY <1>f, <2>1, <2>3, <2>4
<1>1. \A o \in Order : /\ Refunded({o}, Owed) = Returned(refunds, {o}, Owed)
                       /\ Refunded({o}, Owed)' = Returned(refunds', {o}, Owed)
                       /\ Returned(refunds, {o}, Owed) \in Nat
  BY <1>f, <1>0, RefundedIs, RefundedIsNext, ReturnedType
<1>2. ASSUME ~world.fails, NEW o \in Order
      PROVE  Returned(refunds, {o}, Owed) <= pay'[o].amount
  <2>1. CASE pay[o].at # 0
    BY <1>f, <1>1, <1>2, <2>1 DEF RefundsWithinPayment, PaymentsStay
  <2>2. CASE pay[o].at = 0
    <3>1. \A i \in DOMAIN refunds : refunds[i].order \notin {o}
      BY <1>f, <2>2 DEF RefundsOfPaid
    <3>2. Returned(refunds, {o}, Owed) = 0
      BY <1>0, <3>1, ReturnedNone
    <3> QED
      BY <1>f, <1>0, <3>2
  <2> QED
    BY <1>f, <2>1, <2>2
<1>3. \A i \in DOMAIN refunds : pay'[refunds[i].order].at # 0
  BY <1>f, <1>0 DEF RefundsOfPaid, PaymentsStay
<1>4. CASE NoRefund
  <2>1. RefundsOfPaid' /\ NoneFails'
    BY <1>f, <1>3, <1>4 DEF RefundsOfPaid, NoneFails, NoRefund
  <2>2. RefundsWithinPayment'
    BY <1>f, <1>1, <1>2, <1>4 DEF RefundsWithinPayment, NoRefund
  <2> QED
    BY <1>f, <2>1, <2>2 DEF MInv
<1>5. ASSUME NEW o \in LatestPaid(pay'), NEW a \in Nat \ {0}, NEW basis \in Bases,
             a + Refunded({o}, Owed) <= pay'[o].amount,
             refunds' = With(refunds, o, basis, a)
      PROVE  MInv'
  <2> DEFINE r == [order |-> o, status |-> "requested", basis |-> basis, amount |-> a]
  <2>1. o \in Order /\ pay'[o].status = "paid" /\ pay'[o].at # 0
    BY <1>f, <1>5 DEF LatestPaid, PaidWasTaken
  <2>2. r \in Refund /\ r.order = o /\ r.status = "requested" /\ r.amount = a
    BY <1>f, <2>1 DEF Refund
  <2>3. refunds' = Append(refunds, r)
    BY <1>5 DEF With
  <2> HIDE DEF r
  <2>4. /\ DOMAIN refunds' = DOMAIN refunds \cup {Len(refunds) + 1}
        /\ refunds'[Len(refunds) + 1] = r
        /\ \A i \in DOMAIN refunds : refunds'[i] = refunds[i]
    BY <1>f, <1>0, <2>2, <2>3, RefundsAreFew
  <2>5. RefundsOfPaid' /\ NoneFails'
    <3>1. \A i \in DOMAIN refunds' : pay'[refunds'[i].order].at # 0
      BY <1>f, <1>3, <2>1, <2>2, <2>4
    <3>2. ~world.fails => \A i \in DOMAIN refunds' : refunds'[i].status # "failed"
      BY <1>f, <2>2, <2>4 DEF NoneFails
    <3> QED
      BY <1>f, <3>1, <3>2 DEF RefundsOfPaid, NoneFails
  <2>6. ASSUME ~world.fails, NEW q \in Order
        PROVE  Returned(refunds', {q}, Owed) <= pay'[q].amount
    <3>1. Returned(refunds', {q}, Owed) = Returned(refunds, {q}, Owed) + (IF q = o THEN a ELSE 0)
      BY <1>0, <2>2, <2>3, ReturnedMore DEF Owed
    <3>0. /\ Returned(refunds, {q}, Owed) \in Nat /\ Returned(refunds', {q}, Owed) \in Nat
          /\ pay'[q].amount \in Nat /\ a \in Nat
      BY <1>0, <1>1, ReturnedType
    <3>2. CASE q = o
      <4>1. a + Returned(refunds, {q}, Owed) <= pay'[q].amount
        BY <1>f, <1>1, <1>5, <2>1, <3>2
      <4> QED
        BY <3>0, <3>1, <3>2, <4>1
    <3>3. CASE q # o
      <4>1. Returned(refunds, {q}, Owed) <= pay'[q].amount
        BY <1>2, <2>6
      <4> QED
        BY <3>0, <3>1, <3>3, <4>1
    <3> QED
      BY <1>f, <3>2, <3>3
  <2>7. RefundsWithinPayment'
    BY <1>f, <1>1, <2>6 DEF RefundsWithinPayment
  <2> QED
    BY <1>f, <2>5, <2>7 DEF MInv
<1>6. CASE NewRefund
  BY <1>5, <1>6 DEF NewRefund
<1>7. CASE RefundMoves
  <2>1. PICK i \in DOMAIN refunds, new \in {"requested", "succeeded", "failed"} :
          /\ refunds' = [refunds EXCEPT ![i].status = new]
          /\ ~world.fails => refunds[i].status = "requested" /\ new = "succeeded"
    BY <1>f, <1>7 DEF RefundMoves, NoneFails
  <2>2. /\ DOMAIN refunds' = DOMAIN refunds
        /\ \A j \in DOMAIN refunds : refunds'[j].order = refunds[j].order
        /\ \A j \in DOMAIN refunds : j # i => refunds'[j] = refunds[j]
        /\ refunds'[i].status = new
    BY <1>f, <1>0, <2>1, RefundsAreFew DEF Refund
  <2>3. RefundsOfPaid' /\ NoneFails'
    BY <1>f, <1>3, <2>1, <2>2 DEF RefundsOfPaid, NoneFails
  <2>4. ASSUME ~world.fails, NEW q \in Order
        PROVE  Returned(refunds', {q}, Owed) <= pay'[q].amount
    <3>1. refunds[i].status \in Owed <=> new \in Owed
      BY <1>f, <2>1, <2>4 DEF Owed
    <3>2. Returned([refunds EXCEPT ![i].status = new], {q}, Owed) = Returned(refunds, {q}, Owed)
      BY <1>0, <3>1, ReturnedAlike
    <3> QED
      BY <1>f, <1>2, <2>1, <2>4, <3>2
  <2>5. RefundsWithinPayment'
    BY <1>f, <1>1, <2>4 DEF RefundsWithinPayment
  <2> QED
    BY <1>f, <2>3, <2>5 DEF MInv
<1> QED
  BY <1>f, <1>4, <1>6, <1>7

LEMMA CreateRefundMoves ==
  ASSUME TypeOK, NEW p \in [Order -> PayRow], NEW diff \in Nat, NEW rate \in Nat, NEW basis \in Bases
  PROVE  pay' = p /\ refunds' = CreateRefund(p, diff, rate, basis) => NoRefund \/ NewRefund
<1>1. \/ CreateRefund(p, diff, rate, basis) = refunds
      \/ \E o \in LatestPaid(p), a \in Nat \ {0} :
           /\ a + Refunded({o}, Owed) <= p[o].amount
           /\ CreateRefund(p, diff, rate, basis) = With(refunds, o, basis, a)
  BY CreateRefundIs DEF Refunded
<1> QED
  BY <1>1 DEF NoRefund, NewRefund

-----------------------------------------------------------------------------
(* Every step is a move.                                                   *)

LEMMA RefundsTyped ==
  ASSUME TypeOK, NoRefund \/ NewRefund \/ RefundMoves
  PROVE  refunds' \in Seq(Refund)
<1>0. refunds \in Seq(Refund) /\ \A i \in DOMAIN refunds : refunds[i] \in Refund
  BY TypesAre, RefundsAreFew
<1>1. CASE NoRefund
  BY <1>0, <1>1 DEF NoRefund
<1>2. CASE NewRefund
  <2>1. PICK o \in LatestPaid(pay'), a \in Nat \ {0}, basis \in Bases : refunds' = With(refunds, o, basis, a)
    BY <1>2 DEF NewRefund
  <2>2. o \in Order
    BY DEF LatestPaid
  <2>3. [order |-> o, status |-> "requested", basis |-> basis, amount |-> a] \in Refund
    BY <2>2 DEF Refund
  <2> QED
    BY <1>0, <2>1, <2>3 DEF With
<1>3. CASE RefundMoves
  <2>1. PICK i \in DOMAIN refunds, new \in {"requested", "succeeded", "failed"} :
          refunds' = [refunds EXCEPT ![i].status = new]
    BY <1>3 DEF RefundMoves
  <2>2. [refunds[i] EXCEPT !.status = new] \in Refund
    <3>1. refunds[i] \in Refund
      BY <1>0
    <3> QED
      BY <3>1 DEF Refund
  <2> QED
    BY <1>0, <2>1, <2>2
<1> QED
  BY <1>1, <1>2, <1>3

LEMMA MoveFrom ==
  ASSUME TypeOK, world' = world,
         status' \in {"pending_payment", "payment_expired", "submitted", "rejected", "withdrawn", "cancelled"},
         lapsed' \in BOOLEAN, total' \in Totals, pay' \in [Order -> PayRow],
         windows' \subseteq Order \X Totals, pg' \in [Order -> PgRow], read' \in [Caller -> Told],
         RowsMove, PgMoves, ReadsMove, NoRefund \/ NewRefund \/ RefundMoves
  PROVE  Move
<1>1. refunds' \in Seq(Refund)
  BY RefundsTyped
<1>2. TypeOK'
  BY <1>1 DEF TypeOK, PayRow, Refund, Bases, PgRow, PgState, Told
<1> QED
  BY <1>2 DEF Move

LEMMA Still ==
  /\ pay' = pay => RowsMove
  /\ pg' = pg => PgMoves
  /\ read' = read => ReadsMove
  /\ refunds' = refunds => NoRefund
  BY DEF RowsMove, RowStays, PgMoves, ReadsMove, NoRefund

LEMMA LapseMoves ==
  ASSUME MInv, Lapse
  PROVE  Move
  BY TypesAre, Still, MoveFrom DEF Lapse, MInv

\* A checkout takes the order that is ready, or opens the next.
LEMMA CheckoutOrder ==
  ASSUME MInv, PrepareCheckout
  PROVE  \E o \in Order :
           /\ windows' = windows \cup {<<o, total>>}
           /\ pay' \in [Order -> PayRow] /\ \A q \in Order : q # o => RowStays(q)
           /\ RowOpens(o) \/ (pay[o].status # "none" /\ pay' = pay)
<1>0. TypeOK /\ OrdersInRow
  BY DEF MInv
<1> DEFINE last == Max(Opened)
           o    == IF pay[last].status = "ready" THEN last ELSE last + 1
<1>1. /\ o <= world.orders
      /\ pay' = IF o = last THEN pay ELSE [pay EXCEPT ![o] = [status |-> "ready", amount |-> total, at |-> 0]]
      /\ windows' = windows \cup {<<o, total>>}
  BY DEF PrepareCheckout
<1>2. last \in Opened /\ \A q \in Opened : q <= last
  <2>1. Opened # {} /\ Opened \in SUBSET Order
    BY <1>0, WorldIs DEF OrdersInRow, Opened
  <2> QED
    BY <1>0, <2>1, OrdersAreFew, MaxIs
<1> HIDE DEF last
<1>3. last \in Order /\ pay[last].status # "none" /\ \A q \in Order : q > last => pay[q].status = "none"
  BY <1>2, <1>0, WorldIs DEF Opened
<1>4. o \in Order
  BY <1>0, <1>1, <1>3, WorldIs DEF Order
<1>5. CASE o = last
  BY <1>0, <1>1, <1>3, <1>4, <1>5, TypesAre DEF RowStays
<1>6. CASE o # last
  <2>1. pay[last].status # "ready" /\ o = last + 1 /\ o > last
    BY <1>3, <1>6, WorldIs, <1>0
  <2> HIDE DEF o
  <2>2. RowOpens(o)
    <3>1. pay[o].status = "none" /\ \A q \in Order : q > o => pay[q].status = "none"
      BY <1>0, <1>3, <1>4, <2>1, WorldIs
    <3>2. \A q \in Order : q < o => q < last \/ q = last
      BY <1>0, <1>3, <1>4, <2>1, WorldIs
    <3>3. \A q \in Order : q < o => pay[q].status \notin {"none", "ready"}
      BY <1>0, <1>3, <2>1, <3>2 DEF OrdersInRow
    <3>4. pay'[o] = [status |-> "ready", amount |-> total, at |-> 0]
      BY <1>0, <1>1, <1>4, <1>6, TypesAre
    <3> QED
      BY <1>1, <3>1, <3>3, <3>4 DEF RowOpens
  <2>3. \A q \in Order : q # o => RowStays(q)
    BY <1>0, <1>1, <1>6, TypesAre DEF RowStays
  <2>4. pay' \in [Order -> PayRow]
    <3>1. [status |-> "ready", amount |-> total, at |-> 0] \in PayRow
      BY <1>0, TypesAre DEF PayRow
    <3> QED
      BY <1>0, <1>1, <1>4, <1>6, <3>1, TypesAre
  <2> QED
    BY <1>1, <1>4, <2>2, <2>3, <2>4
<1> QED
  BY <1>5, <1>6

LEMMA PrepareCheckoutMoves ==
  ASSUME MInv, PrepareCheckout
  PROVE  Move
<1>0. TypeOK
  BY DEF MInv
<1>1. UNCHANGED <<world, status, lapsed, total, refunds, pg, read>>
  BY DEF PrepareCheckout
<1>2. PICK o \in Order :
        /\ windows' = windows \cup {<<o, total>>}
        /\ pay' \in [Order -> PayRow] /\ \A q \in Order : q # o => RowStays(q)
        /\ RowOpens(o) \/ (pay[o].status # "none" /\ pay' = pay)
  BY CheckoutOrder
<1>3. RowsMove
  BY <1>2 DEF RowsMove, RowStays
<1> QED
  BY <1>0, <1>1, <1>2, <1>3, TypesAre, Still, MoveFrom

\* Paying makes it paid, later than everything before.
LEMMA PaidAtPg ==
  ASSUME TypeOK, NEW o \in Order, NEW t \in Totals, PayInWindow(o, t)
  PROVE  \E x \in PgRow : /\ pg' = [pg EXCEPT ![o] = x]
                          /\ x.status = "PAID" /\ x.amount = t /\ x.at # 0
                          /\ \A q \in Order : pg[q].at < x.at
<1> DEFINE S == {pg[q].at : q \in Order}
<1>0. \A q \in Order : pg[q].at \in Nat
  BY TypesAre DEF PgRow
<1>1. IsFiniteSet(S) /\ S \subseteq Nat /\ S # {}
  <2>1. IsFiniteSet(Order)
    BY OrdersAreFew
  <2>2. IsFiniteSet(S)
    <3> DEFINE f == [q \in Order |-> pg[q].at]
    <3>1. f \in Surjection(Order, S)
      BY DEF Surjection
    <3> HIDE DEF f, S
    <3> QED
      BY <2>1, <3>1, FS_Surjection
  <2> QED
    BY <1>0, <2>2, WorldIs
<1>2. \A q \in Order : pg[q].at \in S
  OBVIOUS
<1>3. pg' = [pg EXCEPT ![o] = [status |-> "PAID", amount |-> t, cancelled |-> 0, at |-> 1 + Max(S)]]
  BY DEF PayInWindow
<1> HIDE DEF S
<1>4. Max(S) \in Nat /\ \A y \in S : y <= Max(S)
  BY <1>1, MaxIs
<1> DEFINE x == [status |-> "PAID", amount |-> t, cancelled |-> 0, at |-> 1 + Max(S)]
<1>5. x \in PgRow /\ x.status = "PAID" /\ x.amount = t /\ x.at = 1 + Max(S)
  BY <1>4 DEF PgRow, PgState
<1>6. \A q \in Order : pg[q].at < x.at
  BY <1>0, <1>2, <1>4, <1>5
<1>7. pg' = [pg EXCEPT ![o] = x]
  BY <1>3
<1>8. x.at # 0
  BY <1>4, <1>5
<1> HIDE DEF x
<1> QED
  BY <1>5, <1>6, <1>7, <1>8

\* A failed attempt makes it failed, and not paid.
LEMMA FailedAtPg ==
  ASSUME TypeOK, PaidWasTaken, NEW o \in Order, NEW t \in Totals, FailInWindow(o, t)
  PROVE  \E x \in PgRow : pg' = [pg EXCEPT ![o] = x] /\ x.status = "FAILED" /\ x.at = 0
<1> DEFINE x == [[pg[o] EXCEPT !.status = "FAILED"] EXCEPT !.amount = t]
<1>1. pg[o] \in PgRow /\ pg[o].status = "none" /\ pg[o].at = 0
  BY TypesAre DEF FailInWindow, PaidWasTaken, Took
<1>2. x \in PgRow /\ x.at = 0 /\ x.status = "FAILED"
  BY <1>1 DEF PgRow, PgState
<1> DEFINE one == [pg EXCEPT ![o].status = "FAILED"]
<1>3. pg' = [one EXCEPT ![o].amount = t]
  BY Zenon DEF FailInWindow
<1>4. pg' = [pg EXCEPT ![o] = x]
  BY <1>3, TypesAre
<1> HIDE DEF x
<1> QED
  BY <1>2, <1>4

LEMMA InWindowMoves ==
  ASSUME MInv, NEW o \in Order, NEW t \in Totals, PayInWindow(o, t) \/ FailInWindow(o, t)
  PROVE  Move
<1>0. TypeOK /\ PaidWasTaken
  BY DEF MInv
<1>1. UNCHANGED <<world, status, lapsed, total, pay, refunds, windows, read>> /\ PgTakes(o)
  BY DEF PayInWindow, FailInWindow
<1>2. \E x \in PgRow : pg' = [pg EXCEPT ![o] = x] /\ (x.at # 0 <=> x.status \in Took)
  BY <1>0, PaidAtPg, FailedAtPg DEF Took
<1>3. pg' \in [Order -> PgRow]
  BY <1>0, <1>2, TypesAre
<1>4. PgMoves
  BY <1>0, <1>1, <1>2, TypesAre DEF PgMoves, PgTakes
<1> QED
  BY <1>0, <1>1, <1>3, <1>4, TypesAre, Still, MoveFrom

\* What a confirmation that was told PAID records is right.
LEMMA RecordedIsTaken ==
  ASSUME MInv, NEW c \in Caller, Unconfirmed(read[c]), pay' = Recorded(read[c])
  PROVE  /\ read[c].order \in Order /\ RowPaid(read[c].order)
         /\ \A q \in Order : q # read[c].order => RowStays(q)
         /\ RowsMove /\ pay' \in [Order -> PayRow]
<1>0. TypeOK /\ ToldStands /\ PaidWasTaken
  BY DEF MInv
<1> DEFINE r == read[c]
           x == [status |-> "paid", amount |-> r.amount, at |-> r.at]
<1>1. r \in Told /\ r.order \in Order /\ r.status = "PAID" /\ pay[r.order].status # "paid"
  BY <1>0, RowTypes, WorldIs DEF Unconfirmed, Told, Order
<1>2. /\ pay[r.order].status # "none"
      /\ r.at # 0 /\ pg[r.order].at = r.at /\ pg[r.order].amount = r.amount
  BY <1>0, <1>1, WorldIs DEF ToldStands, Took
<1>3. pay' = [pay EXCEPT ![r.order] = x]
  BY DEF Recorded
<1>4. x \in PayRow
  BY <1>1 DEF Told, PayRow
<1>5. RowPaid(r.order)
  BY <1>0, <1>1, <1>2, <1>3, TypesAre DEF RowPaid
<1>6. \A q \in Order : q # r.order => RowStays(q)
  BY <1>0, <1>1, <1>3, TypesAre DEF RowStays
<1>7. RowsMove
  BY <1>5, <1>6 DEF RowsMove
<1>8. pay' \in [Order -> PayRow]
  BY <1>0, <1>1, <1>3, <1>4, TypesAre
<1> QED
  BY <1>1, <1>5, <1>6, <1>7, <1>8

\* A failure that was told closes the order.
LEMMA UnpaidIsClosed ==
  ASSUME MInv, NEW c \in Caller, ConfirmUnpaid(c)
  PROVE  /\ read[c].order \in Order
         /\ \/ pay' = pay
            \/ /\ pay[read[c].order].status = "ready" /\ read[c].status \in {"FAILED", "CANCELLED"}
               /\ pay' \in [Order -> PayRow]
               /\ pay'[read[c].order].status = "failed" /\ pay'[read[c].order].at = 0
               /\ \A q \in Order : q # read[c].order => pay'[q] = pay[q]
<1>0. TypeOK /\ PaidWasTaken
  BY DEF MInv
<1> DEFINE o == read[c].order
           x == [pay[o] EXCEPT !.status = "failed"]
<1>1. \/ pay' = pay
      \/ /\ pay[o].status = "ready" /\ read[c].status \in {"FAILED", "CANCELLED"}
         /\ pay' = [pay EXCEPT ![o].status = "failed"]
  BY DEF ConfirmUnpaid
<1>2. o \in Order
  BY <1>0, RowTypes, WorldIs DEF ConfirmUnpaid, Told, Order
<1>3. CASE pay' = [pay EXCEPT ![o].status = "failed"] /\ pay[o].status = "ready"
  <2>1. pay[o] \in PayRow /\ pay[o].at = 0
    BY <1>0, <1>2, <1>3, RowTypes DEF PaidWasTaken
  <2>2. x \in PayRow /\ x.status = "failed" /\ x.at = 0
    BY <2>1 DEF PayRow
  <2>3. pay' = [pay EXCEPT ![o] = x]
    BY <1>3
  <2> HIDE DEF x
  <2>4. pay' \in [Order -> PayRow] /\ pay'[o] = x /\ \A q \in Order : q # o => pay'[q] = pay[q]
    BY <1>0, <1>2, <2>2, <2>3, TypesAre
  <2> QED
    BY <1>1, <1>2, <1>3, <2>2, <2>4
<1> QED
  BY <1>1, <1>2, <1>3

LEMMA ReadMoves ==
  ASSUME MInv, NEW c \in Caller, NEW o \in Order, ReadPayment(c, o) \/ (c = Job /\ ReconcileRead(o))
  PROVE  Move
<1>0. TypeOK
  BY DEF MInv
<1>1. /\ pay[o].status # "none" /\ read' = [read EXCEPT ![c] = Snapshot(o)]
      /\ UNCHANGED <<world, status, lapsed, total, pay, refunds, windows, pg>>
  BY DEF ReadPayment, ReconcileRead, Opened, Reconciled
<1>2. Snapshot(o) \in Told
  BY <1>0, RowTypes, WorldIs DEF Snapshot, Told, PgRow, Order
<1>3. read' \in [Caller -> Told] /\ ReadsMove
  BY <1>0, <1>1, <1>2, TypesAre DEF ReadsMove
<1> QED
  BY <1>0, <1>1, <1>3, TypesAre, Still, MoveFrom

\* A confirmation that ends was told what it was told.
LEMMA DoneMoves ==
  ASSUME TypeOK, NEW c \in Caller, Done(c)
  PROVE  read' \in [Caller -> Told] /\ ReadsMove
<1>1. NoRead \in Told /\ NoRead.order = 0
  BY WorldIs DEF NoRead, Told, PgState
<1> QED
  BY <1>1, TypesAre DEF Done, ReadsMove

\* createRefund on the rows as they are now.
LEMMA RefundOnNext ==
  ASSUME TypeOK, pay' \in [Order -> PayRow], NEW rate \in Nat, NEW diff \in Nat, NEW basis \in Bases,
         refunds' = CreateRefund(pay', diff, rate, basis)
  PROVE  NoRefund \/ NewRefund
<1>1. PICK p \in [Order -> PayRow] : p = pay'
  OBVIOUS
<1>2. refunds' = CreateRefund(p, diff, rate, basis)
  BY <1>1 DEF CreateRefund
<1> QED
  BY <1>1, <1>2, CreateRefundMoves

LEMMA ConfirmMoves ==
  ASSUME MInv, NEW c \in Caller, ConfirmPayment(c)
  PROVE  Move
<1>0. TypeOK
  BY DEF MInv
<1>1. CASE ConfirmAlready(c)
  <2>1. Done(c) /\ UNCHANGED <<world, status, lapsed, total, pay, refunds, windows, pg>>
    BY <1>1 DEF ConfirmAlready
  <2> QED
    BY <1>0, <2>1, DoneMoves, TypesAre, Still, MoveFrom
<1>2. CASE ConfirmUnpaid(c)
  <2>1. Done(c) /\ UNCHANGED <<world, status, lapsed, total, refunds, windows, pg>>
    BY <1>2 DEF ConfirmUnpaid
  <2>2. pay' \in [Order -> PayRow] /\ RowsMove
    BY <1>0, <1>2, UnpaidIsClosed, TypesAre, Still DEF RowsMove, RowStays, RowUnpaid
  <2> QED
    BY <1>0, <2>1, <2>2, DoneMoves, TypesAre, Still, MoveFrom
<1>3. CASE ConfirmPaid(c)
  <2>1. /\ Done(c) /\ Unconfirmed(read[c]) /\ pay' = Recorded(read[c]) /\ status' = "submitted"
        /\ UNCHANGED <<world, lapsed, total, refunds, windows, pg>>
    BY <1>3 DEF ConfirmPaid
  <2> QED
    BY <1>0, <2>1, RecordedIsTaken, DoneMoves, TypesAre, Still, MoveFrom
<1>4. CASE ConfirmMismatch(c) \/ ConfirmLate(c)
  <2>1. /\ Done(c) /\ Unconfirmed(read[c]) /\ pay' = Recorded(read[c])
        /\ UNCHANGED <<world, status, lapsed, total, windows, pg>>
    BY <1>4 DEF ConfirmMismatch, ConfirmLate
  <2>2. RowsMove /\ pay' \in [Order -> PayRow]
    BY <2>1, RecordedIsTaken
  <2>3. \E basis \in Bases : refunds' = CreateRefund(Recorded(read[c]), 0, 100, basis)
    BY <1>4 DEF ConfirmMismatch, ConfirmLate, Bases
  <2>4. \E basis \in Bases : refunds' = CreateRefund(pay', 0, 100, basis)
    BY <2>1, <2>3
  <2>5. NoRefund \/ NewRefund
    BY <1>0, <2>2, <2>4, RefundOnNext
  <2> QED
    BY <1>0, <2>1, <2>2, <2>5, DoneMoves, TypesAre, Still, MoveFrom
<1> QED
  BY <1>1, <1>2, <1>3, <1>4 DEF ConfirmPayment

\* The ready orders end, or get another price.
LEMMA ReadyMoves ==
  ASSUME MInv, pay' = CancelReady \/ \E t \in Totals : pay' = RepriceReady(t)
  PROVE  RowsMove /\ pay' \in [Order -> PayRow]
<1>0. TypeOK /\ PaidWasTaken
  BY DEF MInv
<1>1. \A o \in Order : pay[o] \in PayRow /\ (pay[o].status = "ready" => pay[o].at = 0)
  BY <1>0, RowTypes DEF PaidWasTaken
<1>2. CASE pay' = CancelReady
  BY <1>1, <1>2 DEF CancelReady, RowsMove, RowStays, RowUnpaid, PayRow
<1>3. ASSUME NEW t \in Totals, pay' = RepriceReady(t) PROVE RowsMove /\ pay' \in [Order -> PayRow]
  BY <1>1, <1>3 DEF RepriceReady, RowsMove, RowStays, RowUnpaid, PayRow
<1> QED
  BY <1>2, <1>3

\* createRefund on rows that stay.
LEMMA RefundOnRows ==
  ASSUME TypeOK, pay' = pay, NEW rate \in Nat, NEW diff \in Nat, NEW basis \in Bases,
         refunds' = CreateRefund(pay, diff, rate, basis)
  PROVE  NoRefund \/ NewRefund
<1>1. refunds' = CreateRefund(pay', diff, rate, basis)
  OBVIOUS
<1> QED
  BY <1>1, RefundOnNext, TypesAre

LEMMA ReceivedType ==
  ASSUME TypeOK
  PROVE  Received \in Int
<1> DEFINE paid == {o \in Order : pay[o].status = "paid"}
<1>1. IsFiniteSet(Order) /\ PaidAmount \in [Order -> Nat]
  BY OrdersAreFew, RowTypes DEF PaidAmount
<1>2. SumOver(PaidAmount, paid) \in Nat
  BY <1>1, TotalType, SumOverIs
<1>3. Refunded(Order, Owed) \in Nat
  BY RefundedIs, ReturnedType, TypesAre
<1> QED
  BY <1>2, <1>3 DEF Received

LEMMA EndingMoves ==
  ASSUME MInv, Ending
  PROVE  Move
<1>0. TypeOK /\ Rates \subseteq Nat
  BY ConstantsAssumption DEF MInv
<1>1. CASE Expire
  BY <1>0, <1>1, ReadyMoves, TypesAre, Still, MoveFrom DEF Expire
<1>2. CASE Reject
  <2>1. /\ refunds' = CreateRefund(pay, 0, 100, "rejected") /\ status' = "rejected"
        /\ UNCHANGED <<world, lapsed, total, pay, windows, pg, read>>
    BY <1>2 DEF Reject
  <2>2. NoRefund \/ NewRefund
    BY <1>0, <2>1, RefundOnRows DEF Bases
  <2> QED
    BY <1>0, <2>1, <2>2, TypesAre, Still, MoveFrom
<1>3. ASSUME NEW rate \in Rates, Withdraw(rate) PROVE Move
  <2>1. /\ status' = "withdrawn" /\ UNCHANGED <<world, lapsed, total, windows, pg, read>>
        /\ \/ pay' = CancelReady /\ UNCHANGED refunds
           \/ UNCHANGED pay /\ refunds' = CreateRefund(pay, 0, rate, "withdrawn")
    BY <1>3 DEF Withdraw
  <2>2. CASE pay' = CancelReady /\ UNCHANGED refunds
    BY <1>0, <2>1, <2>2, ReadyMoves, TypesAre, Still, MoveFrom
  <2>3. CASE UNCHANGED pay /\ refunds' = CreateRefund(pay, 0, rate, "withdrawn")
    <3>1. NoRefund \/ NewRefund
      BY <1>0, <2>3, RefundOnRows DEF Bases
    <3> QED
      BY <1>0, <2>1, <2>3, <3>1, TypesAre, Still, MoveFrom
  <2> QED
    BY <2>1, <2>2, <2>3
<1>4. ASSUME NEW rate \in Rates, Cancel(rate) PROVE Move
  <2>1. /\ status' = "cancelled" /\ UNCHANGED <<world, lapsed, total, pay, windows, pg, read>>
        /\ refunds' = refunds \/ refunds' = CreateRefund(pay, 0, rate, "cancelled")
    BY <1>4 DEF Cancel
  <2>2. NoRefund \/ NewRefund
    BY <1>0, <2>1, RefundOnRows, Still DEF Bases
  <2> QED
    BY <1>0, <2>1, <2>2, TypesAre, Still, MoveFrom
<1>5. ASSUME NEW t \in world.prices, ChangeDiscount(t) PROVE Move
  <2>0. t \in Totals /\ t \in Nat
    BY <1>0, WorldIs
  <2>1. /\ total' = t /\ UNCHANGED <<world, status, lapsed, windows, pg, read>>
        /\ \/ pay' = RepriceReady(t) /\ UNCHANGED refunds
           \/ /\ UNCHANGED pay /\ t <= Received
              /\ \/ refunds' = refunds
                 \/ t < Received /\ refunds' = CreateRefund(pay, Received - t, 0, "discount")
    BY <1>5 DEF ChangeDiscount
  <2>2. CASE pay' = RepriceReady(t) /\ UNCHANGED refunds
    BY <1>0, <2>0, <2>1, <2>2, ReadyMoves, TypesAre, Still, MoveFrom
  <2>3. CASE UNCHANGED pay /\ refunds' = refunds
    BY <1>0, <2>0, <2>1, <2>3, TypesAre, Still, MoveFrom
  <2>4. CASE UNCHANGED pay /\ t < Received /\ refunds' = CreateRefund(pay, Received - t, 0, "discount")
    <3>1. Received - t \in Nat
      BY <1>0, <2>0, <2>4, ReceivedType
    <3>2. NoRefund \/ NewRefund
      BY <1>0, <2>4, <3>1, RefundOnRows DEF Bases
    <3> QED
      BY <1>0, <2>0, <2>1, <2>4, <3>2, TypesAre, Still, MoveFrom
  <2> QED
    BY <2>1, <2>2, <2>3, <2>4
<1> QED
  BY <1>1, <1>2, <1>3, <1>4, <1>5 DEF Ending

\* Money of order o is returned: at the PG, and in its row when that was all.
SucceedsRow(o) ==
  /\ pay[o].at # 0 /\ pg[o].status \in {"PAID", "PARTIAL_CANCELLED"}
  /\ \E x \in PgRow : /\ pg' = [pg EXCEPT ![o] = x] /\ x.status \in {"CANCELLED", "PARTIAL_CANCELLED"}
                      /\ x.at = pg[o].at /\ x.amount = pg[o].amount
  /\ \/ pay' = pay
     \/ \E y \in PayRow : /\ pay' = [pay EXCEPT ![o] = y] /\ y.status = "cancelled"
                          /\ y.amount = pay[o].amount /\ y.at = pay[o].at

\* A refund that succeeds returns money of a paid order.
LEMMA SucceedsAtPg ==
  ASSUME MInv, NEW i \in DOMAIN refunds, RefundSucceeds(i)
  PROVE  refunds[i].order \in Order /\ SucceedsRow(refunds[i].order)
<1>0. TypeOK /\ RefundsOfPaid
  BY DEF MInv
<1> DEFINE o == refunds[i].order
           c == pg[o].cancelled + refunds[i].amount
           s == IF c = pg[o].amount THEN "CANCELLED" ELSE "PARTIAL_CANCELLED"
           x == [[pg[o] EXCEPT !.cancelled = c] EXCEPT !.status = s]
           y == [pay[o] EXCEPT !.status = "cancelled"]
<1>1. /\ pg[o].status \in {"PAID", "PARTIAL_CANCELLED"}
      /\ pg' = [pg EXCEPT ![o].cancelled = c, ![o].status = s]
      /\ pay' = pay \/ pay' = [pay EXCEPT ![o].status = "cancelled"]
  BY DEF RefundSucceeds, Settled
<1>2. refunds[i] \in Refund /\ o \in Order /\ refunds[i].amount \in Nat /\ pay[o].at # 0
  BY <1>0, TypesAre, RefundsAreFew DEF Refund, RefundsOfPaid
<1>3. pg[o] \in PgRow /\ c \in Nat /\ s \in {"CANCELLED", "PARTIAL_CANCELLED"}
  BY <1>0, <1>2, RowTypes DEF PgRow
<1> DEFINE one == [pg EXCEPT ![o].cancelled = c]
<1>4. pg' = [one EXCEPT ![o].status = s]
  BY <1>1, Zenon
<1>5. y \in PayRow /\ y.status = "cancelled" /\ y.amount = pay[o].amount /\ y.at = pay[o].at
  BY <1>0, <1>2, RowTypes DEF PayRow
<1>6. pay' = pay \/ pay' = [pay EXCEPT ![o] = y]
  BY <1>1
<1> HIDE DEF c, s, o, y
<1>7. pg' = [pg EXCEPT ![o] = x]
  BY <1>0, <1>2, <1>4, TypesAre
<1>8. x \in PgRow /\ x.status = s /\ x.at = pg[o].at /\ x.amount = pg[o].amount
  BY <1>3 DEF PgRow, PgState
<1> HIDE DEF x
<1>9. /\ pay[o].at # 0 /\ pg[o].status \in {"PAID", "PARTIAL_CANCELLED"}
      /\ \E z \in PgRow : /\ pg' = [pg EXCEPT ![o] = z] /\ z.status \in {"CANCELLED", "PARTIAL_CANCELLED"}
                          /\ z.at = pg[o].at /\ z.amount = pg[o].amount
      /\ \/ pay' = pay
         \/ \E z \in PayRow : /\ pay' = [pay EXCEPT ![o] = z] /\ z.status = "cancelled"
                              /\ z.amount = pay[o].amount /\ z.at = pay[o].at
  BY <1>1, <1>2, <1>3, <1>5, <1>6, <1>7, <1>8
<1> QED
  BY <1>2, <1>9 DEF SucceedsRow, o

LEMMA RefundingMoves ==
  ASSUME MInv, Refunding
  PROVE  Move
<1>0. TypeOK
  BY DEF MInv
<1>1. PICK i \in DOMAIN refunds : RefundSucceeds(i) \/ RefundGivenUp(i) \/ RetryRefund(i)
  BY DEF Refunding
<1>2. CASE RefundGivenUp(i) \/ RetryRefund(i)
  <2>1. /\ \/ world.fails /\ refunds' = [refunds EXCEPT ![i].status = "failed"]
           \/ refunds[i].status = "failed" /\ refunds' = [refunds EXCEPT ![i].status = "requested"]
        /\ UNCHANGED <<world, status, lapsed, total, pay, windows, pg, read>>
    BY <1>2 DEF RefundGivenUp, RetryRefund
  <2>2. RefundMoves
    BY <2>1 DEF RefundMoves
  <2> QED
    BY <1>0, <2>1, <2>2, TypesAre, Still, MoveFrom
<1>3. CASE RefundSucceeds(i)
  <2>1. /\ refunds[i].status = "requested" /\ refunds' = [refunds EXCEPT ![i].status = "succeeded"]
        /\ UNCHANGED <<world, status, lapsed, total, windows, read>>
    BY <1>3 DEF RefundSucceeds, Settled
  <2>2. RefundMoves
    BY <2>1 DEF RefundMoves
  <2>3. PICK o \in Order : SucceedsRow(o)
    BY <1>3, SucceedsAtPg DEF SucceedsRow
  <2>4. pay' \in [Order -> PayRow] /\ RowsMove
    BY <1>0, <2>3, TypesAre DEF SucceedsRow, RowsMove, RowStays, RowReturned
  <2>5. pg' \in [Order -> PgRow] /\ PgMoves
    BY <1>0, <2>3, TypesAre DEF SucceedsRow, PgMoves, Took
  <2> QED
    BY <1>0, <2>1, <2>2, <2>4, <2>5, TypesAre, Still, MoveFrom
<1> QED
  BY <1>1, <1>2, <1>3

\* Every step is a move.
LEMMA StepsMove ==
  ASSUME MInv, Next
  PROVE  Move
<1>0. TypeOK
  BY DEF MInv
<1>1. CASE Checkout
  BY <1>0, <1>1, LapseMoves, PrepareCheckoutMoves, InWindowMoves, WorldIs DEF Checkout
<1>2. CASE Confirmation
  BY <1>2, ReadMoves, ConfirmMoves, ConstantsAssumption DEF Confirmation, WebhookOrReturn
<1>3. CASE Ending
  BY <1>3, EndingMoves
<1>4. CASE Refunding
  BY <1>4, RefundingMoves
<1> QED
  BY <1>1, <1>2, <1>3, <1>4 DEF Next

-----------------------------------------------------------------------------
\* What is known of orders, payments and refunds in every state.
THEOREM MoneyInvariance == Spec => []MInv
<1>1. ASSUME Init PROVE MInv
  <2> USE <1>1 DEF Init
  <2>0. world \in World /\ total \in world.prices /\ world \in Worlds /\ MaxOrders \in Nat \ {0}
    BY ConstantsAssumption
  <2>1. total \in Totals
    BY <2>0 DEF Totals
  <2>2. TypeOK
    <3>1. NoPay \in PayRow /\ [status |-> "ready", amount |-> total, at |-> 0] \in PayRow
      BY <2>1 DEF NoPay, PayRow
    <3>2. pay \in [Order -> PayRow]
      BY <3>1
    <3>3. pg \in [Order -> PgRow]
      BY DEF PgRow, PgState
    <3>4. read \in [Caller -> Told]
      BY <2>0 DEF NoRead, Told, PgState
    <3>5. refunds \in Seq(Refund) /\ windows \subseteq Order \X Totals
      OBVIOUS
    <3> QED
      BY <2>0, <2>1, <3>2, <3>3, <3>4, <3>5, TypesAre
  <2>3. PaidWasTaken /\ ToldStands
    BY DEF PaidWasTaken, ToldStands, NoPay, NoRead, Took
  <2>4. OrdersInRow
    BY <2>0 DEF OrdersInRow, NoPay, Order, World
  <2>5. RefundsOfPaid /\ NoneFails
    BY DEF RefundsOfPaid, NoneFails
  <2>6. RefundsWithinPayment
    <3>1. \A o \in Order : Refunded({o}, Owed) = 0
      <4>1. refunds \in Seq(Refund) /\ DOMAIN refunds = {}
        BY <2>2, TypesAre
      <4>2. \A O : \A i \in DOMAIN refunds : refunds[i].order \notin O
        BY <4>1
      <4> QED
        BY <4>1, <4>2, RefundedIs, ReturnedNone
    <3> QED
      BY <2>2, <3>1, RowTypes DEF RefundsWithinPayment
  <2> QED
    BY <2>2, <2>3, <2>4, <2>5, <2>6 DEF MInv
<1>2. ASSUME MInv, [Next]_vars PROVE MInv'
  <2>1. CASE Next
    BY <1>2, <2>1, StepsMove, RefundsStayWithin
  <2>2. CASE UNCHANGED vars
    <3>1. Move
      BY <1>2, <2>2, TypesAre, Still, MoveFrom DEF vars, MInv
    <3> QED
      BY <1>2, <3>1, RefundsStayWithin
  <2> QED
    BY <1>2, <2>1, <2>2
<1> QED
  BY <1>1, <1>2, PTL DEF Spec

\* Whoever creates them, in whatever order: the refunds of a payment never
\* exceed it.
THEOREM RefundsWithin == Spec => []RefundsWithinPayment
<1>1. MInv => RefundsWithinPayment
  BY DEF MInv
<1> QED
  BY <1>1, MoneyInvariance, PTL
-----------------------------------------------------------------------------
(* Where the PG takes no second attempt under an order number, more is known *)
(* of how the orders follow each other: OrderlyInv.                          *)

\* Checkout windows, and what the PG knows, are about orders that were opened.
WindowsOfOrders ==
  /\ \A o \in Order : \A t \in Totals : <<o, t>> \in windows => pay[o].status # "none"
  /\ \A o \in Order : pg[o].status # "none" => pay[o].status # "none"

\* A confirmation was told something, a failure is still one, and what it was
\* told to be returned was paid.
ToldIsKnown ==
  \A c \in Caller : read[c].order # 0 =>
    /\ read[c].status # "none" /\ pg[read[c].order].status # "none"
    /\ read[c].status = "FAILED" => pg[read[c].order].status = "FAILED"
    /\ read[c].status \in {"CANCELLED", "PARTIAL_CANCELLED"} => pay[read[c].order].at # 0

FailedHasFailed == \A o \in Order : pay[o].status = "failed" => pg[o].status = "FAILED"

ReturnedWasPaid ==
  \A o \in Order : pg[o].status \in {"CANCELLED", "PARTIAL_CANCELLED"} => pay[o].at # 0

\* An order cancelled unpaid was the last, and ended with its application.
CancelledWasLast ==
  \A o \in Order : pay[o].status = "cancelled" /\ pay[o].at = 0 =>
    status # "pending_payment" /\ \A q \in Order : q > o => pay[q].status = "none"

\* The PG had the order before when the next was opened, and took money for it,
\* if it did, before it took any for the next.
OrdersInTurn ==
  \A o \in Order : pay[o].status # "none" =>
    \A q \in Order : q < o =>
      /\ pg[q].status # "none"
      /\ pg[o].at # 0 => pg[q].at < pg[o].at

ReadyAtPrice ==
  status = "pending_payment" => \A o \in Order : pay[o].status = "ready" => pay[o].amount = total

\* What was returned in full is not what the PG calls paid.
CancelledIsNotPaid ==
  \A o \in Order : pay[o].status = "cancelled" /\ pay[o].at # 0 => pg[o].status # "PAID"

\* If no refund overtakes a confirmation, what was told paid is not returned.
NothingStale ==
  ~world.slow =>
    \A c \in Caller : read[c].order # 0 /\ read[c].status = "PAID" /\ pay[read[c].order].at # 0
                        => pay[read[c].order].status = "paid"

OrderlyInv ==
  /\ WindowsOfOrders /\ ToldIsKnown /\ FailedHasFailed /\ ReturnedWasPaid /\ CancelledWasLast
  /\ OrdersInTurn /\ ReadyAtPrice /\ CancelledIsNotPaid /\ NothingStale

-----------------------------------------------------------------------------
LEMMA ReadOrder ==
  ASSUME TypeOK, NEW c \in Caller, read[c].order # 0
  PROVE  read[c].order \in Order
  BY RowTypes, WorldIs DEF Told, Order

\* Where the rows and the PG stay as they are.
LEMMA OrderlyStays ==
  ASSUME MInv, OrderlyInv, world' = world,
         pay' = pay, pg' = pg,
         \A o \in Order : \A t \in Totals : <<o, t>> \in windows' => <<o, t>> \in windows \/ pay[o].status # "none",
         \A c \in Caller : read'[c] = read[c] \/ read'[c].order = 0,
         status' # "pending_payment" \/ (status' = status /\ total' = total)
  PROVE  OrderlyInv'
<1> USE DEF OrderlyInv
<1>1. WindowsOfOrders' /\ FailedHasFailed' /\ ReturnedWasPaid' /\ OrdersInTurn' /\ CancelledIsNotPaid'
  BY DEF WindowsOfOrders, FailedHasFailed, ReturnedWasPaid, OrdersInTurn, CancelledIsNotPaid
<1>2. ToldIsKnown'
  BY DEF ToldIsKnown
<1>3. CancelledWasLast' /\ ReadyAtPrice'
  BY DEF CancelledWasLast, ReadyAtPrice
<1>4. NothingStale'
  BY DEF NothingStale
<1> QED
  BY <1>1, <1>2, <1>3, <1>4

LEMMA OpenedOrderly ==
  ASSUME MInv, MInv', OrderlyInv, ~world.repay, NEW o \in Order, RowOpens(o), PrepareCheckout,
         windows' = windows \cup {<<o, total>>}, \A q \in Order : q # o => RowStays(q)
  PROVE  OrderlyInv'
<1>m. /\ TypeOK /\ PaidWasTaken /\ ToldStands /\ OrdersInRow
      /\ TypeOK' /\ PaidWasTaken' /\ OrdersInRow'
  BY DEF MInv
<1>t. /\ pay \in [Order -> PayRow] /\ pg \in [Order -> PgRow] /\ read \in [Caller -> Told]
      /\ \A b \in Caller : read[b].order # 0 => read[b].order \in Order
  BY <1>m, TypesAre, ReadOrder
<1>f. /\ status = "pending_payment" /\ pay[o].status = "none" /\ pay[o].at = 0 /\ pg[o].at = 0
      /\ pay'[o].status = "ready" /\ pay'[o].at = 0 /\ pay'[o].amount = total
      /\ \A q \in Order : q # o => pay'[q] = pay[q]
      /\ \A q \in Order : q < o => pay[q].status # "none" /\ pg[q].status # "none"
      /\ \A q \in Order : q > o => pay[q].status = "none"
      /\ Order \subseteq Nat
      /\ windows' = windows \cup {<<o, total>>}
      /\ UNCHANGED <<world, status, total, pg, read>>
  <2>1. status = "pending_payment" /\ UNCHANGED <<world, status, total, pg, read>>
    BY DEF PrepareCheckout
  <2>2. pay[o].status = "none" /\ pay'[o] = [status |-> "ready", amount |-> total, at |-> 0]
    BY DEF RowOpens
  <2>3. \A q \in Order : q # o => pay'[q] = pay[q]
    BY DEF RowStays
  <2>4. pay[o].at = 0 /\ pg[o].at = 0
    BY <1>m, <2>2 DEF OrderlyInv, WindowsOfOrders, PaidWasTaken, Took
  <2>5. ASSUME NEW q \in Order, q < o PROVE pay[q].status # "none" /\ pg[q].status # "none"
    <3>1. pay[q].status \in {"failed", "paid", "cancelled"}
      BY <1>t, <2>5 DEF RowOpens, PayRow
    <3>2. pay[q].status = "cancelled" => pay[q].at # 0
      BY <2>1, <3>1 DEF OrderlyInv, CancelledWasLast
    <3>3. pay[q].at # 0 => pg[q].status # "none"
      BY <1>m DEF PaidWasTaken, Took
    <3> QED
      BY <1>m, <3>1, <3>2, <3>3 DEF OrderlyInv, FailedHasFailed, PaidWasTaken
  <2>6. \A q \in Order : q > o => pay[q].status = "none"
    BY DEF RowOpens
  <2> QED
    BY <1>m, <1>t, <2>1, <2>2, <2>3, <2>4, <2>5, <2>6, WorldIs
<1> USE DEF OrderlyInv
<1>1. WindowsOfOrders'
  BY <1>m, <1>t, <1>f DEF WindowsOfOrders
<1>2. ToldIsKnown'
  BY <1>m, <1>t, <1>f DEF ToldIsKnown
<1>3. FailedHasFailed'
  BY <1>m, <1>t, <1>f DEF FailedHasFailed
<1>4. ReturnedWasPaid'
  BY <1>m, <1>t, <1>f DEF ReturnedWasPaid
<1>5. CancelledWasLast'
  BY <1>m, <1>t, <1>f DEF CancelledWasLast
<1>6. OrdersInTurn'
  BY <1>m, <1>t, <1>f DEF OrdersInTurn
<1>7. ReadyAtPrice'
  BY <1>m, <1>t, <1>f DEF ReadyAtPrice
<1>8. CancelledIsNotPaid'
  BY <1>m, <1>t, <1>f DEF CancelledIsNotPaid
<1>9. NothingStale'
  BY <1>m, <1>t, <1>f DEF NothingStale
<1> QED
  BY <1>1, <1>2, <1>3, <1>4, <1>5, <1>6, <1>7, <1>8, <1>9

LEMMA PaidOrderly ==
  ASSUME MInv, MInv', OrderlyInv, ~world.repay, NEW o \in Order, NEW t \in Totals, PayInWindow(o, t)
  PROVE  OrderlyInv'
<1>m. /\ TypeOK /\ PaidWasTaken /\ ToldStands /\ OrdersInRow
      /\ TypeOK' /\ PaidWasTaken' /\ OrdersInRow'
  BY DEF MInv
<1>t. /\ pay \in [Order -> PayRow] /\ pg \in [Order -> PgRow] /\ read \in [Caller -> Told]
      /\ \A b \in Caller : read[b].order # 0 => read[b].order \in Order
  BY <1>m, TypesAre, ReadOrder
<1>f. /\ pg[o].status = "none" /\ pay[o].status # "none" /\ pay[o].at = 0 /\ pay[o].status # "failed"
      /\ pg' \in [Order -> PgRow] /\ pg'[o].status = "PAID" /\ pg'[o].at # 0
      /\ \A q \in Order : q # o => pg'[q] = pg[q] /\ pg[q].at < pg'[o].at
      /\ UNCHANGED <<world, status, total, pay, windows, read>>
  <2>1. /\ <<o, t>> \in windows /\ pg[o].status = "none"
        /\ UNCHANGED <<world, status, total, pay, windows, read>>
    BY DEF PayInWindow, PgTakes
  <2>2. pay[o].status # "none" /\ pay[o].at = 0 /\ pay[o].status # "failed"
    BY <1>m, <2>1 DEF OrderlyInv, WindowsOfOrders, FailedHasFailed, PaidWasTaken, Took
  <2> QED
    BY <1>m, <1>t, <2>1, <2>2, PaidAtPg
<1> USE DEF OrderlyInv
<1>1. WindowsOfOrders'
  BY <1>m, <1>t, <1>f DEF WindowsOfOrders
<1>2. ToldIsKnown'
  BY <1>m, <1>t, <1>f DEF ToldIsKnown
<1>3. FailedHasFailed'
  BY <1>m, <1>t, <1>f DEF FailedHasFailed
<1>4. ReturnedWasPaid'
  BY <1>m, <1>t, <1>f DEF ReturnedWasPaid
<1>5. CancelledWasLast'
  BY <1>m, <1>t, <1>f DEF CancelledWasLast
<1>6. OrdersInTurn'
  BY <1>m, <1>t, <1>f DEF OrdersInTurn
<1>7. ReadyAtPrice'
  BY <1>m, <1>t, <1>f DEF ReadyAtPrice
<1>8. CancelledIsNotPaid'
  BY <1>m, <1>t, <1>f DEF CancelledIsNotPaid
<1>9. NothingStale'
  BY <1>m, <1>t, <1>f DEF NothingStale
<1> QED
  BY <1>1, <1>2, <1>3, <1>4, <1>5, <1>6, <1>7, <1>8, <1>9

LEMMA FailedOrderly ==
  ASSUME MInv, MInv', OrderlyInv, ~world.repay, NEW o \in Order, NEW t \in Totals, FailInWindow(o, t)
  PROVE  OrderlyInv'
<1>m. /\ TypeOK /\ PaidWasTaken /\ ToldStands /\ OrdersInRow
      /\ TypeOK' /\ PaidWasTaken' /\ OrdersInRow'
  BY DEF MInv
<1>t. /\ pay \in [Order -> PayRow] /\ pg \in [Order -> PgRow] /\ read \in [Caller -> Told]
      /\ \A b \in Caller : read[b].order # 0 => read[b].order \in Order
  BY <1>m, TypesAre, ReadOrder
<1>f. /\ pg[o].status = "none" /\ pay[o].status # "none" /\ pay[o].at = 0 /\ pay[o].status # "failed"
      /\ pg[o].at = 0
      /\ pg' \in [Order -> PgRow] /\ pg'[o].status = "FAILED" /\ pg'[o].at = 0
      /\ \A q \in Order : q # o => pg'[q] = pg[q]
      /\ UNCHANGED <<world, status, total, pay, windows, read>>
  <2>1. /\ <<o, t>> \in windows /\ pg[o].status = "none"
        /\ UNCHANGED <<world, status, total, pay, windows, read>>
    BY DEF FailInWindow
  <2>2. pay[o].status # "none" /\ pay[o].at = 0 /\ pay[o].status # "failed" /\ pg[o].at = 0
    BY <1>m, <2>1 DEF OrderlyInv, WindowsOfOrders, FailedHasFailed, PaidWasTaken, Took
  <2> QED
    BY <1>m, <1>t, <2>1, <2>2, FailedAtPg
<1> USE DEF OrderlyInv
<1>1. WindowsOfOrders'
  BY <1>m, <1>t, <1>f DEF WindowsOfOrders
<1>2. ToldIsKnown'
  BY <1>m, <1>t, <1>f DEF ToldIsKnown
<1>3. FailedHasFailed'
  BY <1>m, <1>t, <1>f DEF FailedHasFailed
<1>4. ReturnedWasPaid'
  BY <1>m, <1>t, <1>f DEF ReturnedWasPaid
<1>5. CancelledWasLast'
  BY <1>m, <1>t, <1>f DEF CancelledWasLast
<1>6. OrdersInTurn'
  BY <1>m, <1>t, <1>f DEF OrdersInTurn
<1>7. ReadyAtPrice'
  BY <1>m, <1>t, <1>f DEF ReadyAtPrice
<1>8. CancelledIsNotPaid'
  BY <1>m, <1>t, <1>f DEF CancelledIsNotPaid
<1>9. NothingStale'
  BY <1>m, <1>t, <1>f DEF NothingStale
<1> QED
  BY <1>1, <1>2, <1>3, <1>4, <1>5, <1>6, <1>7, <1>8, <1>9

LEMMA ReadOrderly ==
  ASSUME MInv, MInv', OrderlyInv, ~world.repay, NEW c \in Caller, NEW o \in Order, ReadPayment(c, o) \/ (c = Job /\ ReconcileRead(o))
  PROVE  OrderlyInv'
<1>m. /\ TypeOK /\ PaidWasTaken /\ ToldStands /\ OrdersInRow
      /\ TypeOK' /\ PaidWasTaken' /\ OrdersInRow'
  BY DEF MInv
<1>t. /\ pay \in [Order -> PayRow] /\ pg \in [Order -> PgRow] /\ read \in [Caller -> Told]
      /\ \A b \in Caller : read[b].order # 0 => read[b].order \in Order
  BY <1>m, TypesAre, ReadOrder
<1>f. /\ pay[o].status # "none" /\ pg[o].status # "none"
      /\ read'[c].order = o /\ read'[c].status = pg[o].status
      /\ pay[o].at # 0 /\ pg[o].status = "PAID" => pay[o].status = "paid"
      /\ pg[o].status \in {"CANCELLED", "PARTIAL_CANCELLED"} => pay[o].at # 0
      /\ \A b \in Caller : b # c => read'[b] = read[b]
      /\ UNCHANGED <<world, status, total, pay, windows, pg>>
  <2>1. /\ pay[o].status # "none" /\ pg[o].status # "none" /\ read' = [read EXCEPT ![c] = Snapshot(o)]
        /\ UNCHANGED <<world, status, total, pay, windows, pg>>
    BY DEF ReadPayment, ReconcileRead, Reconciled, Opened
  <2>2. read'[c].order = o /\ read'[c].status = pg[o].status /\ \A b \in Caller : b # c => read'[b] = read[b]
    BY <1>t, <2>1 DEF Snapshot
  <2>3. pay[o].at # 0 => pay[o].status \in {"paid", "cancelled"}
    <3>1. pay[o].status \in {"none", "ready", "paid", "failed", "cancelled"}
      BY <1>t DEF PayRow
    <3> QED
      BY <1>m, <3>1 DEF PaidWasTaken
  <2> QED
    BY <2>1, <2>2, <2>3 DEF OrderlyInv, CancelledIsNotPaid, ReturnedWasPaid
<1> USE DEF OrderlyInv
<1>1. WindowsOfOrders'
  BY <1>m, <1>t, <1>f DEF WindowsOfOrders
<1>2. ToldIsKnown'
  BY <1>m, <1>t, <1>f DEF ToldIsKnown
<1>3. FailedHasFailed'
  BY <1>m, <1>t, <1>f DEF FailedHasFailed
<1>4. ReturnedWasPaid'
  BY <1>m, <1>t, <1>f DEF ReturnedWasPaid
<1>5. CancelledWasLast'
  BY <1>m, <1>t, <1>f DEF CancelledWasLast
<1>6. OrdersInTurn'
  BY <1>m, <1>t, <1>f DEF OrdersInTurn
<1>7. ReadyAtPrice'
  BY <1>m, <1>t, <1>f DEF ReadyAtPrice
<1>8. CancelledIsNotPaid'
  BY <1>m, <1>t, <1>f DEF CancelledIsNotPaid
<1>9. NothingStale'
  BY <1>m, <1>t, <1>f DEF NothingStale
<1> QED
  BY <1>1, <1>2, <1>3, <1>4, <1>5, <1>6, <1>7, <1>8, <1>9

LEMMA UnpaidOrderly ==
  ASSUME MInv, MInv', OrderlyInv, ~world.repay, NEW c \in Caller, ConfirmUnpaid(c), pay' # pay
  PROVE  OrderlyInv'
<1>m. /\ TypeOK /\ PaidWasTaken /\ ToldStands /\ OrdersInRow
      /\ TypeOK' /\ PaidWasTaken' /\ OrdersInRow'
  BY DEF MInv
<1>t. /\ pay \in [Order -> PayRow] /\ pg \in [Order -> PgRow] /\ read \in [Caller -> Told]
      /\ \A b \in Caller : read[b].order # 0 => read[b].order \in Order
  BY <1>m, TypesAre, ReadOrder
<1> DEFINE o == read[c].order
<1>f. /\ o \in Order /\ pay[o].status = "ready" /\ pay[o].at = 0
      /\ pg[o].status = "FAILED"
      /\ pay'[o].status = "failed" /\ pay'[o].at = 0
      /\ \A q \in Order : q # o => pay'[q] = pay[q]
      /\ \A b \in Caller : read'[b] = read[b] \/ read'[b].order = 0
      /\ UNCHANGED <<world, status, total, windows, pg>>
  <2>1. /\ o \in Order /\ pay[o].status = "ready" /\ read[c].status \in {"FAILED", "CANCELLED"}
        /\ pay'[o].status = "failed" /\ pay'[o].at = 0
        /\ \A q \in Order : q # o => pay'[q] = pay[q]
    BY UnpaidIsClosed
  <2>2. Done(c) /\ UNCHANGED <<world, status, total, windows, pg>>
    BY DEF ConfirmUnpaid
  <2>3. \A b \in Caller : read'[b] = read[b] \/ read'[b].order = 0
    BY <1>t, <2>2 DEF Done, NoRead
  <2>4. pay[o].at = 0
    BY <1>m, <2>1 DEF PaidWasTaken
  <2>5. pg[o].status = "FAILED"
    BY <1>m, <2>1, <2>4, WorldIs DEF OrderlyInv, ToldIsKnown
  <2> QED
    BY <2>1, <2>2, <2>3, <2>4, <2>5
<1> HIDE DEF o
<1> USE DEF OrderlyInv
<1>1. WindowsOfOrders'
  BY <1>m, <1>t, <1>f DEF WindowsOfOrders
<1>2. ToldIsKnown'
  BY <1>m, <1>t, <1>f DEF ToldIsKnown
<1>3. FailedHasFailed'
  BY <1>m, <1>t, <1>f DEF FailedHasFailed
<1>4. ReturnedWasPaid'
  BY <1>m, <1>t, <1>f DEF ReturnedWasPaid
<1>5. CancelledWasLast'
  BY <1>m, <1>t, <1>f DEF CancelledWasLast
<1>6. OrdersInTurn'
  BY <1>m, <1>t, <1>f DEF OrdersInTurn
<1>7. ReadyAtPrice'
  BY <1>m, <1>t, <1>f DEF ReadyAtPrice
<1>8. CancelledIsNotPaid'
  BY <1>m, <1>t, <1>f DEF CancelledIsNotPaid
<1>9. NothingStale'
  BY <1>m, <1>t, <1>f DEF NothingStale
<1> QED
  BY <1>1, <1>2, <1>3, <1>4, <1>5, <1>6, <1>7, <1>8, <1>9

LEMMA RecordedOrderly ==
  ASSUME MInv, MInv', OrderlyInv, ~world.repay, NEW c \in Caller, ConfirmMismatch(c) \/ ConfirmPaid(c) \/ ConfirmLate(c)
  PROVE  OrderlyInv'
<1>m. /\ TypeOK /\ PaidWasTaken /\ ToldStands /\ OrdersInRow
      /\ TypeOK' /\ PaidWasTaken' /\ OrdersInRow'
  BY DEF MInv
<1>t. /\ pay \in [Order -> PayRow] /\ pg \in [Order -> PgRow] /\ read \in [Caller -> Told]
      /\ \A b \in Caller : read[b].order # 0 => read[b].order \in Order
  BY <1>m, TypesAre, ReadOrder
<1> DEFINE o == read[c].order
<1>f. /\ o \in Order /\ pay[o].status \notin {"paid", "none"}
      /\ pay'[o].status = "paid" /\ pay'[o].at # 0
      /\ \A q \in Order : q # o => pay'[q] = pay[q]
      /\ \A b \in Caller : read'[b] = read[b] \/ read'[b].order = 0
      /\ status' = status \/ status' = "submitted"
      /\ UNCHANGED <<world, total, windows, pg>>
  <2>1. /\ Unconfirmed(read[c]) /\ pay' = Recorded(read[c]) /\ Done(c)
        /\ status' = status \/ status' = "submitted"
        /\ UNCHANGED <<world, total, windows, pg>>
    BY DEF ConfirmMismatch, ConfirmPaid, ConfirmLate
  <2>2. o \in Order /\ RowPaid(o) /\ \A q \in Order : q # o => RowStays(q)
    BY <2>1, RecordedIsTaken
  <2>3. \A b \in Caller : read'[b] = read[b] \/ read'[b].order = 0
    BY <1>t, <2>1 DEF Done, NoRead
  <2> HIDE DEF o
  <2> QED
    BY <2>1, <2>2, <2>3 DEF RowPaid, RowStays
<1> HIDE DEF o
<1> USE DEF OrderlyInv
<1>1. WindowsOfOrders'
  BY <1>m, <1>t, <1>f DEF WindowsOfOrders
<1>2. ToldIsKnown'
  BY <1>m, <1>t, <1>f DEF ToldIsKnown
<1>3. FailedHasFailed'
  BY <1>m, <1>t, <1>f DEF FailedHasFailed
<1>4. ReturnedWasPaid'
  BY <1>m, <1>t, <1>f DEF ReturnedWasPaid
<1>5. CancelledWasLast'
  BY <1>m, <1>t, <1>f DEF CancelledWasLast
<1>6. OrdersInTurn'
  BY <1>m, <1>t, <1>f DEF OrdersInTurn
<1>7. ReadyAtPrice'
  BY <1>m, <1>t, <1>f DEF ReadyAtPrice
<1>8. CancelledIsNotPaid'
  BY <1>m, <1>t, <1>f DEF CancelledIsNotPaid
<1>9. NothingStale'
  BY <1>m, <1>t, <1>f DEF NothingStale
<1> QED
  BY <1>1, <1>2, <1>3, <1>4, <1>5, <1>6, <1>7, <1>8, <1>9

LEMMA EndedOrderly ==
  ASSUME MInv, MInv', OrderlyInv, ~world.repay, pay' = CancelReady, status' # "pending_payment", UNCHANGED <<world, total, windows, pg, read>>
  PROVE  OrderlyInv'
<1>m. /\ TypeOK /\ PaidWasTaken /\ ToldStands /\ OrdersInRow
      /\ TypeOK' /\ PaidWasTaken' /\ OrdersInRow'
  BY DEF MInv
<1>t. /\ pay \in [Order -> PayRow] /\ pg \in [Order -> PgRow] /\ read \in [Caller -> Told]
      /\ \A b \in Caller : read[b].order # 0 => read[b].order \in Order
  BY <1>m, TypesAre, ReadOrder
<1>f. /\ \A o \in Order : \/ pay'[o] = pay[o] /\ pay[o].status # "ready"
                         \/ /\ pay[o].status = "ready" /\ pay'[o].status = "cancelled"
                            /\ pay'[o].at = 0 /\ pay[o].at = 0
                            /\ \A q \in Order : q > o => pay[q].status = "none"
      /\ status' # "pending_payment" /\ Order \subseteq Nat
      /\ UNCHANGED <<world, total, windows, pg, read>>
  <2>1. \A o \in Order : pay[o] \in PayRow /\ (pay[o].status = "ready" => pay[o].at = 0)
    BY <1>m, <1>t DEF PaidWasTaken
  <2>2. \A o, q \in Order : pay[o].status = "ready" /\ q > o => pay[q].status = "none"
    BY <1>m, WorldIs DEF OrdersInRow
  <2> QED
    BY <1>m, <2>1, <2>2, WorldIs DEF CancelReady, PayRow
<1> USE DEF OrderlyInv
<1>1. WindowsOfOrders'
  BY <1>m, <1>t, <1>f DEF WindowsOfOrders
<1>2. ToldIsKnown'
  <2>1. \A o \in Order : pay[o].at # 0 => pay'[o].at # 0
    BY <1>f
  <2>2. ToldIsKnown /\ read' = read /\ pg' = pg
    BY <1>m, <1>f
  <2>3. \A c \in Caller : read[c].order # 0 => read[c].order \in Order
    BY <1>t
  <2> QED
    BY <2>1, <2>2, <2>3 DEF ToldIsKnown
<1>3. FailedHasFailed'
  BY <1>m, <1>t, <1>f DEF FailedHasFailed
<1>4. ReturnedWasPaid'
  BY <1>m, <1>t, <1>f DEF ReturnedWasPaid
<1>5. CancelledWasLast'
  BY <1>m, <1>t, <1>f DEF CancelledWasLast
<1>6. OrdersInTurn'
  BY <1>m, <1>t, <1>f DEF OrdersInTurn
<1>7. ReadyAtPrice'
  BY <1>m, <1>t, <1>f DEF ReadyAtPrice
<1>8. CancelledIsNotPaid'
  BY <1>m, <1>t, <1>f DEF CancelledIsNotPaid
<1>9. NothingStale'
  <2>1. \A o \in Order : pay'[o].at = pay[o].at /\ (pay[o].at # 0 => pay'[o].status = pay[o].status)
    BY <1>f
  <2>2. \A c \in Caller : read'[c] = read[c] /\ (read[c].order # 0 => read[c].order \in Order)
    BY <1>t, <1>f
  <2>3. NothingStale /\ world' = world
    BY <1>f
  <2> HIDE DEF OrderlyInv
  <2> QED
    BY <2>1, <2>2, <2>3 DEF NothingStale
<1> QED
  BY <1>1, <1>2, <1>3, <1>4, <1>5, <1>6, <1>7, <1>8, <1>9

LEMMA RepricedOrderly ==
  ASSUME MInv, MInv', OrderlyInv, ~world.repay, NEW t \in Totals, total' = t, UNCHANGED <<world, status, windows, pg, read>>,
         \A o \in Order : /\ pay'[o].status = pay[o].status /\ pay'[o].at = pay[o].at
                          /\ pay[o].status = "ready" => pay'[o].amount = t
  PROVE  OrderlyInv'
<1>m. /\ TypeOK /\ PaidWasTaken /\ ToldStands /\ OrdersInRow
      /\ TypeOK' /\ PaidWasTaken' /\ OrdersInRow'
  BY DEF MInv
<1>t. /\ pay \in [Order -> PayRow] /\ pg \in [Order -> PgRow] /\ read \in [Caller -> Told]
      /\ \A b \in Caller : read[b].order # 0 => read[b].order \in Order
  BY <1>m, TypesAre, ReadOrder
<1> USE DEF OrderlyInv
<1>1. WindowsOfOrders'
  BY <1>t DEF WindowsOfOrders
<1>2. ToldIsKnown'
  BY <1>t DEF ToldIsKnown
<1>3. FailedHasFailed'
  BY <1>t DEF FailedHasFailed
<1>4. ReturnedWasPaid'
  BY <1>t DEF ReturnedWasPaid
<1>5. CancelledWasLast'
  BY <1>t DEF CancelledWasLast
<1>6. OrdersInTurn'
  BY <1>t DEF OrdersInTurn
<1>7. ReadyAtPrice'
  BY <1>t DEF ReadyAtPrice
<1>8. CancelledIsNotPaid'
  BY <1>t DEF CancelledIsNotPaid
<1>9. NothingStale'
  BY <1>t DEF NothingStale
<1> QED
  BY <1>1, <1>2, <1>3, <1>4, <1>5, <1>6, <1>7, <1>8, <1>9

LEMMA RefundedOrderly ==
  ASSUME MInv, MInv', OrderlyInv, ~world.repay, NEW i \in DOMAIN refunds, RefundSucceeds(i)
  PROVE  OrderlyInv'
<1>m. /\ TypeOK /\ PaidWasTaken /\ ToldStands /\ OrdersInRow
      /\ TypeOK' /\ PaidWasTaken' /\ OrdersInRow'
  BY DEF MInv
<1>t. /\ pay \in [Order -> PayRow] /\ pg \in [Order -> PgRow] /\ read \in [Caller -> Told]
      /\ \A b \in Caller : read[b].order # 0 => read[b].order \in Order
  BY <1>m, TypesAre, ReadOrder
<1> DEFINE o == refunds[i].order
<1>f. /\ o \in Order /\ pay[o].at # 0 /\ pg[o].status \in {"PAID", "PARTIAL_CANCELLED"}
      /\ pg'[o].status \in {"CANCELLED", "PARTIAL_CANCELLED"} /\ pg'[o].at = pg[o].at
      /\ \A q \in Order : q # o => pg'[q] = pg[q] /\ pay'[q] = pay[q]
      /\ pay[o].status \in {"paid", "cancelled"}
      /\ pay'[o] = pay[o] \/ (pay'[o].status = "cancelled" /\ pay'[o].at = pay[o].at)
      /\ pay'[o].status \in {"paid", "cancelled"}
      /\ ~world.slow => \A c \in Caller : read[c].order # o
      /\ UNCHANGED <<world, status, total, windows, read>>
  <2>1. o \in Order /\ SucceedsRow(o)
    BY SucceedsAtPg
  <2>2. /\ ~world.slow => \A c \in Caller : read[c].order # o
        /\ UNCHANGED <<world, status, total, windows, read>>
    BY DEF RefundSucceeds, Overtakes
  <2> HIDE DEF o
  <2>3. pay[o].at # 0 /\ pay[o].status \in {"paid", "cancelled"}
    <3>1. pay[o].status \in {"none", "ready", "paid", "failed", "cancelled"}
      BY <1>t, <2>1 DEF PayRow
    <3> QED
      BY <1>m, <2>1, <3>1 DEF PaidWasTaken, SucceedsRow
  <2> QED
    BY <1>t, <2>1, <2>2, <2>3 DEF SucceedsRow
<1> HIDE DEF o
<1> USE DEF OrderlyInv
<1>1. WindowsOfOrders'
  BY <1>m, <1>t, <1>f DEF WindowsOfOrders
<1>2. ToldIsKnown'
  BY <1>m, <1>t, <1>f DEF ToldIsKnown
<1>3. FailedHasFailed'
  BY <1>m, <1>t, <1>f DEF FailedHasFailed
<1>4. ReturnedWasPaid'
  BY <1>m, <1>t, <1>f DEF ReturnedWasPaid
<1>5. CancelledWasLast'
  BY <1>m, <1>t, <1>f DEF CancelledWasLast
<1>6. OrdersInTurn'
  BY <1>m, <1>t, <1>f DEF OrdersInTurn
<1>7. ReadyAtPrice'
  BY <1>m, <1>t, <1>f DEF ReadyAtPrice
<1>8. CancelledIsNotPaid'
  BY <1>m, <1>t, <1>f DEF CancelledIsNotPaid
<1>9. NothingStale'
  BY <1>m, <1>t, <1>f DEF NothingStale
<1> QED
  BY <1>1, <1>2, <1>3, <1>4, <1>5, <1>6, <1>7, <1>8, <1>9

LEMMA OrderlyNext ==
  ASSUME MInv, MInv', OrderlyInv, ~world.repay, Next
  PROVE  OrderlyInv'
<1>0. TypeOK /\ world' = world
  BY StepsMove DEF Move, MInv
<1>1. \A c \in Caller : Done(c) => \A b \in Caller : read'[b] = read[b] \/ read'[b].order = 0
  BY <1>0, TypesAre DEF Done, NoRead
<1>2. CASE Lapse
  BY <1>2, <1>0, OrderlyStays DEF Lapse
<1>3. CASE PrepareCheckout
  <2>1. UNCHANGED <<world, status, total, pg, read>>
    BY <1>3 DEF PrepareCheckout
  <2>2. PICK o \in Order :
          /\ windows' = windows \cup {<<o, total>>}
          /\ \A q \in Order : q # o => RowStays(q)
          /\ RowOpens(o) \/ (pay[o].status # "none" /\ pay' = pay)
    BY <1>3, CheckoutOrder
  <2>3. CASE RowOpens(o)
    BY <1>3, <2>2, <2>3, OpenedOrderly
  <2>4. CASE pay[o].status # "none" /\ pay' = pay
    BY <1>0, <2>1, <2>2, <2>4, OrderlyStays
  <2> QED
    BY <2>2, <2>3, <2>4
<1>4. ASSUME NEW o \in Order, NEW t \in world.prices, PayInWindow(o, t) \/ FailInWindow(o, t) PROVE OrderlyInv'
  BY <1>0, <1>4, PaidOrderly, FailedOrderly, WorldIs
<1>5. ASSUME NEW c \in Caller, NEW o \in Order, ReadPayment(c, o) \/ (c = Job /\ ReconcileRead(o)) PROVE OrderlyInv'
  BY <1>5, ReadOrderly
<1>6. ASSUME NEW c \in Caller, ConfirmPayment(c) PROVE OrderlyInv'
  <2>1. CASE ConfirmAlready(c)
    <3>1. Done(c) /\ UNCHANGED <<world, status, total, pay, windows, pg>>
      BY <2>1 DEF ConfirmAlready
    <3> QED
      BY <1>0, <1>1, <3>1, OrderlyStays
  <2>2. CASE ConfirmUnpaid(c)
    <3>1. Done(c) /\ UNCHANGED <<world, status, total, windows, pg>>
      BY <2>2 DEF ConfirmUnpaid
    <3> QED
      BY <1>0, <1>1, <2>2, <3>1, OrderlyStays, UnpaidOrderly
  <2>3. CASE ConfirmMismatch(c) \/ ConfirmPaid(c) \/ ConfirmLate(c)
    BY <2>3, RecordedOrderly
  <2> QED
    BY <1>6, <2>1, <2>2, <2>3 DEF ConfirmPayment
<1>7. CASE Expire \/ Reject \/ \E rate \in Rates : Withdraw(rate) \/ Cancel(rate)
  <2>1. /\ status' # "pending_payment" /\ UNCHANGED <<world, total, windows, pg, read>>
        /\ pay' = pay \/ pay' = CancelReady
    BY <1>7 DEF Expire, Reject, Withdraw, Cancel
  <2> QED
    BY <1>0, <2>1, OrderlyStays, EndedOrderly
<1>8. ASSUME NEW t \in world.prices, ChangeDiscount(t) PROVE OrderlyInv'
  <2>1. /\ total' = t /\ UNCHANGED <<world, status, windows, pg, read>>
        /\ pay' = RepriceReady(t) \/ (status # "pending_payment" /\ pay' = pay)
    BY <1>8 DEF ChangeDiscount
  <2>2. CASE pay' = RepriceReady(t)
    <3>1. \A o \in Order : pay[o] \in PayRow
      BY <1>0, RowTypes
    <3>2. \A o \in Order : /\ pay'[o].status = pay[o].status /\ pay'[o].at = pay[o].at
                           /\ pay[o].status = "ready" => pay'[o].amount = t
      BY <2>2, <3>1 DEF RepriceReady, PayRow
    <3> QED
      BY <1>0, <2>1, <3>2, RepricedOrderly, WorldIs
  <2>3. CASE status # "pending_payment" /\ pay' = pay
    BY <1>0, <2>1, <2>3, OrderlyStays
  <2> QED
    BY <2>1, <2>2, <2>3
<1>9. ASSUME NEW i \in DOMAIN refunds, RefundSucceeds(i) \/ RefundGivenUp(i) \/ RetryRefund(i) PROVE OrderlyInv'
  <2>1. CASE RefundSucceeds(i)
    BY <2>1, RefundedOrderly
  <2>2. CASE RefundGivenUp(i) \/ RetryRefund(i)
    <3>1. UNCHANGED <<world, status, total, pay, windows, pg, read>>
      BY <2>2 DEF RefundGivenUp, RetryRefund
    <3> QED
      BY <1>0, <3>1, OrderlyStays
  <2> QED
    BY <1>9, <2>1, <2>2
<1>10. CASE Checkout
  BY <1>2, <1>3, <1>4, <1>10 DEF Checkout
<1>11. CASE Confirmation
  BY <1>5, <1>6, <1>11, ConstantsAssumption DEF Confirmation, WebhookOrReturn
<1>12. CASE Ending
  BY <1>7, <1>8, <1>12 DEF Ending
<1>13. CASE Refunding
  BY <1>9, <1>13 DEF Refunding
<1> QED
  BY <1>10, <1>11, <1>12, <1>13 DEF Next

\* Where the PG takes no second attempt under an order number, orders follow
\* each other as OrderlyInv says.
THEOREM OrdersAreOrderly == Spec => [](~world.repay => OrderlyInv)
<1>1. ASSUME Init, MInv PROVE OrderlyInv
  <2>0. TypeOK /\ \A c \in Caller : read[c] = NoRead
    BY <1>1 DEF MInv, Init
  <2>1. \A o \in Order : /\ pg[o].status = "none" /\ pg[o].at = 0 /\ pay[o].at = 0
                         /\ pay[o].status = IF o = 1 THEN "ready" ELSE "none"
                         /\ o = 1 => pay[o].amount = total
    BY <1>1 DEF Init, NoPay
  <2>2. windows = {} /\ NoRead.order = 0
    BY <1>1 DEF Init, NoRead
  <2>3. WindowsOfOrders /\ ToldIsKnown /\ NothingStale
    BY <2>0, <2>1, <2>2 DEF WindowsOfOrders, ToldIsKnown, NothingStale
  <2>4. FailedHasFailed /\ ReturnedWasPaid /\ CancelledWasLast /\ ReadyAtPrice /\ CancelledIsNotPaid
    BY <2>1 DEF FailedHasFailed, ReturnedWasPaid, CancelledWasLast, ReadyAtPrice, CancelledIsNotPaid
  <2>5. OrdersInTurn
    BY <2>0, <2>1, WorldIs DEF OrdersInTurn
  <2> QED
    BY <2>3, <2>4, <2>5 DEF OrderlyInv
<1>2. ASSUME MInv, MInv', ~world.repay => OrderlyInv, [Next]_vars PROVE (~world.repay => OrderlyInv)'
  <2>1. CASE Next
    BY <1>2, <2>1, OrderlyNext, StepsMove DEF Move
  <2>2. CASE UNCHANGED vars
    BY <1>2, <2>2, OrderlyStays DEF vars
  <2> QED
    BY <1>2, <2>1, <2>2
<1> QED
  BY <1>1, <1>2, MoneyInvariance, PTL DEF Spec

-----------------------------------------------------------------------------
\* Only a confirmation receives an application.
LEMMA OnlyConfirmed ==
  ASSUME Next, status # "submitted", status' = "submitted"
  PROVE  \E c \in Caller : ConfirmPaid(c)
<1>1. CASE Checkout
  BY <1>1 DEF Checkout, Lapse, PrepareCheckout, PayInWindow, FailInWindow
<1>2. CASE Confirmation
  BY <1>2 DEF Confirmation, WebhookOrReturn, ReadPayment, ReconcileRead, ConfirmPayment,
              ConfirmAlready, ConfirmUnpaid, ConfirmMismatch, ConfirmLate
<1>3. CASE Ending
  BY <1>3 DEF Ending, Expire, Reject, Withdraw, Cancel, ChangeDiscount
<1>4. CASE Refunding
  BY <1>4 DEF Refunding, RefundSucceeds, RefundGivenUp, RetryRefund
<1> QED
  BY <1>1, <1>2, <1>3, <1>4 DEF Next

\* What a confirmation is about to record, if nothing was returned meanwhile, is
\* the last order and not recorded yet.
LEMMA FreshIsLast ==
  ASSUME MInv, OrderlyInv, NEW c \in Caller, Unconfirmed(read[c]), pay[read[c].order].at = 0
  PROVE  LET o == read[c].order IN
         /\ o \in Order /\ pg[o].at # 0 /\ pg[o].at = read[c].at /\ pg[o].amount = read[c].amount
         /\ pay[o].status \in {"ready", "cancelled"}
         /\ \A q \in Order : q > o => pay[q].status = "none"
<1> DEFINE o == read[c].order
<1>0. TypeOK /\ ToldStands /\ PaidWasTaken /\ OrdersInRow /\ FailedHasFailed /\ CancelledWasLast
  BY DEF MInv, OrderlyInv
<1>1. o \in Order /\ read[c].order # 0 /\ read[c].status = "PAID" /\ pay[o].status # "paid"
  BY <1>0, ReadOrder DEF Unconfirmed
<1>2. /\ pay[o].status # "none" /\ pg[o].at # 0 /\ pg[o].at = read[c].at /\ pg[o].amount = read[c].amount
  BY <1>0, <1>1 DEF ToldStands, Took
<1> HIDE DEF o
<1>3. pay[o].status # "failed"
  BY <1>0, <1>1, <1>2 DEF FailedHasFailed, PaidWasTaken, Took
<1>4. pay[o].status \in {"ready", "cancelled"}
  BY <1>0, <1>1, <1>2, <1>3, RowTypes DEF PayRow
<1>5. ASSUME NEW q \in Order, q > o PROVE pay[q].status = "none"
  <2>1. pay[o].at = 0
    BY DEF o
  <2>2. Order \subseteq Nat
    BY <1>0, WorldIs
  <2> QED
    BY <1>0, <1>1, <1>4, <1>5, <2>1, <2>2 DEF CancelledWasLast, OrdersInRow
<1> QED
  BY <1>1, <1>2, <1>4, <1>5 DEF o

\* An application is received only for money that is there, for any numbers and
\* prices, where the PG takes no second attempt under an order number and no
\* refund overtakes a confirmation.
THEOREM Accepted == Spec => (~world.repay /\ ~world.slow => AcceptedWithMoney)
<1>1. ASSUME MInv, MInv', ~world.repay => OrderlyInv, ~world.repay, ~world.slow, Next,
             status # "submitted", status' = "submitted"
      PROVE  \E o \in Order : /\ pay'[o].status = "paid" /\ pg[o].status = "PAID"
                              /\ pay'[o].amount = total
                              /\ Refunded({o}, AnyState) = 0
  <2>0. OrderlyInv /\ TypeOK /\ PaidWasTaken
    BY <1>1 DEF MInv
  <2>1. PICK c \in Caller : ConfirmPaid(c)
    BY <1>1, OnlyConfirmed
  <2>2. /\ Unconfirmed(read[c]) /\ RightAmount(read[c]) /\ pay' = Recorded(read[c])
        /\ status = "pending_payment"
    BY <2>1 DEF ConfirmPaid
  <2> DEFINE o == read[c].order
  <2>3. o \in Order /\ read[c].order # 0 /\ read[c].status = "PAID" /\ pay[o].status # "paid"
    BY <2>0, <2>2, ReadOrder DEF Unconfirmed
  <2>4. pay[o].at = 0
    BY <1>1, <2>0, <2>3 DEF OrderlyInv, NothingStale
  <2>5. /\ pg[o].at # 0 /\ pg[o].amount = read[c].amount
        /\ pay[o].status \in {"ready", "cancelled"}
    BY <1>1, <2>0, <2>2, <2>4, FreshIsLast
  <2>6. pay[o].amount = read[c].amount
    BY <2>2 DEF RightAmount
  <2>7. RowPaid(o)
    BY <1>1, <2>2, RecordedIsTaken
  <2> HIDE DEF o
  <2>8. pay[o].status = "ready" /\ pay[o].amount = total
    BY <2>0, <2>2, <2>3, <2>4, <2>5 DEF OrderlyInv, CancelledWasLast, ReadyAtPrice
  <2>9. pay'[o].status = "paid" /\ pay'[o].amount = total
    BY <2>5, <2>6, <2>7, <2>8 DEF RowPaid
  <2>10. pg[o].status = "PAID"
    BY <2>0, <2>3, <2>4, <2>5 DEF PaidWasTaken, Took, OrderlyInv, ReturnedWasPaid
  <2>11. Refunded({o}, AnyState) = 0
    <3>1. refunds \in Seq(Refund) /\ \A i \in DOMAIN refunds : refunds[i].order \notin {o}
      BY <1>1, <2>0, <2>4, TypesAre DEF MInv, RefundsOfPaid
    <3> QED
      BY <3>1, RefundedIs, ReturnedNone
  <2> QED
    BY <2>3, <2>9, <2>10, <2>11
<1>2. ASSUME MInv, Next PROVE world' = world
  BY <1>2, StepsMove DEF Move
<1> DEFINE Calm == ~world.repay /\ ~world.slow
<1>3. ASSUME MInv, [Next]_vars, Calm PROVE Calm'
  BY <1>2, <1>3 DEF vars
<1>4. ASSUME MInv, MInv', ~world.repay => OrderlyInv, Calm, [Next]_vars
      PROVE  [status # "submitted" /\ status' = "submitted"
       => \E o \in Order : /\ pay'[o].status = "paid" /\ pg[o].status = "PAID"
                           /\ pay'[o].amount = total
                           /\ Refunded({o}, AnyState) = 0]_vars
  BY <1>1, <1>4
<1> QED
  BY <1>3, <1>4, MoneyInvariance, OrdersAreOrderly, PTL DEF Spec, AcceptedWithMoney

-----------------------------------------------------------------------------
(* What is returned of the orders, and that it is all of it where it has to  *)
(* be: AllReturned.                                                          *)

\* What is returned of several orders is the sum of what is returned of each.
LEMMA ReturnedUnion ==
  ASSUME NEW rs \in Seq(Refund), NEW A, NEW B, A \cap B = {}, NEW S
  PROVE  Returned(rs, A \cup B, S) = Returned(rs, A, S) + Returned(rs, B, S)
<1> DEFINE D == DOMAIN rs
           W == Amounts(rs)
           U == Which(rs, A, S)
           V == Which(rs, B, S)
<1>1. IsFiniteSet(D) /\ W \in [D -> Nat] /\ U \in SUBSET D /\ V \in SUBSET D
  BY RefundsAreFew
<1>2. Which(rs, A \cup B, S) = U \cup V /\ U \cap V = {}
  BY DEF Which
<1> HIDE DEF D, W, U, V
<1>3. Total(W, U \cup V) = Total(W, U) + Total(W, V)
  BY <1>1, <1>2, TotalUnion
<1> QED
  BY <1>2, <1>3 DEF Returned, W, U, V

LEMMA SumOfReturned ==
  ASSUME TypeOK, NEW rs \in Seq(Refund), NEW f \in [Order -> Nat], NEW S,
         NEW T \in SUBSET Order, \A o \in T : f[o] = Returned(rs, {o}, S)
  PROVE  Total(f, T) = Returned(rs, T, S)
<1> DEFINE Good == {X \in SUBSET T : Total(f, X) = Returned(rs, X, S)}
<1>0. IsFiniteSet(Order) /\ IsFiniteSet(T)
  BY OrdersAreFew
<1>1. ASSUME NEW X \in SUBSET T, \A Y \in SUBSET X : Y # X => Y \in Good PROVE X \in Good
  <2>1. CASE X = {}
    <3>1. Returned(rs, {}, S) = 0
      BY ReturnedNone
    <3> QED
      BY <2>1, <3>1, TotalEmpty
  <2>2. CASE X # {}
    <3>1. PICK x \in X : TRUE
      BY <2>2
    <3> DEFINE Y == X \ {x}
    <3>2. Y \in SUBSET X /\ Y # X /\ Y \cap {x} = {} /\ X = Y \cup {x} /\ X \in SUBSET Order /\ x \in T
      BY <3>1
    <3>3. Total(f, Y) = Returned(rs, Y, S)
      BY <1>1, <3>2
    <3>4. Total(f, X) = f[x] + Total(f, Y)
      BY <1>0, <3>1, <3>2, TotalRemove
    <3>5. f[x] = Returned(rs, {x}, S)
      BY <3>2
    <3> HIDE DEF Y
    <3>6. Returned(rs, Y \cup {x}, S) = Returned(rs, Y, S) + Returned(rs, {x}, S)
      BY <3>2, ReturnedUnion
    <3>7. Returned(rs, Y, S) \in Nat /\ Returned(rs, {x}, S) \in Nat
      BY ReturnedType
    <3>8. Returned(rs, X, S) = Returned(rs, Y, S) + Returned(rs, {x}, S)
      BY <3>2, <3>6
    <3> QED
      BY <3>3, <3>4, <3>5, <3>7, <3>8
  <2> QED
    BY <2>1, <2>2
<1> HIDE DEF Good
<1>2. \A X \in SUBSET T : X \in Good
  BY <1>0, <1>1, SubsetInduction
<1> QED
  BY <1>2 DEF Good

\* A refund that is settled counts as settled.
LEMMA ReturnedSettled ==
  ASSUME NEW rs \in Seq(Refund), NEW i \in DOMAIN rs, rs[i].status = "requested"
  PROVE  LET us == [rs EXCEPT ![i].status = "succeeded"] IN
         Returned(us, {rs[i].order}, {"succeeded"})
           = Returned(rs, {rs[i].order}, {"succeeded"}) + rs[i].amount
<1> DEFINE us == [rs EXCEPT ![i].status = "succeeded"]
           O == {rs[i].order}
           D == DOMAIN rs
           W == Which(rs, O, {"succeeded"})
<1>1. /\ DOMAIN us = D
      /\ \A j \in D : us[j].order = rs[j].order /\ us[j].amount = rs[j].amount
      /\ us[i].status = "succeeded" /\ \A j \in D : j # i => us[j] = rs[j]
  <2>1. \A j \in D : rs[j] \in Refund
    BY RefundsAreFew
  <2> QED
    BY <2>1 DEF Refund
<1>2. IsFiniteSet(D) /\ Amounts(rs) \in [D -> Nat] /\ W \in SUBSET D /\ i \in D /\ i \notin W
  BY RefundsAreFew DEF Which
<1> HIDE DEF us
<1>3. Which(us, O, {"succeeded"}) = W \cup {i}
  BY <1>1, <1>2 DEF Which
<1>4. Amounts(us) = Amounts(rs) /\ Amounts(rs)[i] = rs[i].amount
  BY <1>1 DEF Amounts
<1> HIDE DEF W, D
<1>5. Total(Amounts(rs), W \cup {i}) = Total(Amounts(rs), W) + Amounts(rs)[i]
  BY <1>2, TotalAdd
<1>6. Returned(us, O, {"succeeded"}) = Returned(rs, O, {"succeeded"}) + rs[i].amount
  BY <1>3, <1>4, <1>5 DEF Returned, W
<1> QED
  BY <1>6 DEF us

\* Order o was returned in full, if it was paid.
FullyReturned(o) == pay[o].at # 0 => Returned(refunds, {o}, Owed) = pay[o].amount

Kept == {"pending_payment", "payment_expired", "rejected"}

LastOpened(o) == \A q \in Order : q > o => pay[q].status = "none"

\* What was cancelled paid is returned in full; so is everything before an
\* application is received and after it ended without the applicant's doing;
\* while it is live, all but the last order are.
AllReturned ==
  /\ \A o \in Order : pay[o].status = "cancelled" => FullyReturned(o)
  /\ status \in Kept => \A o \in Order : FullyReturned(o)
  /\ status = "submitted" => \A o \in Order : FullyReturned(o) \/ LastOpened(o)

\* What is returned in full stays so, as nothing more can be returned of it.
LEMMA ReturnedStays ==
  ASSUME MInv, Move, ~world.fails, NEW o \in Order, pay[o].at # 0, FullyReturned(o)
  PROVE  /\ FullyReturned(o)' /\ pay'[o].at = pay[o].at /\ pay'[o].amount = pay[o].amount
         /\ Returned(refunds', {o}, Owed) = Returned(refunds, {o}, Owed)
<1>0. /\ TypeOK /\ NoneFails /\ PaymentsStay /\ refunds \in Seq(Refund) /\ pay'[o].amount = pay[o].amount
      /\ Returned(refunds, {o}, Owed) = pay[o].amount /\ pay[o].amount \in Nat /\ pay'[o].at = pay[o].at
      /\ NoRefund \/ NewRefund \/ RefundMoves
  BY RowsKeep, TypesAre, RowTypes DEF MInv, Move, FullyReturned, PaymentsStay
<1> SUFFICES Returned(refunds', {o}, Owed) = Returned(refunds, {o}, Owed)
  BY <1>0 DEF FullyReturned
<1>1. CASE NoRefund
  BY <1>1 DEF NoRefund
<1>2. CASE NewRefund
  <2>1. PICK x \in LatestPaid(pay'), a \in Nat \ {0}, basis \in Bases :
          /\ a + Refunded({x}, Owed) <= pay'[x].amount
          /\ refunds' = With(refunds, x, basis, a)
    BY <1>2 DEF NewRefund
  <2>2. x \in Order
    BY DEF LatestPaid
  <2>3. Refunded({x}, Owed) = Returned(refunds, {x}, Owed)
    BY RefundedIs
  <2>4. x # o
    <3> SUFFICES ASSUME x = o PROVE FALSE
      OBVIOUS
    <3>1. a + Returned(refunds, {o}, Owed) <= pay[o].amount
      BY <1>0, <2>1, <2>3
    <3> QED
      BY <1>0, <3>1
  <2> DEFINE r == [order |-> x, status |-> "requested", basis |-> basis, amount |-> a]
  <2>5. r \in Refund /\ r.order = x
    BY <2>2 DEF Refund
  <2>6. refunds' = Append(refunds, r)
    BY <2>1 DEF With
  <2> HIDE DEF r
  <2>7. Returned(refunds', {o}, Owed) = Returned(refunds, {o}, Owed) + 0
    BY <1>0, <2>4, <2>5, <2>6, ReturnedMore
  <2> QED
    BY <1>0, <2>7
<1>3. CASE RefundMoves
  <2>1. PICK i \in DOMAIN refunds : refunds[i].status = "requested" /\ refunds' = [refunds EXCEPT ![i].status = "succeeded"]
    BY <1>0, <1>3 DEF RefundMoves, NoneFails
  <2>2. Returned([refunds EXCEPT ![i].status = "succeeded"], {o}, Owed) = Returned(refunds, {o}, Owed)
    <3>1. refunds[i].status \in Owed <=> "succeeded" \in Owed
      BY <2>1 DEF Owed
    <3> QED
      BY <1>0, <3>1, ReturnedAlike
  <2> QED
    BY <2>1, <2>2
<1> QED
  BY <1>0, <1>1, <1>2, <1>3

\* A step that records no payment keeps AllReturned, if what it cancels is
\* returned and nothing is opened under a live application.
LEMMA AllReturnedStays ==
  ASSUME MInv, Move, ~world.fails, AllReturned,
         \A q \in Order : pay'[q].at = pay[q].at,
         \A q \in Order : pay'[q].status = "cancelled" =>
           pay[q].status = "cancelled" \/ pay[q].at = 0 \/ FullyReturned(q)',
         status' \in Kept => status \in Kept,
         status' = "submitted" => status \in {"submitted", "pending_payment"},
         status = "submitted" => \A q \in Order : pay[q].status = "none" => pay'[q].status = "none"
  PROVE  AllReturned'
<1>1. \A q \in Order : FullyReturned(q) => FullyReturned(q)'
  BY ReturnedStays DEF FullyReturned
<1>2. \A q \in Order : pay[q].at = 0 => FullyReturned(q)'
  BY DEF FullyReturned
<1>3. ASSUME NEW o \in Order, pay'[o].status = "cancelled" PROVE FullyReturned(o)'
  BY <1>1, <1>2, <1>3 DEF AllReturned
<1>4. ASSUME NEW o \in Order, status' \in Kept PROVE FullyReturned(o)'
  BY <1>1, <1>4 DEF AllReturned
<1>5. ASSUME NEW o \in Order, status' = "submitted" PROVE FullyReturned(o)' \/ LastOpened(o)'
  <2>1. CASE status = "pending_payment"
    BY <1>1, <2>1 DEF AllReturned, Kept
  <2>2. CASE status = "submitted"
    <3>1. FullyReturned(o) \/ LastOpened(o)
      BY <2>2 DEF AllReturned
    <3>2. LastOpened(o) => LastOpened(o)'
      BY <2>2 DEF LastOpened
    <3> QED
      BY <1>1, <3>1, <3>2
  <2> QED
    BY <1>5, <2>1, <2>2
<1> QED
  BY <1>3, <1>4, <1>5 DEF AllReturned

\* createRefund, where one order is the one paid last.
LEMMA CreateRefundOf ==
  ASSUME TypeOK, NEW p \in [Order -> PayRow], NEW diff \in Nat, NEW rate \in Nat, NEW basis \in Bases,
         NEW o \in Order, LatestPaid(p) = {o}, NEW left, left = p[o].amount - Refunded({o}, Owed),
         NEW amount, amount = Min({IF diff > 0 THEN diff ELSE (p[o].amount * rate) \div 100, left})
  PROVE  CreateRefund(p, diff, rate, basis) =
           IF amount <= 0 THEN refunds ELSE With(refunds, o, basis, amount)
<1>1. Max(LatestPaid(p)) = o
  <2>1. {o} # {} /\ IsFiniteSet({o}) /\ {o} \subseteq Nat
    BY OrdersAreFew
  <2> QED
    BY <2>1, MaxIs
<1> QED
  BY <1>1 DEF CreateRefund, With

\* The refund of all that is left of it returns an order in full.
LEMMA ReturnsAll ==
  ASSUME TypeOK, pay' \in [Order -> PayRow], NEW o \in Order, LatestPaid(pay') = {o},
         NEW basis \in Bases, Returned(refunds, {o}, Owed) <= pay'[o].amount
  PROVE  refunds' = CreateRefund(pay', 0, 100, basis) =>
           Returned(refunds', {o}, Owed) = pay'[o].amount
<1>1. PICK p \in [Order -> PayRow] : p = pay'
  OBVIOUS
<1>2. p[o].amount \in Nat /\ p[o].amount = pay'[o].amount
  <2>1. p[o] \in PayRow
    BY <1>1
  <2> QED
    BY <1>1, <2>1, WorldIs DEF PayRow
<1>3. refunds \in Seq(Refund) /\ Returned(refunds, {o}, Owed) \in Nat
  BY TypesAre, ReturnedType
<1> DEFINE R == Returned(refunds, {o}, Owed)
           left == p[o].amount - R
           wanted == (p[o].amount * 100) \div 100
           amount == Min({wanted, left})
<1>4. wanted = p[o].amount
  BY <1>2
<1>5. amount = left
  <2>1. left \in Int /\ wanted \in Int /\ left <= wanted
    BY <1>2, <1>3, <1>4
  <2> HIDE DEF left, wanted
  <2>2. amount \in {wanted, left} /\ amount <= wanted /\ amount <= left
    BY <2>1, MinIs
  <2> HIDE DEF amount
  <2> QED
    BY <2>1, <2>2
<1>6. left = p[o].amount - Refunded({o}, Owed)
  BY RefundedIs
<1>7. \A d, r \in Nat : d = 0 /\ r = 100 =>
        amount = Min({IF d > 0 THEN d ELSE (p[o].amount * r) \div 100, left})
  OBVIOUS
<1> HIDE DEF amount, left, wanted
<1>8. LatestPaid(p) = {o}
  BY <1>1
<1>9. CreateRefund(p, 0, 100, basis) = IF amount <= 0 THEN refunds ELSE With(refunds, o, basis, amount)
  <2>1. amount = Min({IF 0 > 0 THEN 0 ELSE (p[o].amount * 100) \div 100, left})
    BY <1>7
  <2> QED
    BY <1>6, <1>8, <2>1, CreateRefundOf DEF Refunded
<1>10. CASE amount <= 0
  <2>1. R = p[o].amount
    BY <1>1, <1>2, <1>3, <1>5, <1>10 DEF left
  <2>2. CreateRefund(p, 0, 100, basis) = refunds
    BY <1>9, <1>10
  <2> QED
    BY <1>1, <2>1, <2>2
<1>11. CASE ~(amount <= 0)
  <2> DEFINE r == [order |-> o, status |-> "requested", basis |-> basis, amount |-> amount]
  <2>1. amount \in Nat \ {0} /\ amount = p[o].amount - R
    BY <1>2, <1>3, <1>5, <1>11 DEF left
  <2>2. r \in Refund /\ r.order = o /\ r.status = "requested" /\ r.amount = amount
    BY <2>1 DEF Refund
  <2>3. CreateRefund(p, 0, 100, basis) = Append(refunds, r)
    BY <1>9, <1>11 DEF With
  <2> HIDE DEF r
  <2>4. Returned(Append(refunds, r), {o}, Owed) = R + amount
    BY <1>3, <2>2, ReturnedMore DEF Owed
  <2>5. R + amount = p[o].amount
    BY <1>2, <1>3, <2>1
  <2> QED
    BY <1>1, <1>2, <2>3, <2>4, <2>5
<1> QED
  BY <1>10, <1>11

\* A payment that a refund cancels is returned in full.
LEMMA SettledInFull ==
  ASSUME MInv, MInv', ~world.fails, NEW i \in DOMAIN refunds, RefundSucceeds(i), NEW q \in Order,
         pay'[q].status = "cancelled", pay[q].status # "cancelled"
  PROVE  FullyReturned(q)'
<1> DEFINE o == refunds[i].order
<1>0. /\ TypeOK /\ refunds \in Seq(Refund) /\ refunds' \in Seq(Refund)
      /\ \A x \in Order : Returned(refunds', {x}, Owed) <= pay'[x].amount
  <2>1. world' = world /\ TypeOK /\ TypeOK' /\ RefundsWithinPayment'
    BY DEF RefundSucceeds, MInv
  <2>2. TypeOK' => refunds' \in Seq(Refund)
    BY DEF TypeOK, Refund, Bases
  <2>3. \A x \in Order : Refunded({x}, Owed)' <= pay'[x].amount
    BY <2>1 DEF RefundsWithinPayment
  <2> QED
    BY <2>1, <2>2, <2>3, TypesAre, RefundedIsNext
<1>1. /\ refunds' = [refunds EXCEPT ![i].status = "succeeded"] /\ refunds[i].status = "requested"
      /\ pay' = IF Refunded({o}, {"succeeded"}) + refunds[i].amount >= pay[o].amount
                THEN [pay EXCEPT ![o].status = "cancelled"] ELSE pay
  BY DEF RefundSucceeds, Settled
<1>2. o \in Order /\ refunds[i].amount \in Nat /\ pay[o].amount \in Nat
  BY <1>0, RefundsAreFew, RowTypes DEF Refund
<1>3. Refunded({o}, {"succeeded"}) = Returned(refunds, {o}, {"succeeded"})
  BY RefundedIs
<1>4. Returned(refunds', {o}, {"succeeded"}) = Returned(refunds, {o}, {"succeeded"}) + refunds[i].amount
  BY <1>0, <1>1, ReturnedSettled
<1>5. Returned(refunds', {o}, {"succeeded"}) <= Returned(refunds', {o}, Owed)
  <2> DEFINE D == DOMAIN refunds'
             W == Amounts(refunds')
             U == Which(refunds', {o}, Owed)
             V == Which(refunds', {o}, {"succeeded"})
  <2>1. IsFiniteSet(D) /\ W \in [D -> Nat] /\ U \in SUBSET D
    BY <1>0, RefundsAreFew
  <2>2. V \in SUBSET U
    BY DEF Which, Owed
  <2> HIDE DEF D, W, U, V
  <2>3. Total(W, V) <= Total(W, U)
    BY <2>1, <2>2, TotalGrows
  <2> QED
    BY <2>3 DEF Returned, W, U, V
<1> HIDE DEF o
<1>6. CASE pay' = pay
  BY <1>6
<1>7. CASE /\ Returned(refunds, {o}, {"succeeded"}) + refunds[i].amount >= pay[o].amount
           /\ pay' = [pay EXCEPT ![o].status = "cancelled"]
  <2>0. pay \in [Order -> PayRow] /\ pay[o] \in PayRow
    BY <1>0, <1>2, TypesAre
  <2>1. q = o
    BY <1>2, <1>7, <2>0
  <2>2. pay'[o].amount = pay[o].amount
    BY <1>2, <1>7, <2>0 DEF PayRow
  <2>3. /\ Returned(refunds', {o}, Owed) \in Nat /\ Returned(refunds', {o}, {"succeeded"}) \in Nat
        /\ Returned(refunds, {o}, {"succeeded"}) \in Nat
    BY <1>0, ReturnedType
  <2>4. Returned(refunds', {o}, Owed) <= pay'[o].amount
    BY <1>0, <1>2
  <2>5. Returned(refunds', {o}, Owed) = pay'[o].amount
    BY <1>2, <1>4, <1>5, <1>7, <2>2, <2>3, <2>4
  <2> QED
    BY <2>1, <2>5 DEF FullyReturned
<1> QED
  BY <1>1, <1>3, <1>6, <1>7

\* The last order, if the PG took it, is the one paid last.
LEMMA LastIsLatest ==
  ASSUME MInv, OrderlyInv, NEW o \in Order, LastOpened(o), pg[o].at # 0, pay[o].status # "none",
         pay'[o].status = "paid", pay'[o].at = pg[o].at,
         \A q \in Order : q # o => pay'[q] = pay[q]
  PROVE  LatestPaid(pay') = {o}
<1>0. TypeOK /\ PaidWasTaken /\ OrdersInTurn /\ Order \subseteq Nat
      /\ \A q \in Order : pg[q].at \in Nat
  BY WorldIs, TypesAre DEF MInv, OrderlyInv, PgRow
<1>1. ASSUME NEW q \in Order, pay'[q].status = "paid", q # o PROVE pay'[q].at < pay'[o].at
  <2>1. pay[q].status = "paid" /\ pay'[q].at = pg[q].at
    BY <1>0, <1>1 DEF PaidWasTaken
  <2>2. q < o
    BY <1>0, <1>1, <2>1 DEF LastOpened
  <2> QED
    BY <1>0, <2>1, <2>2 DEF OrdersInTurn
<1>2. pay'[o].at \in Nat /\ \A q \in Order : pay'[q].status = "paid" => pay'[q].at \in Nat
  BY <1>0 DEF PaidWasTaken
<1>3. ASSUME NEW q \in LatestPaid(pay') PROVE q = o
  <2>1. q \in Order /\ pay'[q].status = "paid" /\ pay'[o].at <= pay'[q].at
    BY <1>3 DEF LatestPaid
  <2>2. pay'[q].at \in Nat /\ pay'[o].at \in Nat
    BY <1>2, <2>1
  <2> QED
    BY <1>1, <2>1, <2>2
<1>4. o \in LatestPaid(pay')
  BY <1>1, <1>2 DEF LatestPaid
<1> QED
  BY <1>3, <1>4

\* A rejection returns all of a live application's last order.
LEMMA RejectReturns ==
  ASSUME MInv, Move, OrderlyInv, AllReturned, ~world.fails, Reject
  PROVE  AllReturned'
<1>0. /\ TypeOK /\ PaidWasTaken /\ pay' = pay /\ status \in {"pending_payment", "submitted"}
      /\ status' = "rejected" /\ refunds' = CreateRefund(pay, 0, 100, "rejected")
      /\ pay \in [Order -> PayRow] /\ "rejected" \in Bases
  BY TypesAre DEF MInv, Reject, Bases
<1>1. ASSUME NEW o \in Order PROVE FullyReturned(o)'
  <2>1. CASE pay[o].at = 0
    BY <1>0, <2>1 DEF FullyReturned
  <2>2. CASE pay[o].at # 0 /\ FullyReturned(o)
    BY <2>2, ReturnedStays
  <2>3. CASE ~FullyReturned(o)
    <3>1. pay[o].at # 0 /\ LastOpened(o) /\ pay[o].status # "cancelled"
      BY <1>0, <2>3 DEF AllReturned, FullyReturned, Kept
    <3>2. pay[o].status \in {"none", "ready", "paid", "failed", "cancelled"}
      BY <1>0 DEF PayRow
    <3>3. pay[o].status = "paid" /\ pay[o].at = pg[o].at
      BY <1>0, <3>1, <3>2 DEF PaidWasTaken
    <3>4. LatestPaid(pay') = {o}
      BY <1>0, <3>1, <3>3, LastIsLatest
    <3>5. Returned(refunds, {o}, Owed) <= pay'[o].amount
      BY <1>0, RefundedIs DEF MInv, RefundsWithinPayment
    <3>6. refunds' = CreateRefund(pay', 0, 100, "rejected")
      BY <1>0
    <3>7. Returned(refunds', {o}, Owed) = pay'[o].amount
      BY <1>0, <3>4, <3>5, <3>6, ReturnsAll
    <3> QED
      BY <3>7 DEF FullyReturned
  <2> QED
    BY <2>1, <2>2, <2>3
<1> QED
  BY <1>0, <1>1 DEF AllReturned

\* A confirmation that records a payment returns it, unless it receives the
\* application.
LEMMA RecordedReturns ==
  ASSUME MInv, Move, OrderlyInv, AllReturned, ~world.fails, NEW c \in Caller,
         ConfirmMismatch(c) \/ ConfirmPaid(c) \/ ConfirmLate(c)
  PROVE  AllReturned'
<1>0. TypeOK /\ PaidWasTaken /\ RefundsOfPaid /\ Order \subseteq Nat /\ PaymentsStay
  BY WorldIs, RowsKeep DEF MInv
<1>1. /\ Unconfirmed(read[c]) /\ pay' = Recorded(read[c])
      /\ \/ status = "pending_payment" /\ status' = "submitted"
         \/ /\ status' = status
            /\ \E basis \in Bases : refunds' = CreateRefund(pay', 0, 100, basis)
  BY DEF ConfirmMismatch, ConfirmPaid, ConfirmLate, Bases
<1>2. PICK o \in Order : /\ o = read[c].order /\ RowPaid(o) /\ \A q \in Order : q # o => pay'[q] = pay[q]
                        /\ pay' \in [Order -> PayRow]
  BY <1>1, RecordedIsTaken DEF RowStays
<1>3. /\ pay[o].status \notin {"none", "paid"} /\ pg[o].at # 0 /\ pay'[o].status = "paid"
      /\ pay'[o].at = pg[o].at /\ pay'[o].amount = pg[o].amount
  BY <1>2 DEF RowPaid
<1>4. CASE pay[o].at # 0
  <2>1. \A q \in Order : pay'[q].at = pay[q].at
    BY <1>0, <1>2, <1>4 DEF PaymentsStay
  <2>2. \A q \in Order : pay'[q].status = "cancelled" => pay[q].status = "cancelled"
    BY <1>2, <1>3
  <2>3. \A q \in Order : pay[q].status = "none" => pay'[q].status = "none"
    BY <1>2, <1>3
  <2>4. status' \in Kept => status \in Kept
    BY <1>1 DEF Kept
  <2> QED
    BY <1>1, <2>1, <2>2, <2>3, <2>4, AllReturnedStays
<1>5. CASE pay[o].at = 0
  <2>1. LastOpened(o)
    BY <1>1, <1>2, <1>5, FreshIsLast DEF LastOpened
  <2>2. LatestPaid(pay') = {o}
    BY <1>2, <1>3, <2>1, LastIsLatest
  <2>3. ASSUME NEW basis \in Bases, refunds' = CreateRefund(pay', 0, 100, basis) PROVE FullyReturned(o)'
    <3>1. Returned(refunds, {o}, Owed) = 0
      <4>1. refunds \in Seq(Refund) /\ \A i \in DOMAIN refunds : refunds[i].order \notin {o}
        BY <1>0, <1>5, TypesAre DEF RefundsOfPaid
      <4> QED
        BY <4>1, ReturnedNone
    <3>2. pay'[o].amount \in Nat
      <4>1. pay'[o] \in PayRow
        BY <1>2
      <4> QED
        BY <1>0, <4>1, WorldIs DEF PayRow
    <3>3. Returned(refunds, {o}, Owed) <= pay'[o].amount
      BY <3>1, <3>2
    <3>4. Returned(refunds', {o}, Owed) = pay'[o].amount
      BY <1>0, <1>2, <2>2, <2>3, <3>3, ReturnsAll
    <3> QED
      BY <3>4 DEF FullyReturned
  <2>4. \A q \in Order : q # o /\ FullyReturned(q) => FullyReturned(q)'
    <3>1. \A q \in Order : q # o /\ pay[q].at = 0 => FullyReturned(q)'
      BY <1>2 DEF FullyReturned
    <3> QED
      BY <3>1, ReturnedStays
  <2>5. \A q \in Order : LastOpened(q) => q = o \/ FullyReturned(q)
    <3>1. \A q \in Order : LastOpened(q) => q = o \/ pay[q].status = "none"
      BY <1>0, <1>2, <1>3, <2>1 DEF LastOpened
    <3> QED
      BY <1>0, <3>1 DEF FullyReturned, PaidWasTaken
  <2>6. LastOpened(o)'
    BY <1>0, <1>2, <2>1 DEF LastOpened
  <2>7. ASSUME NEW q \in Order, pay'[q].status = "cancelled" PROVE FullyReturned(q)'
    BY <1>2, <1>3, <2>4, <2>7 DEF AllReturned
  <2>8. ASSUME NEW q \in Order, status' \in Kept PROVE FullyReturned(q)'
    <3>1. status' = status /\ FullyReturned(q) /\ FullyReturned(o)'
      BY <1>1, <2>3, <2>8 DEF AllReturned, Kept
    <3> QED
      BY <2>4, <3>1
  <2>9. ASSUME NEW q \in Order, status' = "submitted" PROVE FullyReturned(q)' \/ LastOpened(q)'
    <3>1. CASE q = o
      BY <2>6, <3>1
    <3>2. CASE q # o
      <4>1. FullyReturned(q)
        BY <1>1, <2>5, <2>9, <3>2 DEF AllReturned, Kept
      <4> QED
        BY <2>4, <3>2, <4>1
    <3> QED
      BY <3>1, <3>2
  <2> QED
    BY <2>7, <2>8, <2>9 DEF AllReturned
<1> QED
  BY <1>4, <1>5

\* What keeps the refunds and payments as they are.
LEMMA UntouchedStays ==
  ASSUME MInv, Move, ~world.fails, AllReturned, pay' = pay,
         status' \in Kept => status \in Kept, status' = "submitted" => status = "submitted"
  PROVE  AllReturned'
  BY AllReturnedStays

LEMMA AllReturnedNext ==
  ASSUME MInv, MInv', OrderlyInv, AllReturned, ~world.fails, Next
  PROVE  AllReturned'
<1>0. TypeOK /\ PaidWasTaken /\ Move /\ PaymentsStay
  BY StepsMove, RowsKeep DEF MInv
<1>1. \A q \in Order : pay[q] \in PayRow /\ (pay[q].status \in {"none", "ready", "failed"} => pay[q].at = 0)
  BY <1>0, RowTypes DEF PaidWasTaken
<1>2. CASE PrepareCheckout
  <2>1. PICK o \in Order : /\ \A q \in Order : q # o => RowStays(q)
                           /\ RowOpens(o) \/ pay' = pay
    BY <1>2, CheckoutOrder
  <2>2. pay'[o] = pay[o] \/ (pay[o].at = 0 /\ pay'[o].at = 0 /\ pay'[o].status = "ready")
    BY <1>1, <2>1 DEF RowOpens
  <2>3. status = "pending_payment" /\ status' = status
    BY <1>2 DEF PrepareCheckout
  <2> QED
    BY <1>0, <2>1, <2>2, <2>3, AllReturnedStays DEF RowStays
<1>3. CASE Lapse \/ \E o \in Order, t \in world.prices : PayInWindow(o, t) \/ FailInWindow(o, t)
  <2>1. UNCHANGED <<status, pay>>
    BY <1>3 DEF Lapse, PayInWindow, FailInWindow
  <2> QED
    BY <1>0, <2>1, UntouchedStays
<1>4. CASE WebhookOrReturn \/ \E o \in Order : ReconcileRead(o)
  <2>1. UNCHANGED <<status, pay>>
    BY <1>4 DEF WebhookOrReturn, ReadPayment, ReconcileRead
  <2> QED
    BY <1>0, <2>1, UntouchedStays
<1>5. ASSUME NEW c \in Caller, ConfirmPayment(c) PROVE AllReturned'
  <2>1. CASE ConfirmAlready(c)
    <3>1. UNCHANGED <<status, pay>>
      BY <2>1 DEF ConfirmAlready
    <3> QED
      BY <1>0, <3>1, UntouchedStays
  <2>2. CASE ConfirmUnpaid(c)
    <3>1. PICK o \in Order : o = read[c].order
      BY <2>2, UnpaidIsClosed
    <3>2. \/ pay' = pay
          \/ /\ pay[o].status = "ready" /\ pay'[o].status = "failed" /\ pay'[o].at = 0
             /\ \A q \in Order : q # o => pay'[q] = pay[q]
      BY <2>2, <3>1, UnpaidIsClosed
    <3>3. status' = status
      BY <2>2 DEF ConfirmUnpaid
    <3> QED
      BY <1>0, <1>1, <3>2, <3>3, AllReturnedStays
  <2>3. CASE ConfirmMismatch(c) \/ ConfirmPaid(c) \/ ConfirmLate(c)
    BY <1>0, <2>3, RecordedReturns
  <2> QED
    BY <1>5, <2>1, <2>2, <2>3 DEF ConfirmPayment
<1>6. CASE Reject
  BY <1>0, <1>6, RejectReturns
<1>7. CASE Expire \/ \E rate \in Rates : Withdraw(rate) \/ Cancel(rate)
  <2>1. /\ status' \in Kept => status \in Kept
        /\ status' # "submitted"
        /\ pay' = pay \/ (status = "pending_payment" /\ pay' = CancelReady)
    BY <1>7 DEF Expire, Withdraw, Cancel, Kept
  <2>2. CASE status = "pending_payment" /\ pay' = CancelReady
    <3>1. \A q \in Order : \/ pay'[q] = pay[q]
                           \/ pay[q].status = "ready" /\ pay'[q].at = pay[q].at
      BY <1>1, <2>2 DEF CancelReady, PayRow
    <3> QED
      BY <1>0, <1>1, <2>1, <2>2, <3>1, AllReturnedStays
  <2> QED
    BY <1>0, <2>1, <2>2, UntouchedStays
<1>8. ASSUME NEW t \in world.prices, ChangeDiscount(t) PROVE AllReturned'
  <2>1. status' = status /\ (pay' = pay \/ (status = "pending_payment" /\ pay' = RepriceReady(t)))
    BY <1>8 DEF ChangeDiscount
  <2>2. CASE status = "pending_payment" /\ pay' = RepriceReady(t)
    <3>1. \A q \in Order : pay'[q].status = pay[q].status /\ pay'[q].at = pay[q].at
      BY <1>1, <2>2 DEF RepriceReady, PayRow
    <3> QED
      BY <1>0, <2>1, <2>2, <3>1, AllReturnedStays
  <2> QED
    BY <1>0, <2>1, <2>2, UntouchedStays
<1>9. ASSUME NEW i \in DOMAIN refunds, RefundSucceeds(i) \/ RefundGivenUp(i) \/ RetryRefund(i) PROVE AllReturned'
  <2>1. CASE RefundSucceeds(i)
    <3>1. status' = status
      BY <2>1 DEF RefundSucceeds
    <3>2. PICK o \in Order : SucceedsRow(o)
      BY <2>1, SucceedsAtPg
    <3>3. \A q \in Order : pay'[q] = pay[q] \/ (pay'[q].status = "cancelled" /\ pay'[q].at = pay[q].at /\ pay[q].at # 0)
      BY <1>0, <3>2, TypesAre DEF SucceedsRow
    <3>4. \A q \in Order : pay'[q].status = "cancelled" => pay[q].status = "cancelled" \/ FullyReturned(q)'
      BY <2>1, SettledInFull
    <3> QED
      BY <1>0, <1>1, <3>1, <3>3, <3>4, AllReturnedStays
  <2>2. CASE RefundGivenUp(i) \/ RetryRefund(i)
    <3>1. UNCHANGED <<status, pay>>
      BY <2>2 DEF RefundGivenUp, RetryRefund
    <3> QED
      BY <1>0, <3>1, UntouchedStays
  <2> QED
    BY <1>9, <2>1, <2>2
<1>10. CASE Checkout
  BY <1>2, <1>3, <1>10 DEF Checkout
<1>11. CASE Confirmation
  BY <1>4, <1>5, <1>11 DEF Confirmation
<1>12. CASE Ending
  BY <1>6, <1>7, <1>8, <1>12 DEF Ending
<1>13. CASE Refunding
  BY <1>9, <1>13 DEF Refunding
<1> QED
  BY <1>10, <1>11, <1>12, <1>13 DEF Next

\* What must be returned is, in every state.
THEOREM ReturnsInvariance == Spec => [](~world.repay /\ ~world.fails => AllReturned)
<1>1. ASSUME Init PROVE AllReturned
  <2>1. \A o \in Order : pay[o].at = 0
    BY <1>1 DEF Init, NoPay
  <2> QED
    BY <2>1 DEF AllReturned, FullyReturned
<1>2. ASSUME MInv, MInv', ~world.repay => OrderlyInv, ~world.repay /\ ~world.fails => AllReturned, [Next]_vars
      PROVE  (~world.repay /\ ~world.fails => AllReturned)'
  <2>1. CASE Next
    BY <1>2, <2>1, AllReturnedNext, StepsMove DEF Move
  <2>2. CASE UNCHANGED vars
    BY <1>2, <2>2 DEF vars, AllReturned, FullyReturned, LastOpened
  <2> QED
    BY <1>2, <2>1, <2>2
<1> QED
  BY <1>1, <1>2, MoneyInvariance, OrdersAreOrderly, PTL DEF Spec

\* The refunds of the orders T of which all was paid back come to what they paid.
LEMMA PaidBack ==
  ASSUME TypeOK, NEW T \in SUBSET Order, \A o \in T : FullyReturned(o) /\ pay[o].at # 0
  PROVE  SumOver(PaidAmount, T) = Returned(refunds, T, Owed)
<1>1. PaidAmount \in [Order -> Nat] /\ refunds \in Seq(Refund)
  BY RowTypes, TypesAre DEF PaidAmount
<1>2. \A o \in T : PaidAmount[o] = Returned(refunds, {o}, Owed)
  BY DEF PaidAmount, FullyReturned
<1> QED
  BY <1>1, <1>2, SumOfReturned, SumOverIs

\* Where nothing fails every refund is owed, and of an order that was paid.
LEMMA OwedIsAll ==
  ASSUME MInv, ~world.fails
  PROVE  Refunded(Order, AnyState) = Returned(refunds, {o \in Order : pay[o].at # 0}, Owed)
<1> DEFINE T == {o \in Order : pay[o].at # 0}
<1>1. \A i \in DOMAIN refunds : /\ refunds[i].order \in T
                                /\ refunds[i].status \in Owed /\ refunds[i].status \in AnyState
  BY RefundsAreFew, TypesAre DEF MInv, RefundsOfPaid, NoneFails, Refund, Owed, AnyState
<1>2. Which(refunds, Order, AnyState) = Which(refunds, T, Owed)
  BY <1>1 DEF Which
<1> QED
  BY <1>2, RefundedIs DEF Returned

\* An application that expired or was rejected keeps nothing, for any numbers,
\* prices and rates, where nothing fails.
THEOREM OwesNothing == Spec => [](~world.fails => EndedOwesNothing)
<1>1. ASSUME MInv, ~world.repay /\ ~world.fails => AllReturned, ~world.fails PROVE EndedOwesNothing
  <2> SUFFICES ASSUME ~world.repay, status \in {"payment_expired", "rejected"}
               PROVE  Taken = Refunded(Order, AnyState)
    BY DEF EndedOwesNothing
  <2> DEFINE T == {o \in Order : pay[o].at # 0}
  <2>1. \A o \in T : FullyReturned(o)
    BY <1>1 DEF AllReturned, Kept
  <2>2. SumOver(PaidAmount, T) = Returned(refunds, T, Owed)
    BY <1>1, <2>1, PaidBack DEF MInv
  <2>3. Refunded(Order, AnyState) = Returned(refunds, T, Owed)
    BY <1>1, OwedIsAll
  <2> QED
    BY <2>2, <2>3 DEF Taken
<1> QED
  BY <1>1, MoneyInvariance, ReturnsInvariance, PTL

-----------------------------------------------------------------------------
(* The price of a live application.                                          *)

\* Worlds that change discounts under one order only, and leave faults out.
PlainWorld ==
  /\ ~world.repay /\ ~world.fails /\ ~world.slow
  /\ world.orders = 1 \/ ~world.discounts

\* A live application has paid its price, less refunds, on its last order.
PriceOfLast ==
  /\ total \in world.prices
  /\ status = "submitted" =>
       \E o \in Order : /\ pay[o].at # 0 /\ LastOpened(o)
                        /\ pay[o].amount - Returned(refunds, {o}, Owed) = total

\* A step of a live application that changes neither price nor refunds.
LEMMA PriceStays ==
  ASSUME MInv, Move, PriceOfLast, status = "submitted", total' = total,
         \A o \in Order : Returned(refunds', {o}, Owed) = Returned(refunds, {o}, Owed),
         \A o \in Order : pay[o].status = "none" => pay'[o].status = "none"
  PROVE  PriceOfLast'
<1>1. PaymentsStay /\ world' = world
  BY RowsKeep DEF Move
<1>2. PICK o \in Order : /\ pay[o].at # 0 /\ LastOpened(o)
                         /\ pay[o].amount - Returned(refunds, {o}, Owed) = total
  BY DEF PriceOfLast
<1>3. pay'[o].at # 0 /\ LastOpened(o)' /\ pay'[o].amount - Returned(refunds', {o}, Owed) = total'
  BY <1>1, <1>2 DEF PaymentsStay, LastOpened
<1> QED
  BY <1>1, <1>3 DEF PriceOfLast

\* Receiving it.
LEMMA PriceAtFirst ==
  ASSUME MInv, Move, OrderlyInv, ~world.slow, PriceOfLast, NEW c \in Caller, ConfirmPaid(c)
  PROVE  PriceOfLast'
<1>0. TypeOK /\ world' = world /\ RefundsOfPaid
  BY DEF MInv, Move
<1>1. /\ Unconfirmed(read[c]) /\ RightAmount(read[c]) /\ pay' = Recorded(read[c])
      /\ status = "pending_payment" /\ total' = total /\ refunds' = refunds
  BY DEF ConfirmPaid
<1>2. PICK o \in Order : /\ o = read[c].order /\ RowPaid(o) /\ \A q \in Order : q # o => pay'[q] = pay[q]
  BY <1>1, RecordedIsTaken DEF RowStays
<1>3. pay[o].at = 0 /\ read[c].order # 0
  BY <1>1, <1>2 DEF Unconfirmed, OrderlyInv, NothingStale
<1>4. /\ LastOpened(o) /\ pg[o].amount = read[c].amount /\ pay[o].status \in {"ready", "cancelled"}
      /\ pg[o].at # 0
  BY <1>1, <1>2, <1>3, FreshIsLast DEF LastOpened
<1>5. pay[o].amount = read[c].amount /\ pay[o].amount = total
  BY <1>1, <1>2, <1>3, <1>4 DEF RightAmount, OrderlyInv, CancelledWasLast, ReadyAtPrice
<1>6. pay'[o].at # 0 /\ pay'[o].amount = total
  BY <1>2, <1>4, <1>5 DEF RowPaid
<1>7. LastOpened(o)'
  BY <1>0, <1>2, <1>4, WorldIs DEF LastOpened
<1>8. Returned(refunds, {o}, Owed) = 0
  <2>1. refunds \in Seq(Refund) /\ \A i \in DOMAIN refunds : refunds[i].order \notin {o}
    BY <1>0, <1>3, TypesAre DEF RefundsOfPaid
  <2> QED
    BY <2>1, ReturnedNone
<1>9. pay'[o].amount - Returned(refunds', {o}, Owed) = total'
  <2>1. total \in Nat
    BY <1>0, WorldIs, TypesAre
  <2> QED
    BY <1>1, <1>6, <1>8, <2>1
<1> QED
  BY <1>0, <1>1, <1>6, <1>7, <1>9 DEF PriceOfLast

\* Once received, nothing else is recorded.
LEMMA NothingFresh ==
  ASSUME MInv, OrderlyInv, ~world.slow, PriceOfLast, status = "submitted",
         NEW c \in Caller, Unconfirmed(read[c])
  PROVE  FALSE
<1>0. TypeOK /\ Order \subseteq Nat /\ PaidWasTaken
  BY WorldIs DEF MInv
<1>1. PICK o \in Order : pay[o].at # 0 /\ LastOpened(o)
  BY DEF PriceOfLast
<1>2. PICK q \in Order : q = read[c].order
  BY <1>0, ReadOrder DEF Unconfirmed
<1>3. pay[q].at = 0
  BY <1>2 DEF Unconfirmed, OrderlyInv, NothingStale
<1>4. LastOpened(q) /\ pay[q].status # "none"
  BY <1>2, <1>3, FreshIsLast DEF LastOpened
<1>5. pay[o].status # "none" /\ o # q
  BY <1>0, <1>1, <1>3 DEF PaidWasTaken
<1> QED
  BY <1>0, <1>1, <1>4, <1>5 DEF LastOpened

\* The refund of a difference that the order still holds is that difference.
LEMMA ReturnsPart ==
  ASSUME TypeOK, NEW p \in [Order -> PayRow], NEW o \in Order, LatestPaid(p) = {o},
         NEW diff \in Nat \ {0}, NEW left \in Nat, diff <= left,
         left = p[o].amount - Refunded({o}, Owed), NEW basis \in Bases
  PROVE  CreateRefund(p, diff, 0, basis) = With(refunds, o, basis, diff)
<1>1. Max(LatestPaid(p)) = o
  <2>1. {o} # {} /\ IsFiniteSet({o}) /\ {o} \subseteq Nat
    BY OrdersAreFew
  <2> QED
    BY <2>1, MaxIs
<1> DEFINE amount == Min({diff, left})
<1>2. amount = diff
  <2>1. diff \in Int /\ left \in Int
    OBVIOUS
  <2>2. amount \in {diff, left} /\ amount <= diff /\ amount <= left
    BY <2>1, MinIs
  <2> HIDE DEF amount
  <2> QED
    BY <2>1, <2>2
<1>3. (IF diff > 0 THEN diff ELSE (p[o].amount * 0) \div 100) = diff
  OBVIOUS
<1>4. ~(diff <= 0) /\ LatestPaid(p) # {}
  OBVIOUS
<1> QED
  BY <1>1, <1>2, <1>3, <1>4 DEF CreateRefund, With

\* Another discount of a live application with one order: the difference is
\* returned, if there is one.
LEMMA PriceFalls ==
  ASSUME MInv, Move, AllReturned, PriceOfLast, ~world.fails, world.orders = 1,
         NEW t \in world.prices, ChangeDiscount(t), status = "submitted"
  PROVE  PriceOfLast'
<1>0. /\ TypeOK /\ PaidWasTaken /\ RefundsOfPaid /\ OrdersInRow /\ world' = world
      /\ Order \subseteq Nat \ {0} /\ 1 \in Order
      /\ refunds \in Seq(Refund) /\ pay \in [Order -> PayRow] /\ t \in Nat /\ total \in Nat
  BY WorldIs, TypesAre DEF MInv, Move
<1>1. /\ t <= Received /\ total' = t /\ pay' = pay /\ status' = status
      /\ t < Received => refunds' = CreateRefund(pay, Received - t, 0, "discount")
  BY DEF ChangeDiscount
<1>2. \A q \in Order : q # 1 => pay[q].status = "none" /\ pay[q].at = 0
  <2>1. \A q \in Order : pay[q].status # "none" => q <= 1
    BY <1>0 DEF OrdersInRow
  <2> QED
    BY <1>0, <2>1 DEF PaidWasTaken
<1>3. pay[1].at # 0 /\ LastOpened(1) /\ pay[1].amount - Returned(refunds, {1}, Owed) = total
  BY <1>2 DEF PriceOfLast
<1>4. pay[1].amount \in Nat /\ Returned(refunds, {1}, Owed) \in Nat
  BY <1>0, RowTypes, ReturnedType
<1> DEFINE paid == {o \in Order : pay[o].status = "paid"}
<1>5. Received = IF paid = {} THEN 0 ELSE SumOver(PaidAmount, paid) - Refunded(Order, Owed)
  <2>1. CASE paid = {}
    <3>1. SumOver(PaidAmount, paid) = 0
      BY <2>1, SumOverIs, TotalEmpty
    <3> QED
      BY <2>1, <3>1 DEF Received
  <2>2. CASE paid # {}
    BY <2>2 DEF Received
  <2> QED
    BY <2>1, <2>2
<1>8. ASSUME t = Received, t = total PROVE PriceOfLast'
  <2>1. refunds' = refunds
    BY <1>0, <1>8 DEF ChangeDiscount
  <2> QED
    BY <1>1, <1>8, <2>1, PriceStays
<1>6. CASE pay[1].status # "paid"
  <2>1. paid = {} /\ Received = 0
    BY <1>2, <1>5, <1>6
  <2>2. t = 0
    BY <1>0, <1>1, <1>5, <2>1
  <2>3. pay[1].status = "cancelled"
    <3>1. pay[1].status \in {"none", "ready", "paid", "failed", "cancelled"}
      BY <1>0 DEF PayRow
    <3> QED
      BY <1>0, <1>3, <1>6, <3>1 DEF PaidWasTaken
  <2>4. Returned(refunds, {1}, Owed) = pay[1].amount
    BY <1>0, <1>3, <2>3 DEF AllReturned, FullyReturned
  <2> QED
    BY <1>3, <1>4, <1>8, <2>1, <2>2, <2>4
<1>7. CASE pay[1].status = "paid"
  <2>1. paid = {1}
    BY <1>0, <1>2, <1>7
  <2>2. SumOver(PaidAmount, {1}) = pay[1].amount
    <3>1. IsFiniteSet(Order) /\ PaidAmount \in [Order -> Nat] /\ PaidAmount[1] = pay[1].amount
      BY <1>0, OrdersAreFew, RowTypes DEF PaidAmount
    <3>2. Total(PaidAmount, {1}) = PaidAmount[1] + Total(PaidAmount, {1} \ {1})
      <4>1. {1} \in SUBSET Order /\ 1 \in {1}
        BY <1>0
      <4> QED
        BY <3>1, <4>1, TotalRemove
    <3>3. Total(PaidAmount, {1} \ {1}) = 0
      <4>1. {1} \ {1} = {}
        OBVIOUS
      <4> QED
        BY <4>1, TotalEmpty
    <3> QED
      BY <1>4, <3>1, <3>2, <3>3, SumOverIs
  <2>3. Refunded(Order, Owed) = Returned(refunds, {1}, Owed)
    <3>1. \A i \in DOMAIN refunds : refunds[i].order \in Order /\ refunds[i].order = 1
      BY <1>0, <1>2, RefundsAreFew DEF RefundsOfPaid, Refund
    <3>2. Which(refunds, Order, Owed) = Which(refunds, {1}, Owed)
      BY <3>1 DEF Which
    <3> QED
      BY <3>2, RefundedIs DEF Returned
  <2>4. Received = total
    BY <1>3, <1>5, <2>1, <2>2, <2>3
  <2> SUFFICES ASSUME t # total PROVE PriceOfLast'
    BY <1>8, <2>4
  <2> DEFINE diff == total - t
  <2>5. diff \in Nat \ {0} /\ refunds' = CreateRefund(pay, diff, 0, "discount")
    BY <1>0, <1>1, <2>4
  <2>6. LatestPaid(pay) = {1}
    <3>1. pay[1].at \in Nat
      BY <1>0, RowTypes
    <3> QED
      <4>1. \A q \in Order : pay[q].status = "paid" => q = 1
        BY <1>2
      <4>2. pay[1].status = "paid" /\ 1 \in Order
        BY <1>0, <1>2, <1>7
      <4>3. \A q \in Order : pay[q].status = "paid" => pay[q].at <= pay[1].at
        BY <3>1, <4>1
      <4> QED
        BY <4>1, <4>2, <4>3 DEF LatestPaid
  <2> HIDE DEF diff
  <2>7. diff <= total
    BY <1>0, <2>5 DEF diff
  <2>8. CreateRefund(pay, diff, 0, "discount") = With(refunds, 1, "discount", diff)
    <3>1. total = pay[1].amount - Refunded({1}, Owed)
      BY <1>3, RefundedIs
    <3>2. "discount" \in Bases
      BY DEF Bases
    <3> QED
      BY <1>0, <2>5, <2>6, <2>7, <3>1, <3>2, ReturnsPart DEF Refunded
  <2> DEFINE r == [order |-> 1, status |-> "requested", basis |-> "discount", amount |-> diff]
  <2>9. r \in Refund /\ r.order = 1 /\ r.status = "requested" /\ r.amount = diff
    BY <1>0, <2>5 DEF Refund, Bases
  <2>10. refunds' = Append(refunds, r)
    BY <2>5, <2>8 DEF With
  <2> HIDE DEF r
  <2>11. Returned(refunds', {1}, Owed) = Returned(refunds, {1}, Owed) + diff
    BY <1>0, <2>9, <2>10, ReturnedMore DEF Owed
  <2>12. pay[1].amount - Returned(refunds', {1}, Owed) = t
    BY <1>0, <1>3, <1>4, <2>11 DEF diff
  <2>13. pay'[1].at # 0 /\ LastOpened(1)' /\ pay'[1].amount - Returned(refunds', {1}, Owed) = total'
    BY <1>1, <1>3, <2>12 DEF LastOpened
  <2> QED
    BY <1>0, <1>1, <2>13 DEF PriceOfLast
<1> QED
  BY <1>6, <1>7

LEMMA PriceNext ==
  ASSUME MInv, OrderlyInv, AllReturned, PriceOfLast, PlainWorld, Next
  PROVE  PriceOfLast'
<1>0. TypeOK /\ Move /\ PaidWasTaken /\ NoneFails /\ world' = world /\ ~world.fails /\ ~world.slow
  BY StepsMove DEF MInv, Move, PlainWorld
<1>1. CASE status' # "submitted" /\ total' = total
  BY <1>0, <1>1 DEF PriceOfLast
<1>2. ASSUME NEW t \in world.prices, ChangeDiscount(t) PROVE PriceOfLast'
  <2>1. world.discounts /\ total' = t /\ status' = status /\ status \in {"pending_payment", "submitted"}
    BY <1>2 DEF ChangeDiscount
  <2>2. CASE status # "submitted"
    BY <1>0, <2>1, <2>2 DEF PriceOfLast
  <2>3. CASE status = "submitted"
    <3>1. world.orders = 1
      BY <2>1 DEF PriceOfLast, PlainWorld
    <3> QED
      BY <1>0, <1>2, <2>3, <3>1, PriceFalls
  <2> QED
    BY <2>1, <2>2, <2>3
<1>3. ASSUME NEW c \in Caller, ConfirmPaid(c) PROVE PriceOfLast'
  BY <1>0, <1>3, PriceAtFirst
<1>4. ASSUME status = "submitted", status' = status, total' = total, refunds' = refunds,
             \A q \in Order : pay[q].status = "none" => pay'[q].status = "none"
      PROVE  PriceOfLast'
  BY <1>0, <1>4, PriceStays
<1>5. CASE Checkout
  <2>1. \/ status' = "pending_payment" /\ total' = total
        \/ UNCHANGED <<status, total, refunds, pay>>
    BY <1>5 DEF Checkout, Lapse, PrepareCheckout, PayInWindow, FailInWindow
  <2> QED
    BY <1>1, <1>4, <2>1
<1>6. CASE WebhookOrReturn \/ \E o \in Order : ReconcileRead(o)
  <2>1. UNCHANGED <<status, total, refunds, pay>>
    BY <1>6 DEF WebhookOrReturn, ReadPayment, ReconcileRead
  <2> QED
    BY <1>1, <1>4, <2>1
<1>7. ASSUME NEW c \in Caller, ConfirmPayment(c) PROVE PriceOfLast'
  <2>1. CASE ConfirmAlready(c)
    <3>1. UNCHANGED <<status, total, refunds, pay>>
      BY <2>1 DEF ConfirmAlready
    <3> QED
      BY <1>1, <1>4, <3>1
  <2>2. CASE ConfirmUnpaid(c)
    <3>1. UNCHANGED <<status, total, refunds>>
      BY <2>2 DEF ConfirmUnpaid
    <3>2. PICK o \in Order : o = read[c].order
      BY <2>2, UnpaidIsClosed
    <3>3. \A q \in Order : pay[q].status = "none" => pay'[q].status = "none"
      BY <2>2, <3>2, UnpaidIsClosed
    <3> QED
      BY <1>1, <1>4, <3>1, <3>3
  <2>3. CASE ConfirmMismatch(c) \/ ConfirmLate(c)
    <3>1. Unconfirmed(read[c]) /\ status' = status /\ total' = total
      BY <2>3 DEF ConfirmMismatch, ConfirmLate
    <3>2. status # "submitted"
      BY <1>0, <3>1, NothingFresh
    <3> QED
      BY <1>1, <3>1, <3>2
  <2> QED
    BY <1>3, <1>7, <2>1, <2>2, <2>3 DEF ConfirmPayment
<1>8. CASE Expire \/ Reject \/ \E rate \in Rates : Withdraw(rate) \/ Cancel(rate)
  <2>1. status' # "submitted" /\ total' = total
    BY <1>8 DEF Expire, Reject, Withdraw, Cancel
  <2> QED
    BY <1>1, <2>1
<1>9. ASSUME NEW i \in DOMAIN refunds, RefundSucceeds(i) \/ RefundGivenUp(i) \/ RetryRefund(i) PROVE PriceOfLast'
  <2>1. RefundSucceeds(i)
    BY <1>0, <1>9 DEF RefundGivenUp, RetryRefund, NoneFails
  <2>2. /\ status' = status /\ total' = total
        /\ refunds' = [refunds EXCEPT ![i].status = "succeeded"] /\ refunds[i].status = "requested"
    BY <2>1 DEF RefundSucceeds, Settled
  <2>3. PICK o \in Order : SucceedsRow(o)
    BY <2>1, SucceedsAtPg
  <2>4. \A q \in Order : pay[q].status = "none" => pay'[q].status = "none"
    <3>1. pay[o].status # "none"
      BY <1>0, <2>3 DEF SucceedsRow, PaidWasTaken
    <3> QED
      BY <1>0, <2>3, <3>1, TypesAre DEF SucceedsRow
  <2>5. \A q \in Order : Returned(refunds', {q}, Owed) = Returned(refunds, {q}, Owed)
    <3>1. refunds[i].status \in Owed <=> "succeeded" \in Owed
      BY <2>2 DEF Owed
    <3>2. refunds \in Seq(Refund)
      BY <1>0, TypesAre
    <3>3. ASSUME NEW q \in Order
          PROVE  Returned([refunds EXCEPT ![i].status = "succeeded"], {q}, Owed) = Returned(refunds, {q}, Owed)
      BY <3>1, <3>2, ReturnedAlike
    <3> QED
      BY <2>2, <3>3
  <2>6. CASE status = "submitted"
    BY <1>0, <2>2, <2>4, <2>5, <2>6, PriceStays
  <2> QED
    BY <1>1, <2>2, <2>6
<1>10. CASE Confirmation
  BY <1>6, <1>7, <1>10 DEF Confirmation
<1>11. CASE Ending
  BY <1>2, <1>8, <1>11 DEF Ending
<1>12. CASE Refunding
  BY <1>9, <1>12 DEF Refunding
<1> QED
  BY <1>5, <1>10, <1>11, <1>12 DEF Next

\* What a live application has paid, less its refunds, is its price: for any
\* number of confirmations and any prices under one order, and for any number of
\* orders while the discount stays.
THEOREM PricePaid == Spec => [](PlainWorld => PriceIsPaid)
<1>1. ASSUME Init, MInv PROVE PriceOfLast
  BY <1>1 DEF Init, PriceOfLast
<1>2. ASSUME MInv, ~world.repay => OrderlyInv, ~world.repay /\ ~world.fails => AllReturned,
             PlainWorld => PriceOfLast, [Next]_vars
      PROVE  (PlainWorld => PriceOfLast)'
  <2>1. CASE Next
    <3>1. world' = world
      BY <1>2, <2>1, StepsMove DEF Move
    <3>2. PlainWorld' => PlainWorld
      BY <3>1 DEF PlainWorld
    <3> QED
      BY <1>2, <2>1, <3>2, PriceNext DEF PlainWorld
  <2>2. CASE UNCHANGED vars
    BY <1>2, <2>2 DEF vars, PlainWorld, PriceOfLast, LastOpened
  <2> QED
    BY <1>2, <2>1, <2>2
<1>3. ASSUME MInv, ~world.repay /\ ~world.fails => AllReturned, PlainWorld => PriceOfLast, PlainWorld
      PROVE  PriceIsPaid
  <2> SUFFICES ASSUME status = "submitted" PROVE Taken - Refunded(Order, AnyState) = total
    BY DEF PriceIsPaid
  <2>0. TypeOK /\ ~world.fails /\ ~world.repay /\ PaidWasTaken /\ Order \subseteq Nat
    BY <1>3, WorldIs DEF MInv, PlainWorld
  <2>1. PICK o \in Order : /\ pay[o].at # 0 /\ LastOpened(o)
                           /\ pay[o].amount - Returned(refunds, {o}, Owed) = total
    BY <1>3 DEF PriceOfLast
  <2> DEFINE T == {q \in Order : pay[q].at # 0}
             U == T \ {o}
  <2>2. \A q \in U : FullyReturned(q) /\ pay[q].at # 0
    <3>1. \A q \in U : ~LastOpened(q)
      BY <2>0, <2>1 DEF LastOpened, PaidWasTaken
    <3> QED
      BY <1>3, <2>0, <3>1 DEF AllReturned
  <2>3. T \in SUBSET Order /\ U \in SUBSET Order /\ o \in T /\ T = U \cup {o} /\ U \cap {o} = {}
    BY <2>1
  <2>4. Refunded(Order, AnyState) = Returned(refunds, T, Owed)
    BY <1>3, <2>0, OwedIsAll
  <2>5. Taken = Total(PaidAmount, T)
    BY SumOverIs DEF Taken
  <2> HIDE DEF T, U
  <2>6. Total(PaidAmount, T) = pay[o].amount + Total(PaidAmount, U)
    <3>1. IsFiniteSet(Order) /\ PaidAmount \in [Order -> Nat] /\ PaidAmount[o] = pay[o].amount
      BY <2>0, OrdersAreFew, RowTypes DEF PaidAmount
    <3>2. Total(PaidAmount, T) = PaidAmount[o] + Total(PaidAmount, T \ {o})
      BY <2>3, <3>1, TotalRemove
    <3> QED
      BY <3>1, <3>2 DEF U
  <2>7. Total(PaidAmount, U) = Returned(refunds, U, Owed)
    BY <2>0, <2>2, <2>3, PaidBack, SumOverIs
  <2>8. refunds \in Seq(Refund) /\ pay[o].amount \in Nat
    BY <2>0, TypesAre, RowTypes
  <2>9. Returned(refunds, T, Owed) = Returned(refunds, U, Owed) + Returned(refunds, {o}, Owed)
    <3>1. Returned(refunds, U \cup {o}, Owed) = Returned(refunds, U, Owed) + Returned(refunds, {o}, Owed)
      BY <2>3, <2>8, ReturnedUnion
    <3> QED
      BY <2>3, <3>1
  <2>10. Returned(refunds, U, Owed) \in Nat /\ Returned(refunds, {o}, Owed) \in Nat
    BY <2>8, ReturnedType
  <2> QED
    BY <2>1, <2>4, <2>5, <2>6, <2>7, <2>8, <2>9, <2>10
<1> QED
  BY <1>1, <1>2, <1>3, MoneyInvariance, OrdersAreOrderly, ReturnsInvariance, PTL DEF Spec

-----------------------------------------------------------------------------
(* ApplicationPrice: items, discounts and their sums.                      *)

\* Amounts to pay, without a discount among them.
IsItems(f) == IsFiniteSet(DOMAIN f) /\ f \in [DOMAIN f -> Nat] /\ "discount" \notin DOMAIN f

\* What prices are calculated from: a schedule with a price for the space.
LegalBasis(b) ==
  /\ b.fee \in Fees /\ b.fee.space # Null
  /\ b.start \in Nat /\ b.end \in Nat /\ b.start <= b.end /\ b.dayEnd \in Nat

LEMMA SumIs == \A f : SumOf(f) = Total(f, DOMAIN f)
  BY DEF SumOf, SumFunction, SumFunctionOnSet, FoldFunctionOnSet, Total, MapThenSumSet

LEMMA QuotientIsNat == ASSUME NEW n \in Nat, NEW u \in Nat \ {0} PROVE n \div u \in Nat
  OBVIOUS

LEMMA ProductIsNat == ASSUME NEW n \in Nat, NEW m \in Nat PROVE n * m \in Nat
  OBVIOUS

LEMMA PerHourIsNat == ASSUME NEW fee \in Nat, NEW time \in Nat PROVE PerHour(fee, time) \in Nat
<1>1. Hour \in Nat \ {0} /\ 2 * Hour \in Nat \ {0}
  BY PriceAssumption
<1>2. 2 * fee * time + Hour \in Nat
  BY <1>1, ProductIsNat
<1> QED
  BY <1>1, <1>2, QuotientIsNat DEF PerHour

\* No item takes anything off the price.
LEMMA ItemsTyped ==
  ASSUME NEW b, LegalBasis(b)
  PROVE  IsItems(ItemsOf(b))
<1> DEFINE f == b.fee.space
           L == {"base"} \cup {x \in {"extra"} : Over(b) > 0}
                  \cup {x \in {"night"} : PerHour(b.fee.space.night, Night(b)) > 0} \cup Chosen(b)
<1>1. f \in [base : Nat, baseFee : Nat, unit : Nat \ {0}, extraFee : Nat, night : Nat]
  BY FeesArePriceLists DEF LegalBasis
<1>2. IsFiniteSet(Chosen(b)) /\ {"base", "extra", "night", "discount"} \cap Chosen(b) = {}
  BY FeesArePriceLists, FS_Subset DEF LegalBasis, Chosen
<1>3. Over(b) \in Nat /\ Night(b) \in Nat
  BY <1>1 DEF Over, Night, AtLeast0, LegalBasis
<1>4. ASSUME NEW l \in L PROVE ItemAmount(b, l) \in Nat
  <2>1. CASE l = "base"
    BY <1>1, <2>1 DEF ItemAmount
  <2>2. CASE l = "extra"
    <3>1. Over(b) + f.unit - 1 \in Nat
      BY <1>1, <1>3
    <3>2. Rounds(Over(b), f.unit) \in Nat
      BY <1>1, <3>1, QuotientIsNat DEF Rounds
    <3> QED
      BY <1>1, <2>2, <3>2, ProductIsNat DEF ItemAmount
  <2>3. CASE l = "night"
    BY <1>1, <1>3, <2>3, PerHourIsNat DEF ItemAmount
  <2>4. CASE l \notin {"base", "extra", "night"}
    <3>1. l \in Chosen(b)
      BY <2>4
    <3>2. b.fee.options[l] \in [fee : Nat, unit : {"per_hour", "per_booking"}]
      BY <3>1, FeesArePriceLists DEF LegalBasis, Chosen
    <3>3. PerHour(b.fee.options[l].fee, b.end - b.start) \in Nat
      <4>1. b.end - b.start \in Nat
        BY DEF LegalBasis
      <4> QED
        BY <3>2, <4>1, PerHourIsNat
    <3> QED
      BY <2>4, <3>2, <3>3 DEF ItemAmount
  <2> QED
    BY <2>1, <2>2, <2>3, <2>4
<1>5. IsFiniteSet(L)
  <2>1. IsFiniteSet({"base"}) /\ IsFiniteSet({x \in {"extra"} : Over(b) > 0})
        /\ IsFiniteSet({x \in {"night"} : PerHour(b.fee.space.night, Night(b)) > 0})
    BY FS_Singleton, FS_Subset
  <2> QED
    BY <1>2, <2>1, FS_Union
<1>6. "discount" \notin L
  BY <1>2
<1>7. ItemsOf(b) = [l \in L |-> ItemAmount(b, l)]
  BY DEF ItemsOf
<1> HIDE DEF L
<1> QED
  BY <1>4, <1>5, <1>6, <1>7 DEF IsItems

\* A discount takes off no more than there is.
LEMMA CutIsPart ==
  ASSUME NEW n \in Nat, NEW d \in Discounts \cup {Null}
  PROVE  Cut(n, d) \in 0..n
<1>1. CASE d = Null
  BY <1>1 DEF Cut
<1>2. CASE d \in [kind : {"percent"}, value : 0..100] /\ d # Null
  <2> DEFINE v == d.value
  <2>1. v \in 0..100 /\ d.kind = "percent"
    BY <1>2
  <2> HIDE DEF v
  <2>2. n * v \in Nat /\ n * (100 - v) \in Nat /\ n * v + n * (100 - v) = 100 * n
    BY <2>1, ProductIsNat
  <2> DEFINE p == n * v
  <2>3. p \in Nat /\ p <= 100 * n
    BY <2>2
  <2> HIDE DEF p
  <2>4. p \div 100 \in 0..n
    BY <2>3
  <2> QED
    BY <1>2, <2>1, <2>4 DEF Cut, v, p
<1>3. CASE d \in [kind : {"amount"}, value : Nat] /\ d # Null
  BY <1>3 DEF Cut
<1> QED
  BY <1>1, <1>2, <1>3, DiscountsAreParts

\* The price with a discount is what is left of the sum.
LEMMA SumWithDiscount ==
  ASSUME NEW f, IsItems(f), NEW d \in Discounts \cup {Null}
  PROVE  SumOf(WithDiscount(f, d)) \in Nat
<1> DEFINE D == DOMAIN f
           c == Cut(SumOf(f), d)
           g == WithDiscount(f, d)
<1>1. SumOf(f) \in Nat /\ SumOf(f) = Total(f, D)
  BY SumIs, TotalType DEF IsItems
<1>2. c \in 0..SumOf(f)
  BY <1>1, CutIsPart
<1>3. g = [l \in D \cup {x \in {"discount"} : c > 0} |-> IF l = "discount" THEN -c ELSE f[l]]
  BY DEF WithDiscount
<1>4. "discount" \notin D /\ IsFiniteSet(D) /\ f \in [D -> Nat]
  BY DEF IsItems
<1>5. SumOf(g) = Total(g, DOMAIN g)
  BY SumIs
<1> HIDE DEF D, c, g
<1>6. \A l \in D : g[l] = f[l]
  BY <1>3, <1>4
<1>7. Total(g, D) = Total(f, D)
  BY <1>4, <1>6, TotalSame
<1>8. CASE c > 0
  <2>1. DOMAIN g = D \cup {"discount"} /\ g["discount"] = -c
    BY <1>3, <1>8
  <2>2. g \in [D \cup {"discount"} -> Int]
    BY <1>1, <1>2, <1>3, <1>4, <1>8
  <2>3. IsFiniteSet(D \cup {"discount"})
    BY <1>4, FS_AddElement
  <2>4. Total(g, D \cup {"discount"}) = g["discount"] + Total(g, (D \cup {"discount"}) \ {"discount"})
    BY <2>2, <2>3, TotalTakes
  <2>5. (D \cup {"discount"}) \ {"discount"} = D
    BY <1>4
  <2> QED
    BY <1>1, <1>2, <1>5, <1>7, <2>1, <2>4, <2>5 DEF g
<1>9. CASE ~(c > 0)
  <2>1. DOMAIN g = D
    BY <1>3, <1>9
  <2> QED
    BY <1>1, <1>5, <1>7, <2>1 DEF g
<1> QED
  BY <1>8, <1>9

\* A new discount in place of the old is the new one from the beginning.
LEMMA DiscountReplaced ==
  ASSUME NEW f, IsItems(f), NEW d, NEW e
  PROVE  repriceWithDiscount(WithDiscount(f, d), e) = WithDiscount(f, e)
<1> DEFINE g == WithDiscount(f, d)
           c == Cut(SumOf(f), d)
<1>1. g = [l \in DOMAIN f \cup {x \in {"discount"} : c > 0} |-> IF l = "discount" THEN -c ELSE f[l]]
  BY DEF WithDiscount
<1> HIDE DEF g, c
<1>2. DOMAIN g \ {"discount"} = DOMAIN f
  BY <1>1 DEF IsItems
<1>3. Restrict(g, DOMAIN g \ {"discount"}) = f
  BY <1>1, <1>2 DEF Restrict, IsItems
<1> QED
  BY <1>3 DEF repriceWithDiscount, g

-----------------------------------------------------------------------------
(* ApplicationPrice: the application.                                      *)

\* Schedules, rules and what a run has read come from their tables.
TablesTyped ==
  /\ fees \in Seq(Fees) /\ fees # <<>>
  /\ dayEnd \in DayEnds
  /\ rules \in [Rule -> Discounts]
  /\ run # Null => run.fee \in Fees /\ run.dayEnd \in DayEnds

\* An application a, with the amounts d due and r received, calculated from b.
Stands(a, d, r, b) ==
  /\ LegalBasis(b)
  /\ a = [status |-> a.status, method |-> a.method, time |-> a.time, options |-> a.options, rule |-> a.rule,
          discount |-> a.discount, price |-> a.price, total |-> a.total, feeId |-> a.feeId]
  /\ a.status \in {"pending_payment", "submitted"}
  /\ a.time \in Times
  /\ a.discount \in Discounts \cup {Null}
  /\ (a.rule = Null) = (a.discount = Null)
  /\ a.price = calculatePrice(b, a.discount)
  /\ a.total = SumOf(a.price)
  /\ a.status = "pending_payment" => d = a.total
  /\ a.status = "submitted" => r = a.total

PricingInv == TablesTyped /\ (IF app = NoApp THEN received = 0 ELSE Stands(app, due, received, basedOn))

LEMMA CurrentFeeIs == ASSUME TablesTyped PROVE CurrentFee \in Fees
<1>1. Len(fees) \in 1 .. Len(fees)
  BY DEF TablesTyped
<1> QED
  BY <1>1 DEF TablesTyped, CurrentFee

LEMMA BasisNowLegal ==
  ASSUME TablesTyped, NEW t \in Times, NEW options, CurrentFee.space # Null
  PROVE  LegalBasis(BasisNow(t, options))
  BY CurrentFeeIs, TimesInOrder DEF TablesTyped, LegalBasis, BasisNow

LEMMA DiscountNow ==
  ASSUME TablesTyped, NEW rule \in Rule \cup {Null}
  PROVE  DiscountOf(rule) \in Discounts \cup {Null} /\ (rule = Null) = (DiscountOf(rule) = Null)
  BY DiscountsAreParts DEF TablesTyped, DiscountOf

\* There is an application as soon as it has a status of its own.
LEMMA IsThere == ASSUME NEW a, a.status # "none" PROVE a # NoApp
  BY DEF NoApp

\* The steps that the price may change in.
LEMMA StepsOnApp ==
  ASSUME [PricingNext]_pricingVars
  PROVE  \/ \E t \in Times, rule \in Rule \cup {Null} : \E options, method : Submit(t, options, rule, method)
         \/ \E t \in Times : EditTimes(t) \/ Recalculate(t)
         \/ Pay
         \/ \E rule \in Rule \cup {Null} : changeApplicationDiscount(rule)
         \/ Reprice
         \/ UNCHANGED <<app, due, received, basedOn>>
<1>1. StartRun \/ (\E f \in Fees : SaveFee(f)) \/ SaveDayEnd \/ DiscountRules \/ UNCHANGED pricingVars
        => UNCHANGED <<app, due, received, basedOn>>
  BY DEF StartRun, SaveFee, SaveDayEnd, DiscountRules, SaveRule, pricingVars
<1> DEFINE Submits == \E t \in Times, rule \in Rule \cup {Null} : \E options, method : Submit(t, options, rule, method)
           Corrects == \E t \in Times : EditTimes(t) \/ Recalculate(t)
<1>2. ASSUME NEW t \in Times, NEW options, NEW rule \in Rule \cup {Null}, NEW method, Submit(t, options, rule, method)
      PROVE  Submits
  BY <1>2
<1>3. ASSUME NEW t \in Times, Corrections(t) PROVE Corrects
  BY <1>3 DEF Corrections
<1> HIDE DEF Submits, Corrects
<1>4. Submits \/ Corrects \/ Pay \/ (\E rule \in Rule \cup {Null} : changeApplicationDiscount(rule)) \/ Reprice
        \/ UNCHANGED <<app, due, received, basedOn>>
  BY <1>1, <1>2, <1>3 DEF PricingNext
<1> QED
  BY <1>4 DEF Submits, Corrects

\* What the steps do to the application.
LEMMA AppSteps ==
  ASSUME PricingInv, [PricingNext]_pricingVars
  PROVE  IF app' = NoApp THEN received' = 0 ELSE Stands(app', due', received', basedOn')
<1>0. TablesTyped
  BY DEF PricingInv
<1>1. ASSUME NEW t \in Times, NEW options, NEW rule \in Rule \cup {Null}, NEW method, Submit(t, options, rule, method)
      PROVE  Stands(app', due', received', basedOn') /\ app' # NoApp
  <2> DEFINE b == BasisNow(t, options)
             d == DiscountOf(rule)
             price == calculatePrice(b, d)
             st == IF SumOf(price) = 0 THEN "submitted" ELSE "pending_payment"
  <2>1. /\ app = NoApp /\ CurrentFee.space # Null /\ basedOn' = b /\ due' = SumOf(price) /\ received' = received
        /\ app' = [status |-> st, method |-> method, time |-> t, options |-> options, rule |-> rule,
                   discount |-> d, price |-> price, total |-> SumOf(price), feeId |-> Len(fees)]
    BY <1>1 DEF Submit
  <2>2. received' = 0
    BY <2>1 DEF PricingInv
  <2>3. LegalBasis(b)
    BY <1>0, <2>1, BasisNowLegal
  <2>4. d \in Discounts \cup {Null} /\ (rule = Null) = (d = Null)
    BY <1>0, DiscountNow
  <2>5. st \in {"submitted", "pending_payment"} /\ (st = "submitted" => SumOf(price) = 0)
    OBVIOUS
  <2>6. price = calculatePrice(b, d)
    OBVIOUS
  <2> HIDE DEF b, d, price, st
  <2>7. Stands(app', due', received', basedOn')
    BY <2>1, <2>2, <2>3, <2>4, <2>5, <2>6 DEF Stands
  <2>8. app'.status # "none"
    BY <2>1, <2>5
  <2> QED
    BY <2>7, <2>8, IsThere
<1>2. SUFFICES ASSUME ~\E t \in Times, rule \in Rule \cup {Null} : \E options, method : Submit(t, options, rule, method)
      PROVE  IF app' = NoApp THEN received' = 0 ELSE Stands(app', due', received', basedOn')
  BY <1>1
<1>3. CASE UNCHANGED <<app, due, received, basedOn>>
  BY <1>3 DEF PricingInv
<1>4. SUFFICES ASSUME ~UNCHANGED <<app, due, received, basedOn>>, app.status \in {"pending_payment", "submitted"}
      PROVE  Stands(app', due', received', basedOn') /\ app' # NoApp
  <2>1. ASSUME ~UNCHANGED <<app, due, received, basedOn>> PROVE app.status \in {"pending_payment", "submitted"}
    <3>1. CASE \E t \in Times : EditTimes(t) \/ Recalculate(t)
      BY <3>1 DEF EditTimes, Recalculate
    <3>2. CASE Pay
      BY <3>2 DEF Pay
    <3>3. CASE \E rule \in Rule \cup {Null} : changeApplicationDiscount(rule)
      BY <3>3 DEF changeApplicationDiscount
    <3>4. CASE Reprice
      <4>1. app.status # "pending_payment" => UNCHANGED <<app, due, received, basedOn>>
        BY <3>4 DEF Reprice
      <4> QED
        BY <2>1, <4>1
    <3> QED
      BY <1>2, <2>1, <3>1, <3>2, <3>3, <3>4, StepsOnApp
  <2> QED
    BY <1>3, <2>1
<1>5. app # NoApp /\ Stands(app, due, received, basedOn)
  BY <1>4, IsThere DEF PricingInv, NoApp
<1>6. CASE Pay
  BY <1>5, <1>6, IsThere DEF Pay, Stands
<1>7. ASSUME NEW rule \in Rule \cup {Null}, changeApplicationDiscount(rule)
      PROVE  Stands(app', due', received', basedOn') /\ app' # NoApp
  <2> DEFINE d == DiscountOf(rule)
             price == repriceWithDiscount(app.price, d)
  <2>1. /\ Settle(SumOf(price)) /\ basedOn' = basedOn
        /\ app' = [app EXCEPT !.rule = rule, !.discount = d, !.price = price, !.total = SumOf(price)]
    BY <1>7 DEF changeApplicationDiscount
  <2>2. d \in Discounts \cup {Null} /\ (rule = Null) = (d = Null)
    BY <1>0, DiscountNow
  <2>3. price = calculatePrice(basedOn, d)
    BY <1>5, ItemsTyped, DiscountReplaced DEF Stands, calculatePrice
  <2> HIDE DEF d, price
  <2> DEFINE a == [status |-> app.status, method |-> app.method, time |-> app.time, options |-> app.options, rule |-> rule,
                   discount |-> d, price |-> price, total |-> SumOf(price), feeId |-> app.feeId]
  <2>4. app' = a
    BY <1>5, <2>1 DEF Stands
  <2>5. Stands(a, due', received', basedOn')
    BY <1>5, <2>1, <2>2, <2>3 DEF Stands, Settle
  <2> QED
    BY <1>5, <2>4, <2>5, IsThere DEF Stands
<1>8. ASSUME NEW t \in Times, EditTimes(t) PROVE Stands(app', due', received', basedOn') /\ app' # NoApp
  BY <1>5, <1>8, IsThere DEF EditTimes, Stands
<1>9. ASSUME NEW t \in Times, Recalculate(t) PROVE Stands(app', due', received', basedOn') /\ app' # NoApp
  <2> DEFINE b == BasisNow(t, app.options)
             price == calculatePrice(b, app.discount)
  <2>1. /\ CurrentFee.space # Null /\ basedOn' = b
        /\ app' = [app EXCEPT !.time = t, !.price = price, !.total = SumOf(price), !.feeId = Len(fees)]
        /\ (SumOf(price) = app.total /\ UNCHANGED <<due, received>>) \/ Settle(SumOf(price))
    BY <1>9 DEF Recalculate
  <2>2. LegalBasis(b)
    BY <1>0, <2>1, BasisNowLegal
  <2>3. price = calculatePrice(b, app.discount)
    OBVIOUS
  <2> HIDE DEF b, price
  <2> DEFINE a == [status |-> app.status, method |-> app.method, time |-> t, options |-> app.options, rule |-> app.rule,
                   discount |-> app.discount, price |-> price, total |-> SumOf(price), feeId |-> Len(fees)]
  <2>4. app' = a
    BY <1>5, <2>1 DEF Stands
  <2>5. Stands(a, due', received', basedOn')
    BY <1>5, <2>1, <2>2, <2>3 DEF Stands, Settle
  <2> QED
    BY <1>5, <2>4, <2>5, IsThere DEF Stands
<1>10. CASE Reprice
  <2> DEFINE b == [fee |-> run.fee, start |-> app.time.start, end |-> app.time.end,
                   dayEnd |-> run.dayEnd, options |-> app.options]
             price == calculatePrice(b, app.discount)
  <2>1. run # Null /\ received' = received
    BY <1>10 DEF Reprice
  <2>2. (app.status = "pending_payment" /\ run.fee.space # Null /\ TakePrice(b, price)) \/ KeepPrice
    BY <1>4, <1>10 DEF Reprice
  <2>3. CASE KeepPrice
    BY <1>5, <2>1, <2>3, IsThere DEF KeepPrice, Stands
  <2>4. CASE app.status = "pending_payment" /\ run.fee.space # Null /\ TakePrice(b, price)
    <3>1. LegalBasis(b)
      BY <1>0, <1>5, <2>1, <2>4, TimesInOrder DEF TablesTyped, LegalBasis, Stands
    <3>2. price = calculatePrice(b, app.discount)
      OBVIOUS
    <3> HIDE DEF b, price
    <3> DEFINE a == [status |-> app.status, method |-> app.method, time |-> app.time, options |-> app.options,
                     rule |-> app.rule, discount |-> app.discount, price |-> price, total |-> SumOf(price),
                     feeId |-> run.feeId]
    <3>3. app' = a /\ due' = SumOf(price) /\ basedOn' = b
      BY <1>5, <2>4 DEF TakePrice, Stands
    <3>4. Stands(a, due', received', basedOn')
      BY <1>5, <2>4, <3>1, <3>2, <3>3 DEF Stands
    <3> QED
      BY <1>5, <3>3, <3>4, IsThere DEF Stands
  <2> QED
    BY <2>2, <2>3, <2>4
<1> QED
  BY <1>2, <1>4, <1>6, <1>7, <1>8, <1>9, <1>10, StepsOnApp

\* What prices are made of stays of its kind, whoever edits it.
LEMMA TableSteps ==
  ASSUME PricingInv, [PricingNext]_pricingVars
  PROVE  TablesTyped'
<1>0. TablesTyped
  BY DEF PricingInv
<1>1. ASSUME NEW f \in Fees, SaveFee(f) PROVE TablesTyped'
  <2>1. fees' \in Seq(Fees) /\ fees' # <<>>
    BY <1>0, <1>1 DEF SaveFee, TablesTyped
  <2> QED
    BY <1>0, <1>1, <2>1 DEF SaveFee, TablesTyped
<1>2. CASE SaveDayEnd
  BY <1>0, <1>2 DEF SaveDayEnd, TablesTyped
<1>3. ASSUME NEW rule \in Rule, SaveRule(rule) PROVE TablesTyped'
  BY <1>0, <1>3 DEF SaveRule, TablesTyped
<1>4. CASE StartRun
  BY <1>0, <1>4, CurrentFeeIs DEF StartRun, TablesTyped
<1>5. CASE Reprice
  BY <1>0, <1>5 DEF Reprice, TablesTyped
<1>6. CASE UNCHANGED <<fees, dayEnd, rules, run>>
  BY <1>0, <1>6 DEF TablesTyped
<1> QED
  BY <1>1, <1>2, <1>3, <1>4, <1>5, <1>6
     DEF PricingNext, pricingVars, Corrections, DiscountRules, Submit, Pay, changeApplicationDiscount, EditTimes, Recalculate

\* At any time the price is the one that a calculation in one go gives, and
\* the money follows it.
LEMMA PricingInvariance == PricingSpec => []PricingInv
<1>1. PricingInit => PricingInv
  BY FeesArePriceLists, DiscountsAreParts DEF PricingInit, PricingInv, TablesTyped
<1>2. PricingInv /\ [PricingNext]_pricingVars => PricingInv'
  BY AppSteps, TableSteps DEF PricingInv
<1> QED
  BY <1>1, <1>2, PTL DEF PricingSpec

\* However often discounts, times, schedules and rules changed, the price is
\* that of a calculation in one go, is not negative, and is due or received.
THEOREM PriceStandsAlways == PricingSpec => []PriceStands
<1>1. PricingInv => PriceStands
  <2> SUFFICES ASSUME PricingInv, app # NoApp PROVE Stands(app, due, received, basedOn) /\ app.total >= 0
    BY DEF PriceStands, Stands
  <2>1. Stands(app, due, received, basedOn)
    BY DEF PricingInv
  <2>2. SumOf(WithDiscount(ItemsOf(basedOn), app.discount)) \in Nat
    BY <2>1, ItemsTyped, SumWithDiscount DEF Stands
  <2> QED
    BY <2>1, <2>2 DEF Stands, calculatePrice
<1> QED
  BY <1>1, PricingInvariance, PTL
=============================================================================
