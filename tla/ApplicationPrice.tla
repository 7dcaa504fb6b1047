-------------------------- MODULE ApplicationPrice --------------------------
(***************************************************************************)
(* What one application costs, from its submission to the last correction: *)
(* domain/pricing/calculate.ts and everything that writes the price        *)
(* snapshot, the total, the amount due and the refunds of a difference.    *)
(*                                                                         *)
(* A price is a function from the labels of its items to amounts.  The     *)
(* calculation starts from a basis: the fee schedule, the times, the end   *)
(* of the day and the options chosen.  Times are minutes, or larger units  *)
(* of which Hour make an hour.  How schedules come into effect is in       *)
(* Policies, how the money moves in PaymentFlow.                           *)
(***************************************************************************)
EXTENDS Integers, Sequences, FiniteSets, Functions

CONSTANTS
  Hour,        \* the length of an hour
  Null,        \* no discount, no price for the space, no run
  Rule,        \* ids of discount rules
  Discounts,   \* what a rule may say: [kind, value]
  Fees,        \* fee schedules: [space, options]
  DayEnds,     \* values of operation.dayEnd
  Times,       \* times of use: [start, end]
  FirstFees,   \* the versions at the beginning
  FirstRules,  \* what the rules say at the beginning
  MaxFees,     \* bound: versions of the fee schedule
  MaxEdits     \* bound: changes of discount rules

ASSUME PriceAssumption == Hour \in Nat \ {0} /\ MaxFees \in Nat \ {0} /\ MaxEdits \in Nat

\* Amounts and times are numbers; an option has a name of its own.
ASSUME FeesArePriceLists ==
  /\ \A f \in Fees :
       /\ f.space = Null \/ f.space \in [base : Nat, baseFee : Nat, unit : Nat \ {0}, extraFee : Nat, night : Nat]
       /\ IsFiniteSet(DOMAIN f.options) /\ {"base", "extra", "night", "discount"} \cap DOMAIN f.options = {}
       /\ \A l \in DOMAIN f.options : f.options[l] \in [fee : Nat, unit : {"per_hour", "per_booking"}]
  /\ FirstFees \in Seq(Fees) \ {<<>>}

ASSUME TimesInOrder == Times \subseteq {t \in [start : Nat, end : Nat] : t.start <= t.end} /\ DayEnds \subseteq Nat

\* A percentage takes away at most everything.
ASSUME DiscountsAreParts ==
  /\ Discounts \subseteq [kind : {"percent"}, value : 0..100] \cup [kind : {"amount"}, value : Nat]
  /\ FirstRules \in [Rule -> Discounts]
  /\ Null \notin Rule /\ Null \notin Discounts

VARIABLES
  fees,      \* the versions so far, each under its number; the last applies
  dayEnd,    \* operation.dayEnd
  rules,     \* rules[id]: what the rule says now
  edits,     \* how often rules were changed
  app,       \* the row: status, method, times, options, discount, price, fee
  due,       \* the amount of its payment that waits
  received,  \* paid, less what was or is being refunded
  basedOn,   \* history: what the items were calculated from
  run        \* the run of repricePendingApplications under way, with what it read

pricingVars == <<fees, dayEnd, rules, edits, app, due, received, basedOn, run>>

-----------------------------------------------------------------------------
(* calculate.ts                                                            *)
AtLeast0(n) == IF n < 0 THEN 0 ELSE n

PerHour(fee, time) == (2 * fee * time + Hour) \div (2 * Hour)    \* Math.round

Rounds(n, unit) == (n + unit - 1) \div unit                      \* Math.ceil

Over(b) == AtLeast0((b.end - b.start) - b.fee.space.base)

Night(b) == AtLeast0(b.end - (IF b.start > b.dayEnd THEN b.start ELSE b.dayEnd))

\* Options that the schedule no longer has do not count.
Chosen(b) == b.options \cap DOMAIN b.fee.options

ItemAmount(b, l) ==
  LET f == b.fee.space
  IN CASE l = "base" -> f.baseFee
       [] l = "extra" -> Rounds(Over(b), f.unit) * f.extraFee
       [] l = "night" -> PerHour(f.night, Night(b))
       [] OTHER -> LET o == b.fee.options[l]
                   IN IF o.unit = "per_booking" THEN o.fee ELSE PerHour(o.fee, b.end - b.start)

ItemsOf(b) ==
  [l \in {"base"} \cup {x \in {"extra"} : Over(b) > 0}
         \cup {x \in {"night"} : PerHour(b.fee.space.night, Night(b)) > 0} \cup Chosen(b) |-> ItemAmount(b, l)]

SumOf(items) == SumFunction(items)

Cut(subtotal, d) ==
  IF d = Null THEN 0
  ELSE IF d.kind = "percent" THEN (subtotal * d.value) \div 100
  ELSE IF d.value < subtotal THEN d.value ELSE subtotal

WithDiscount(items, d) ==
  LET cut == Cut(SumOf(items), d)
  IN [l \in DOMAIN items \cup {x \in {"discount"} : cut > 0} |-> IF l = "discount" THEN -cut ELSE items[l]]

calculatePrice(b, d) == WithDiscount(ItemsOf(b), d)

\* Mutant: the discount so far stays among the items.
repriceWithDiscount_Twice(items, d) == WithDiscount(items, d)

repriceWithDiscount(items, d) == WithDiscount(Restrict(items, DOMAIN items \ {"discount"}), d)

-----------------------------------------------------------------------------
CurrentFee == fees[Len(fees)]

BasisNow(t, options) ==
  [fee |-> CurrentFee, start |-> t.start, end |-> t.end, dayEnd |-> dayEnd, options |-> options]

NoApp == [status |-> "none"]

PricingInit ==
  /\ fees = FirstFees
  /\ dayEnd \in DayEnds
  /\ rules = FirstRules
  /\ edits = 0
  /\ app = NoApp
  /\ due = 0
  /\ received = 0
  /\ basedOn = Null
  /\ run = Null

\* What is read of a rule goes into the application, with the id.
DiscountOf(rule) == IF rule = Null THEN Null ELSE rules[rule]

\* submitApplication, with any rule that is switched on.  Nothing to pay is
\* paid at once.
Submit(t, options, rule, method) ==
  LET b == BasisNow(t, options)
      price == calculatePrice(b, DiscountOf(rule))
  IN /\ app = NoApp
     /\ CurrentFee.space # Null
     /\ options \subseteq DOMAIN CurrentFee.options
     /\ app' = [status |-> IF SumOf(price) = 0 THEN "submitted" ELSE "pending_payment", method |-> method,
                time |-> t, options |-> options, rule |-> rule, discount |-> DiscountOf(rule),
                price |-> price, total |-> SumOf(price), feeId |-> Len(fees)]
     /\ due' = SumOf(price)
     /\ basedOn' = b
     /\ UNCHANGED <<fees, dayEnd, rules, edits, received, run>>

\* confirmDeposit, or the payment through the gateway of what is due.
Pay ==
  /\ app.status = "pending_payment"
  /\ app' = [app EXCEPT !.status = "submitted"]
  /\ received' = due
  /\ UNCHANGED <<fees, dayEnd, rules, edits, due, basedOn, run>>

\* A new price for an application: what is due changes, or the difference
\* goes back; more than was received cannot be asked for.
Settle(total) ==
  \/ /\ app.status = "pending_payment"
     /\ due' = total
     /\ UNCHANGED received
  \/ /\ app.status = "submitted"
     /\ total <= received
     /\ received' = total
     /\ UNCHANGED due

\* changeApplicationDiscount, with any rule or none.
changeApplicationDiscount(rule) ==
  /\ app.status \in {"pending_payment", "submitted"}
  /\ rule # app.rule
  /\ LET price == repriceWithDiscount(app.price, DiscountOf(rule))
     IN /\ Settle(SumOf(price))
        /\ app' = [app EXCEPT !.rule = rule, !.discount = DiscountOf(rule), !.price = price, !.total = SumOf(price)]
  /\ UNCHANGED <<fees, dayEnd, rules, edits, basedOn, run>>

\* updateApplicationByAdmin: the times, and the price only when asked for.
EditTimes(t) ==
  /\ app.status \in {"pending_payment", "submitted"}
  /\ t # app.time
  /\ app' = [app EXCEPT !.time = t]
  /\ UNCHANGED <<fees, dayEnd, rules, edits, due, received, basedOn, run>>

Recalculate(t) ==
  LET b == BasisNow(t, app.options)
      price == calculatePrice(b, app.discount)
      total == SumOf(price)
  IN /\ app.status \in {"pending_payment", "submitted"}
     /\ CurrentFee.space # Null
     /\ t # app.time \/ total # app.total
     /\ app' = [app EXCEPT !.time = t, !.price = price, !.total = total, !.feeId = Len(fees)]
     /\ basedOn' = b
     /\ \/ total = app.total /\ UNCHANGED <<due, received>>
        \/ /\ total # app.total
           /\ app.status = "pending_payment" => total > 0
           /\ Settle(total)
     /\ UNCHANGED <<fees, dayEnd, rules, edits, run>>

-----------------------------------------------------------------------------
\* repricePendingApplications reads the schedule and the end of the day, and
\* goes through the applications it found.
Reprices == app.status = "pending_payment" /\ app.method = "bank_transfer"

StartRun ==
  /\ run = Null
  /\ Reprices /\ app.feeId # Len(fees)
  /\ run' = [fee |-> CurrentFee, feeId |-> Len(fees), dayEnd |-> dayEnd]
  /\ UNCHANGED <<fees, dayEnd, rules, edits, app, due, received, basedOn>>

\* Without a price for the space, or with nothing left to pay, only the
\* number of the schedule is noted.
KeepPrice ==
  /\ app' = [app EXCEPT !.feeId = run.feeId]
  /\ UNCHANGED <<due, basedOn>>

TakePrice(b, price) ==
  /\ app' = [app EXCEPT !.price = price, !.total = SumOf(price), !.feeId = run.feeId]
  /\ due' = SumOf(price)
  /\ basedOn' = b

Reprice ==
  /\ run # Null
  /\ LET b == [fee |-> run.fee, start |-> app.time.start, end |-> app.time.end,
               dayEnd |-> run.dayEnd, options |-> app.options]
     IN IF app.status # "pending_payment" \/ app.feeId = run.feeId THEN UNCHANGED <<app, due, basedOn>>
        ELSE IF run.fee.space = Null THEN KeepPrice
        ELSE IF SumOf(calculatePrice(b, app.discount)) <= 0 THEN KeepPrice
        ELSE TakePrice(b, calculatePrice(b, app.discount))
  /\ run' = Null
  /\ UNCHANGED <<fees, dayEnd, rules, edits, received>>

-----------------------------------------------------------------------------
\* Administrators at work on what prices are made of.
SaveFee(f) ==
  /\ Len(fees) < MaxFees
  /\ f # CurrentFee
  /\ fees' = Append(fees, f)
  /\ UNCHANGED <<dayEnd, rules, edits, app, due, received, basedOn, run>>

SaveDayEnd ==
  /\ dayEnd' \in DayEnds \ {dayEnd}
  /\ UNCHANGED <<fees, rules, edits, app, due, received, basedOn, run>>

SaveRule(rule) ==
  /\ edits < MaxEdits
  /\ \E d \in Discounts : rules' = [rules EXCEPT ![rule] = d]
  /\ edits' = edits + 1
  /\ UNCHANGED <<fees, dayEnd, app, due, received, basedOn, run>>

Corrections(t) == EditTimes(t) \/ Recalculate(t)

DiscountRules == \E rule \in Rule : SaveRule(rule)

PricingNext ==
  \/ \E t \in Times :
       \/ \E options \in SUBSET DOMAIN CurrentFee.options, rule \in Rule \cup {Null},
             method \in {"bank_transfer", "pg"} : Submit(t, options, rule, method)
       \/ Corrections(t)
  \/ Pay
  \/ \E rule \in Rule \cup {Null} : changeApplicationDiscount(rule)
  \/ StartRun
  \/ Reprice
  \/ \E f \in Fees : SaveFee(f)
  \/ SaveDayEnd
  \/ DiscountRules

PricingSpec == PricingInit /\ [][PricingNext]_pricingVars

-----------------------------------------------------------------------------
\* However often discounts, times, schedules and rules changed, and whatever
\* ran between them, the price is the one a calculation in one go gives: from
\* the basis of the last calculation and the discount as it was when it was
\* given, which is recorded with its rule.  Before the payment that is what
\* is due, after it what the house keeps.
PriceStands ==
  app # NoApp =>
    /\ app.total = SumOf(app.price)
    /\ app.price = calculatePrice(basedOn, app.discount)
    /\ (app.rule = Null) = (app.discount = Null)
    /\ app.total >= 0
    /\ app.status = "pending_payment" => due = app.total
    /\ app.status = "submitted" => received = app.total
=============================================================================
