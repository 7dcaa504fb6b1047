-------------------------- MODULE RefundQueueProofs -------------------------
(***************************************************************************)
(* Refunds of any number and amounts, processed by any number of           *)
(* transactions and retried by any number of administrators side by side,  *)
(* whatever fails.                                                         *)
(*                                                                         *)
(* RInv is the inductive invariant.  Each property needs the whole of it:  *)
(* what the PG was asked is accounted for (Accounts) because one           *)
(* transaction at a time is at work on a refund (OneRowEach, HeldIsOpen);  *)
(* a retry writes over nothing but a failure, unless it overlaps another   *)
(* (RetriedHasFailed); and that a payment found returned stays so          *)
(* (CoversStands) rests on what was carried out once, because the sum over *)
(* a larger set of refunds is no smaller (TotalGrows).                     *)
(***************************************************************************)
EXTENDS RefundQueue, Sums, TLAPS

Settled == {r \in R : status[r] = "succeeded"}

\* Carried out at some time, if opened again since.
Ever == Settled \cup reopened

\* Someone is about to record that r was carried out.
Recording(r) == \E p \in Proc : r \in proc[p].on /\ proc[p].step \in {"SUCCEEDED", "settled"}

\* A transaction is idle or at work on one refund, and no other is on that.
OneRowEach ==
  /\ \A p \in Proc : \/ proc[p] = Idle
                     \/ \E r \in R : proc[p].on = {r} /\ proc[p].step # "idle"
  /\ \A p, q \in Proc : \A r \in R : r \in proc[p].on /\ r \in proc[q].on => p = q

\* What is processed is requested.
HeldIsOpen == \A p \in Proc : \A r \in R : r \in proc[p].on => status[r] = "requested"

\* What is retried has failed; two who retry the same know of each other here.
RetriedHasFailed ==
  /\ \A a \in Admin \ overlapping : \A r \in R : retrying[a] = {r} => status[r] = "failed"
  /\ \A a, b \in Admin : \A r \in R :
       a # b /\ retrying[a] = {r} /\ retrying[b] = {r} => a \in overlapping

\* The PG has no part in bank transfers, nor have retries.
NoPgByHand ==
  method = "bank_transfer" =>
    /\ \A r \in R : status[r] # "failed" /\ sent[r] = 0
    /\ \A p \in Proc : proc[p].step \in {"idle", "SUCCEEDED", "settled"}
    /\ \A a \in Admin : retrying[a] = {}

\* Every return is recorded, about to be, or one that went missing ...
Accounts ==
  method = "pg" =>
    \A r \in R : sent[r] = unrecorded[r] + (IF status[r] = "succeeded" \/ Recording(r) THEN 1 ELSE 0)

\* ... for which there is a cause.
CauseKnown == faults = {} => \A r \in R \ reopened : unrecorded[r] = 0

\* Who found the payment returned found so with refunds that were carried out ...
CoversStands ==
  \A p \in Proc : \A r \in R :
    r \in proc[p].on /\ proc[p].covers => Total(Amount, Ever \cup {r}) >= Paid

\* ... and unless two settled side by side, who settles the last of it finds so.
CoversAll ==
  ~together =>
    /\ \A p, q \in Proc : proc[p].step = "settled" /\ proc[q].step = "settled" => p = q
    /\ \A p \in Proc : \A r \in R :
         proc[p].on = {r} /\ proc[p].step = "settled" /\ Total(Amount, Settled \cup {r}) >= Paid
           => proc[p].covers

RInv ==
  /\ TypeOK /\ OneRowEach /\ HeldIsOpen /\ RetriedHasFailed
  /\ NoPgByHand /\ Accounts /\ CauseKnown
  /\ CoversStands /\ CoversAll /\ CancelledIsReturned

-----------------------------------------------------------------------------
LEMMA CountIsTyped ==
  ASSUME NEW a \in 0 .. MaxAttempts
  PROVE  Min({a + 1, MaxAttempts}) \in 0 .. MaxAttempts
<1> DEFINE S == {a + 1, MaxAttempts}
<1>1. \E x \in S : \A y \in S : x <= y
  BY ConstantsAssumption
<1>2. Min(S) \in S /\ \A y \in S : Min(S) <= y
  BY <1>1 DEF Min
<1> QED
  BY <1>2, ConstantsAssumption

\* The sum of what is settled never falls while refunds stay settled.
LEMMA SettledGrows ==
  ASSUME TypeOK, NEW T \in SUBSET R, NEW U \in SUBSET R, U \subseteq T, Total(Amount, U) >= Paid
  PROVE  Total(Amount, T) >= Paid
<1>1. Amount \in [R -> Nat] /\ Paid \in Nat
  BY ConstantsAssumption
<1>2. Total(Amount, U) \in Nat /\ Total(Amount, T) \in Nat
  BY <1>1, RefundsAreFinite, TotalType
<1>3. Total(Amount, U) <= Total(Amount, T)
  BY <1>1, RefundsAreFinite, TotalGrows
<1> QED
  BY <1>1, <1>2, <1>3

PaidBack == pay = "cancelled" => Total(Amount, Ever) >= Paid
NoneMissed == ~together /\ Total(Amount, Settled) >= Paid => pay = "cancelled"

LEMMA CancelledInTotals ==
  /\ CancelledIsReturned <=> PaidBack /\ NoneMissed
  /\ CancelledIsReturned' <=> PaidBack' /\ NoneMissed'
<1>1. \A S : SumOf(S) = Total(Amount, S)
  BY DEF SumOf, Total
<1> QED
  BY <1>1 DEF CancelledIsReturned, Settled, Ever, PaidBack, NoneMissed

\* Who found the payment returned is still right, and so is the payment, when
\* what was carried out at some time still was.
LEMMA ReturnedStands ==
  ASSUME RInv, Ever \subseteq Ever', Ever' \subseteq R,
         \A p \in Proc : \A r \in R :
           r \in proc'[p].on /\ proc'[p].covers =>
             \/ r \in proc[p].on /\ proc[p].covers
             \/ Total(Amount, Ever \cup {r}) >= Paid,
         pay' = "cancelled" => pay = "cancelled" \/ Total(Amount, Ever') >= Paid
  PROVE  CoversStands' /\ PaidBack'
<1>b. TypeOK /\ CoversStands /\ Ever \in SUBSET R /\ Ever' \in SUBSET R
  BY DEF RInv
<1>1. ASSUME NEW p \in Proc, NEW r \in R, r \in proc'[p].on, proc'[p].covers
      PROVE  Total(Amount, Ever' \cup {r}) >= Paid
  <2>1. Total(Amount, Ever \cup {r}) >= Paid
    BY <1>1, <1>b DEF CoversStands
  <2> QED
    BY <2>1, <1>b, SettledGrows, Ever \cup {r} \subseteq Ever' \cup {r}
<1>2. ASSUME pay' = "cancelled"
      PROVE  Total(Amount, Ever') >= Paid
  <2>1. CASE pay = "cancelled"
    <3>1. Total(Amount, Ever) >= Paid
      BY <2>1, CancelledInTotals DEF RInv, PaidBack
    <3> QED
      BY <3>1, <1>b, SettledGrows
  <2> QED
    BY <2>1, <1>2
<1> QED
  BY <1>1, <1>2 DEF CoversStands, PaidBack

\* Nothing more settles, so nobody misses anything.
LEMMA NothingMissed ==
  ASSUME RInv, together' = together, Settled' \subseteq Settled, pay' = pay,
         \A p \in Proc : proc'[p].step = "settled" =>
           proc[p].step = "settled" /\ proc'[p].on = proc[p].on /\ proc'[p].covers = proc[p].covers
  PROVE  CoversAll' /\ NoneMissed'
<1>a. TypeOK /\ CoversAll /\ Settled \in SUBSET R /\ Settled' \in SUBSET R
  BY DEF RInv, Settled
<1>1. ASSUME NEW p \in Proc, NEW r \in R, ~together', proc'[p].on = {r}, proc'[p].step = "settled",
             Total(Amount, Settled' \cup {r}) >= Paid
      PROVE  proc'[p].covers
  <2>1. Total(Amount, Settled \cup {r}) >= Paid
    BY <1>1, <1>a, SettledGrows, Settled' \cup {r} \subseteq Settled \cup {r}
  <2> QED
    BY <1>1, <1>a, <2>1 DEF CoversAll
<1>2. ASSUME ~together', Total(Amount, Settled') >= Paid PROVE pay' = "cancelled"
  <2>1. Total(Amount, Settled) >= Paid
    BY <1>2, <1>a, SettledGrows
  <2> QED
    BY <2>1, <1>2, CancelledInTotals DEF RInv, NoneMissed
<1>3. CoversAll'
  BY <1>1, <1>a DEF CoversAll
<1> QED
  BY <1>2, <1>3 DEF NoneMissed

\* Transaction p goes on with its refund, or begins with it, up to step s.
GoesOn(p, r, s) ==
  /\ proc' \in [Proc -> [on : SUBSET R, covers : BOOLEAN,
                 step : {"idle", "calling", "SUCCEEDED", "REQUESTED", "FAILED", "settled"}]]
  /\ proc'[p].on = {r} /\ proc'[p].step = s
  /\ \A q \in Proc : q # p => proc'[q] = proc[q]
  /\ UNCHANGED <<faults, method, pay, status, attempts, retrying, reopened, overlapping>>

LEMMA BeginGoesOn ==
  ASSUME RInv, NEW p \in Proc, NEW r \in R, Begin(p, r)
  PROVE  /\ GoesOn(p, r, IF method = "pg" THEN "calling" ELSE "SUCCEEDED")
         /\ ~proc'[p].covers /\ status[r] = "requested"
<1> DEFINE s == IF method = "pg" THEN "calling" ELSE "SUCCEEDED"
           x == [on |-> {r}, covers |-> FALSE, step |-> s]
<1>1. s \in {"calling", "SUCCEEDED"}
  OBVIOUS
<1> HIDE DEF s
<1>2. /\ proc' = [proc EXCEPT ![p] = x]
      /\ UNCHANGED <<faults, method, pay, status, attempts, retrying, reopened, overlapping>>
  BY DEF Begin, history, s
<1>3. x \in [on : SUBSET R, covers : BOOLEAN,
             step : {"idle", "calling", "SUCCEEDED", "REQUESTED", "FAILED", "settled"}]
  BY <1>1
<1>4. x.on = {r} /\ x.step = s /\ x.covers = FALSE
  OBVIOUS
<1> HIDE DEF x
<1>5. GoesOn(p, r, s) /\ ~proc'[p].covers
  BY <1>2, <1>3, <1>4 DEF GoesOn, RInv, TypeOK
<1>6. status[r] = "requested"
  BY DEF Begin, ByHand, RInv, NoPgByHand
<1> QED
  BY <1>5, <1>6 DEF s

LEMMA BeginKeeps ==
  ASSUME RInv, NEW p \in Proc, NEW r \in R, Begin(p, r)
  PROVE  RInv'
<1> DEFINE s == IF method = "pg" THEN "calling" ELSE "SUCCEEDED"
<1>0. /\ GoesOn(p, r, s) /\ ~proc'[p].covers /\ status[r] = "requested"
      /\ proc[p] = Idle /\ Unlocked(r) /\ UNCHANGED <<sent, unrecorded, together>>
  BY BeginGoesOn DEF Begin, history
<1>s. s \in {"calling", "SUCCEEDED"} /\ (method = "bank_transfer" => s = "SUCCEEDED") /\ (method = "pg" => s = "calling")
  BY DEF RInv, TypeOK
<1> HIDE DEF s
<1> USE <1>0, <1>s DEF RInv, GoesOn, Unlocked
<1>1. TypeOK'
  BY DEF TypeOK
<1>2. OneRowEach'
  <2>1. \A q \in Proc : proc'[q] = Idle \/ \E x \in R : proc'[q].on = {x} /\ proc'[q].step # "idle"
    BY DEF OneRowEach
  <2>2. \A q, o \in Proc : \A x \in R : x \in proc'[q].on /\ x \in proc'[o].on => q = o
    BY DEF OneRowEach
  <2> QED
    BY <2>1, <2>2 DEF OneRowEach, Idle
<1>3. HeldIsOpen' /\ RetriedHasFailed'
  BY DEF TypeOK, HeldIsOpen, RetriedHasFailed
<1>4. NoPgByHand'
  BY DEF TypeOK, NoPgByHand
<1>5. Accounts' /\ CauseKnown'
  <2>1. ~Recording(r)
    BY DEF Recording
  <2>2. ~Recording(r)' \/ method # "pg"
    BY DEF Recording
  <2>3. \A x \in R : x # r => (Recording(x)' <=> Recording(x))
    BY DEF Recording, Idle
  <2> QED
    BY <2>1, <2>2, <2>3 DEF Accounts, CauseKnown
<1>6. Settled' = Settled /\ Ever' = Ever /\ Ever \subseteq R
  BY DEF TypeOK, Settled, Ever
<1>7. CoversStands' /\ CoversAll' /\ CancelledIsReturned'
  <2>1. \A q \in Proc : proc'[q].step = "settled" =>
          proc[q].step = "settled" /\ proc'[q].on = proc[q].on /\ proc'[q].covers = proc[q].covers
    OBVIOUS
  <2>2. CoversStands' /\ PaidBack'
    BY <1>6, ReturnedStands
  <2> QED
    BY <1>6, <2>1, <2>2, NothingMissed, CancelledInTotals
<1> QED
  BY <1>1, <1>2, <1>3, <1>4, <1>5, <1>7

LEMMA CancelKeeps ==
  ASSUME RInv, NEW p \in Proc, NEW r \in R, Cancel(p, r)
  PROVE  RInv'
<1>0. /\ proc[p].on = {r} /\ proc[p].step = "calling"
      /\ status[r] = "requested" /\ sent[r] \in Nat
  BY DEF Cancel, RInv, HeldIsOpen, TypeOK
<1>a. \E s \in {"SUCCEEDED", "REQUESTED", "FAILED"} :
        /\ proc' = [proc EXCEPT ![p].step = s]
        /\ \/ sent' = [sent EXCEPT ![r] = @ + 1] /\ s = "SUCCEEDED" /\ unrecorded' = unrecorded
           \/ /\ sent' = [sent EXCEPT ![r] = @ + 1] /\ s # "SUCCEEDED" /\ faults # {}
              /\ unrecorded' = [unrecorded EXCEPT ![r] = @ + 1]
           \/ s = "FAILED" /\ sent' = sent /\ unrecorded' = unrecorded
  BY DEF Cancel, Answered, Missed
<1>b. PICK s \in {"SUCCEEDED", "REQUESTED", "FAILED"} :
        /\ proc' = [proc EXCEPT ![p].step = s]
        /\ \/ sent' = [sent EXCEPT ![r] = @ + 1] /\ s = "SUCCEEDED" /\ unrecorded' = unrecorded
           \/ /\ sent' = [sent EXCEPT ![r] = @ + 1] /\ s # "SUCCEEDED" /\ faults # {}
              /\ unrecorded' = [unrecorded EXCEPT ![r] = @ + 1]
           \/ s = "FAILED" /\ sent' = sent /\ unrecorded' = unrecorded
  BY <1>a
<1>c. GoesOn(p, r, s) /\ proc'[p].covers = proc[p].covers /\ together' = together
  BY <1>0, <1>b DEF RInv, TypeOK, GoesOn, Cancel
<1>d. /\ sent' \in [R -> Nat] /\ \A x \in R : x # r => sent'[x] = sent[x]
      /\ unrecorded' \in [R -> Nat] /\ \A x \in R : x # r => unrecorded'[x] = unrecorded[x]
  BY <1>b DEF RInv, TypeOK
<1>e. /\ sent'[r] - unrecorded'[r] = sent[r] - unrecorded[r] + (IF s = "SUCCEEDED" THEN 1 ELSE 0)
      /\ faults = {} => unrecorded'[r] = unrecorded[r]
  <2>1. sent[r] \in Nat /\ unrecorded[r] \in Nat /\ sent \in [R -> Nat] /\ unrecorded \in [R -> Nat]
    BY DEF RInv, TypeOK
  <2>2. CASE s = "SUCCEEDED" /\ sent' = [sent EXCEPT ![r] = @ + 1] /\ unrecorded' = unrecorded
    BY <2>1, <2>2
  <2>3. CASE /\ sent' = [sent EXCEPT ![r] = @ + 1] /\ s # "SUCCEEDED" /\ faults # {}
             /\ unrecorded' = [unrecorded EXCEPT ![r] = @ + 1]
    BY <2>1, <2>3
  <2>4. CASE s = "FAILED" /\ sent' = sent /\ unrecorded' = unrecorded
    BY <2>1, <2>4
  <2> QED
    BY <1>b, <2>2, <2>3, <2>4
<1>m. method = "pg"
  BY <1>0 DEF RInv, NoPgByHand, TypeOK
<1>n. ~Recording(r)
  BY <1>0 DEF RInv, OneRowEach, Recording
<1> USE <1>0, <1>c, <1>d, <1>e, <1>m DEF RInv, GoesOn
<1>1. TypeOK'
  BY DEF TypeOK
<1>2. OneRowEach'
  <2>1. \A q \in Proc : proc'[q] = Idle \/ \E x \in R : proc'[q].on = {x} /\ proc'[q].step # "idle"
    BY DEF OneRowEach
  <2>2. \A q, o \in Proc : \A x \in R : x \in proc'[q].on /\ x \in proc'[o].on => q = o
    BY DEF OneRowEach
  <2> QED
    BY <2>1, <2>2 DEF OneRowEach, Idle
<1>3. HeldIsOpen' /\ RetriedHasFailed'
  BY DEF TypeOK, HeldIsOpen, RetriedHasFailed
<1>4. NoPgByHand'
  BY DEF NoPgByHand
<1>r. \A x \in R : x # r => (Recording(x)' <=> Recording(x))
  BY DEF Recording
<1>q. Recording(r)' <=> s = "SUCCEEDED"
  BY <1>n, <1>b DEF Recording
<1>5. Accounts' /\ CauseKnown'
  <2>1. sent[r] = unrecorded[r] /\ unrecorded[r] \in Nat
    BY <1>n DEF Accounts, TypeOK
  <2>2. sent'[r] = unrecorded'[r] + (IF s = "SUCCEEDED" THEN 1 ELSE 0)
    BY <2>1, <1>d, <1>e
  <2> QED
    BY <1>r, <1>q, <2>2 DEF Accounts, CauseKnown
<1>6. Settled' = Settled /\ Ever' = Ever /\ Ever \subseteq R
  BY DEF TypeOK, Settled, Ever
<1>7. CoversStands' /\ CoversAll' /\ CancelledIsReturned'
  <2>1. \A q \in Proc : proc'[q].step = "settled" =>
          proc[q].step = "settled" /\ proc'[q].on = proc[q].on /\ proc'[q].covers = proc[q].covers
    BY <1>b
  <2>2. CoversStands' /\ PaidBack'
    BY <1>6, ReturnedStands
  <2> QED
    BY <1>6, <2>1, <2>2, NothingMissed, CancelledInTotals
<1> QED
  BY <1>1, <1>2, <1>3, <1>4, <1>5, <1>7

LEMMA SettleKeeps ==
  ASSUME RInv, NEW p \in Proc, NEW r \in R, Settle(p, r)
  PROVE  RInv'
<1> DEFINE c == SumOf({q \in R : status[q] = "succeeded"} \cup {r}) >= Paid
<1>b. /\ proc[p].on = {r} /\ proc[p].step = "SUCCEEDED"
      /\ proc' = [proc EXCEPT ![p].step = "settled", ![p].covers = c]
      /\ status[r] = "requested" /\ UNCHANGED <<sent, unrecorded>>
      /\ together' = (together \/ \E q \in Proc \ {p} : proc[q].step = "settled")
  BY DEF Settle, SideBySide, RInv, HeldIsOpen
<1>k. c \in BOOLEAN /\ (c <=> Total(Amount, Settled \cup {r}) >= Paid)
  BY DEF SumOf, Total, Settled
<1> HIDE DEF c
<1>c. GoesOn(p, r, "settled") /\ proc'[p].covers = c
  <2>1. /\ proc[p] \in [on : SUBSET R, covers : BOOLEAN,
                step : {"idle", "calling", "SUCCEEDED", "REQUESTED", "FAILED", "settled"}]
        /\ proc \in [Proc -> [on : SUBSET R, covers : BOOLEAN,
                step : {"idle", "calling", "SUCCEEDED", "REQUESTED", "FAILED", "settled"}]]
    BY DEF RInv, TypeOK
  <2> DEFINE one == [proc EXCEPT ![p].step = "settled"]
             new == [[proc[p] EXCEPT !.step = "settled"] EXCEPT !.covers = c]
  <2>2. proc' = [one EXCEPT ![p].covers = c]
    BY <1>b, Zenon
  <2>3. one[p] = [proc[p] EXCEPT !.step = "settled"] /\ one = [proc EXCEPT ![p] = [proc[p] EXCEPT !.step = "settled"]]
    BY <2>1
  <2>4. proc' = [proc EXCEPT ![p] = new]
    BY <2>1, <2>2, <2>3
  <2>5. /\ new.on = {r} /\ new.step = "settled" /\ new.covers = c
        /\ new \in [on : SUBSET R, covers : BOOLEAN,
                   step : {"idle", "calling", "SUCCEEDED", "REQUESTED", "FAILED", "settled"}]
    BY <1>b, <1>k, <2>1
  <2>6. UNCHANGED <<faults, method, pay, status, attempts, retrying, reopened, overlapping>>
    BY DEF Settle
  <2> HIDE DEF new
  <2> QED
    BY <2>1, <2>4, <2>5, <2>6 DEF GoesOn
<1> USE <1>b, <1>c, <1>k DEF RInv, GoesOn
<1>1. TypeOK'
  BY DEF TypeOK
<1>2. OneRowEach'
  <2>1. \A q \in Proc : proc'[q] = Idle \/ \E x \in R : proc'[q].on = {x} /\ proc'[q].step # "idle"
    BY DEF OneRowEach
  <2>2. \A q, o \in Proc : \A x \in R : x \in proc'[q].on /\ x \in proc'[o].on => q = o
    BY DEF OneRowEach
  <2> QED
    BY <2>1, <2>2 DEF OneRowEach, Idle
<1>3. HeldIsOpen' /\ RetriedHasFailed'
  BY DEF TypeOK, HeldIsOpen, RetriedHasFailed
<1>4. NoPgByHand'
  BY DEF NoPgByHand
<1>r. \A x \in R : Recording(x)' <=> Recording(x)
  BY DEF Recording
<1>5. Accounts' /\ CauseKnown'
  BY <1>r DEF Accounts, CauseKnown
<1>6. Settled' = Settled /\ Ever' = Ever /\ Ever \in SUBSET R /\ Settled \in SUBSET R
  BY DEF TypeOK, Settled, Ever
<1>7. CoversStands' /\ PaidBack'
  <2>1. c => Total(Amount, Ever \cup {r}) >= Paid
    BY <1>6, SettledGrows, Settled \cup {r} \subseteq Ever \cup {r} DEF Ever
  <2> QED
    BY <1>6, <2>1, ReturnedStands
<1>8. CoversAll'
  <2> SUFFICES ASSUME ~together'
               PROVE  CoversAll'
    BY DEF CoversAll
  <2>1. \A q \in Proc : proc'[q].step = "settled" => q = p
    OBVIOUS
  <2> QED
    BY <1>6, <2>1 DEF CoversAll
<1>9. NoneMissed'
  BY <1>6, CancelledInTotals DEF NoneMissed
<1> QED
  BY <1>1, <1>2, <1>3, <1>4, <1>5, <1>7, <1>8, <1>9, CancelledInTotals

LEMMA CommitSucceededKeeps ==
  ASSUME RInv, NEW p \in Proc, NEW r \in R, CommitSucceeded(p, r)
  PROVE  RInv'
<1> USE DEF RInv, CommitSucceeded, Counted, history
<1>1. TypeOK'
  BY CountIsTyped DEF TypeOK, Idle
<1>2. OneRowEach'
  BY DEF TypeOK, OneRowEach, Idle, Unlocked
<1>3. HeldIsOpen'
  BY DEF TypeOK, OneRowEach, HeldIsOpen, Idle, Unlocked
<1>a. RetriedHasFailed'
  <2>1. UNCHANGED <<retrying, overlapping>> /\ RetriedHasFailed
    OBVIOUS
  <2>2. \A x \in R : status[x] = "failed" => status'[x] = "failed"
    BY DEF TypeOK, HeldIsOpen
  <2> QED
    BY <2>1, <2>2 DEF RetriedHasFailed
<1>4. NoPgByHand'
  BY DEF TypeOK, OneRowEach, NoPgByHand, Idle
<1>5. Accounts' /\ CauseKnown'
  <2>1. Recording(r) /\ status[r] = "requested" /\ status'[r] = "succeeded"
    BY DEF TypeOK, HeldIsOpen, Recording
  <2>2. \A x \in R : x # r => (Recording(x)' <=> Recording(x)) /\ status'[x] = status[x]
    BY DEF TypeOK, Recording, Idle
  <2> QED
    BY <2>1, <2>2 DEF Accounts, CauseKnown
<1>6. Settled' = Settled \cup {r} /\ Ever' = Ever \cup {r} /\ Ever \in SUBSET R
  BY DEF Settled, Ever, TypeOK
<1>7. CoversStands' /\ PaidBack'
  <2>1. pay' = "cancelled" => pay = "cancelled" \/ Total(Amount, Ever') >= Paid
    BY <1>6 DEF CoversStands
  <2>2. \A q \in Proc : \A x \in R :
          x \in proc'[q].on /\ proc'[q].covers => x \in proc[q].on /\ proc[q].covers
    BY DEF TypeOK, Idle
  <2> QED
    BY <1>6, <2>1, <2>2, ReturnedStands
<1>8. CoversAll'
  <2> SUFFICES ASSUME ~together'
               PROVE  CoversAll'
    BY DEF CoversAll
  <2>1. \A q \in Proc : proc'[q].step # "settled"
    BY DEF CoversAll, TypeOK, Idle
  <2> QED
    BY <2>1 DEF CoversAll
<1>9. NoneMissed'
  BY <1>6 DEF CoversAll, NoneMissed
<1> QED
  BY <1>1, <1>2, <1>3, <1>a, <1>4, <1>5, <1>7, <1>8, <1>9, CancelledInTotals

LEMMA CommitPendingKeeps ==
  ASSUME RInv, NEW p \in Proc, NEW r \in R, CommitPending(p, r)
  PROVE  RInv'
<1> USE DEF RInv, CommitPending, Counted, history
<1>1. TypeOK'
  BY CountIsTyped DEF TypeOK, Idle
<1>2. OneRowEach'
  BY DEF TypeOK, OneRowEach, Idle, Unlocked
<1>3. HeldIsOpen'
  BY DEF TypeOK, OneRowEach, HeldIsOpen, Idle, Unlocked
<1>a. RetriedHasFailed'
  <2>1. UNCHANGED <<retrying, overlapping>> /\ RetriedHasFailed
    OBVIOUS
  <2>2. \A x \in R : status[x] = "failed" => status'[x] = "failed"
    BY DEF TypeOK, HeldIsOpen
  <2> QED
    BY <2>1, <2>2 DEF RetriedHasFailed
<1>4. NoPgByHand'
  BY DEF TypeOK, OneRowEach, NoPgByHand, Idle
<1>5. Accounts' /\ CauseKnown'
  <2>1. \A x \in R : Recording(x)' <=> Recording(x)
    BY DEF TypeOK, OneRowEach, Recording, Idle
  <2>2. \A x \in R : status'[x] = "succeeded" <=> status[x] = "succeeded"
    BY DEF TypeOK, HeldIsOpen
  <2> QED
    BY <2>1, <2>2 DEF Accounts, CauseKnown
<1>6. Settled' = Settled /\ Ever' = Ever /\ Ever \subseteq R
  BY DEF TypeOK, HeldIsOpen, Settled, Ever
<1>7. CoversStands' /\ CoversAll' /\ CancelledIsReturned'
  <2>1. \A q \in Proc : proc'[q].step = "settled" =>
          proc[q].step = "settled" /\ proc'[q].on = proc[q].on /\ proc'[q].covers = proc[q].covers
    BY DEF TypeOK, Idle
  <2>2. CoversStands' /\ PaidBack'
    BY <1>6, ReturnedStands DEF TypeOK, Idle
  <2> QED
    BY <1>6, <2>1, <2>2, NothingMissed, CancelledInTotals
<1> QED
  BY <1>1, <1>2, <1>3, <1>a, <1>4, <1>5, <1>7

LEMMA CommitFailedKeeps ==
  ASSUME RInv, NEW p \in Proc, NEW r \in R, CommitFailed(p, r)
  PROVE  RInv'
<1> USE DEF RInv, CommitFailed, Counted, history
<1>1. TypeOK'
  BY CountIsTyped DEF TypeOK, Idle
<1>2. OneRowEach'
  BY DEF TypeOK, OneRowEach, Idle, Unlocked
<1>3. HeldIsOpen'
  BY DEF TypeOK, OneRowEach, HeldIsOpen, Idle, Unlocked
<1>a. RetriedHasFailed'
  <2>1. UNCHANGED <<retrying, overlapping>> /\ RetriedHasFailed
    OBVIOUS
  <2>2. \A x \in R : status[x] = "failed" => status'[x] = "failed"
    BY DEF TypeOK, HeldIsOpen
  <2> QED
    BY <2>1, <2>2 DEF RetriedHasFailed
<1>4. NoPgByHand'
  BY DEF TypeOK, OneRowEach, NoPgByHand, Idle
<1>5. Accounts' /\ CauseKnown'
  <2>1. \A x \in R : Recording(x)' <=> Recording(x)
    BY DEF TypeOK, OneRowEach, Recording, Idle
  <2>2. \A x \in R : status'[x] = "succeeded" <=> status[x] = "succeeded"
    BY DEF TypeOK, HeldIsOpen
  <2> QED
    BY <2>1, <2>2 DEF Accounts, CauseKnown
<1>6. Settled' = Settled /\ Ever' = Ever /\ Ever \subseteq R
  BY DEF TypeOK, HeldIsOpen, Settled, Ever
<1>7. CoversStands' /\ CoversAll' /\ CancelledIsReturned'
  <2>1. \A q \in Proc : proc'[q].step = "settled" =>
          proc[q].step = "settled" /\ proc'[q].on = proc[q].on /\ proc'[q].covers = proc[q].covers
    BY DEF TypeOK, Idle
  <2>2. CoversStands' /\ PaidBack'
    BY <1>6, ReturnedStands DEF TypeOK, Idle
  <2> QED
    BY <1>6, <2>1, <2>2, NothingMissed, CancelledInTotals
<1> QED
  BY <1>1, <1>2, <1>3, <1>a, <1>4, <1>5, <1>7

LEMMA CrashKeeps ==
  ASSUME RInv, NEW p \in Proc, NEW r \in R, Crash(p, r)
  PROVE  RInv'
<1>0. /\ proc' = [proc EXCEPT ![p] = Idle] /\ faults # {} /\ proc[p].on = {r}
      /\ UNCHANGED <<faults, method, pay, status, attempts, retrying, sent, reopened, overlapping, together>>
      /\ status[r] = "requested"
  BY DEF Crash, RInv, HeldIsOpen
<1>u. unrecorded' = IF method = "pg" /\ proc[p].step \in {"SUCCEEDED", "settled"}
                    THEN [unrecorded EXCEPT ![r] = @ + 1] ELSE unrecorded
  BY DEF Crash, Missed
<1> USE <1>0 DEF RInv
<1>1. TypeOK'
  <2>1. unrecorded' \in [R -> Nat]
    BY <1>u DEF TypeOK
  <2> QED
    BY <2>1 DEF TypeOK, Idle
<1>2. OneRowEach'
  BY DEF TypeOK, OneRowEach, Idle
<1>3. HeldIsOpen' /\ RetriedHasFailed'
  BY DEF TypeOK, HeldIsOpen, RetriedHasFailed, Idle
<1>4. NoPgByHand'
  BY DEF TypeOK, NoPgByHand, Idle
<1>5. Accounts' /\ CauseKnown'
  <2>1. \A x \in R : x # r => (Recording(x)' <=> Recording(x)) /\ unrecorded'[x] = unrecorded[x]
    BY <1>u DEF TypeOK, Recording, Idle
  <2>2. ~Recording(r)' /\ (Recording(r) <=> proc[p].step \in {"SUCCEEDED", "settled"})
    BY DEF TypeOK, OneRowEach, Recording, Idle
  <2>3. method = "pg" => unrecorded'[r] = unrecorded[r] + (IF Recording(r) THEN 1 ELSE 0)
    BY <1>u, <2>2 DEF TypeOK
  <2> QED
    BY <2>1, <2>2, <2>3 DEF Accounts, CauseKnown, TypeOK
<1>6. Settled' = Settled /\ Ever' = Ever /\ Ever \subseteq R
  BY DEF TypeOK, Settled, Ever
<1>7. CoversStands' /\ CoversAll' /\ CancelledIsReturned'
  <2>1. \A q \in Proc : proc'[q].step = "settled" =>
          proc[q].step = "settled" /\ proc'[q].on = proc[q].on /\ proc'[q].covers = proc[q].covers
    BY DEF TypeOK, Idle
  <2>2. CoversStands' /\ PaidBack'
    BY <1>6, ReturnedStands DEF TypeOK, Idle
  <2> QED
    BY <1>6, <2>1, <2>2, NothingMissed, CancelledInTotals
<1> QED
  BY <1>1, <1>2, <1>3, <1>4, <1>5, <1>7

LEMMA RetryReadKeeps ==
  ASSUME RInv, NEW a \in Admin, NEW r \in R, RetryRead(a, r)
  PROVE  RInv'
<1>0. /\ retrying' = [retrying EXCEPT ![a] = {r}] /\ status[r] = "failed" /\ method = "pg" /\ retrying[a] = {}
      /\ UNCHANGED <<faults, method, pay, status, attempts, proc, sent, unrecorded, reopened, together>>
  BY DEF RetryRead
<1>o. overlapping' = IF Retrying(r) = {} THEN overlapping ELSE overlapping \cup Retrying(r) \cup {a}
  BY DEF RetryRead
<1> USE <1>0 DEF RInv
<1>1. TypeOK'
  BY <1>o DEF TypeOK, Retrying
<1>2. RetriedHasFailed'
  <2>1. \A b \in Admin \ overlapping' : \A x \in R : retrying'[b] = {x} => status'[x] = "failed"
    BY <1>o DEF TypeOK, RetriedHasFailed, Retrying
  <2>2. ASSUME NEW b \in Admin, NEW c \in Admin, NEW x \in R, b # c, retrying'[b] = {x}, retrying'[c] = {x}
        PROVE  b \in overlapping'
    <3>1. CASE b # a /\ c # a
      BY <1>o, <2>2, <3>1 DEF TypeOK, RetriedHasFailed
    <3>2. CASE b = a \/ c = a
      <4>1. x = r /\ Retrying(r) # {} /\ b \in Retrying(r) \cup {a}
        BY <2>2, <3>2 DEF TypeOK, Retrying
      <4> QED
        BY <1>o, <4>1
    <3> QED
      BY <3>1, <3>2
  <2> QED
    BY <2>1, <2>2 DEF RetriedHasFailed
<1>3. OneRowEach' /\ HeldIsOpen' /\ NoPgByHand'
  BY DEF OneRowEach, HeldIsOpen, NoPgByHand
<1>4. Accounts' /\ CauseKnown'
  BY DEF Accounts, CauseKnown, Recording
<1>5. CoversStands' /\ CoversAll' /\ CancelledIsReturned'
  BY DEF CoversStands, CoversAll, CancelledIsReturned, Settled, Ever
<1> QED
  BY <1>1, <1>2, <1>3, <1>4, <1>5

LEMMA RetryWriteKeeps ==
  ASSUME RInv, NEW a \in Admin, NEW r \in R, RetryWrite(a, r)
  PROVE  RInv'
<1>0. /\ status' = [status EXCEPT ![r] = "requested"]
      /\ attempts' = [attempts EXCEPT ![r] = 0]
      /\ retrying' = [retrying EXCEPT ![a] = {}]
      /\ overlapping' = overlapping \ {a}
      /\ UNCHANGED <<faults, method, pay, proc, sent, together>>
      /\ Unlocked(r) /\ retrying[a] = {r}
  BY DEF RetryWrite
<1>u. IF status[r] = "succeeded"
      THEN unrecorded' = [unrecorded EXCEPT ![r] = @ + 1] /\ reopened' = reopened \cup {r}
      ELSE UNCHANGED <<unrecorded, reopened>>
  BY DEF RetryWrite, Missed
<1>m. method = "pg"
  BY <1>0 DEF RInv, NoPgByHand, TypeOK
<1> USE <1>0 DEF RInv
<1>1. TypeOK'
  <2>1. unrecorded' \in [R -> Nat] /\ reopened' \subseteq R
    BY <1>u DEF TypeOK
  <2>2. status' \in [R -> {"requested", "succeeded", "failed"}] /\ attempts' \in [R -> 0..MaxAttempts]
    BY ConstantsAssumption DEF TypeOK
  <2>3. retrying' \in [Admin -> SUBSET R] /\ overlapping' \subseteq Admin
    BY DEF TypeOK
  <2> QED
    BY <2>1, <2>2, <2>3 DEF TypeOK
<1>2. HeldIsOpen' /\ OneRowEach'
  BY DEF HeldIsOpen, OneRowEach, Unlocked, TypeOK
<1>3. RetriedHasFailed'
  <2>1. ASSUME NEW b \in Admin \ overlapping', NEW x \in R, retrying'[b] = {x} PROVE status'[x] = "failed"
    <3>1. b # a /\ b \notin overlapping /\ retrying[b] = {x}
      BY <2>1 DEF TypeOK
    <3>2. x # r
      BY <3>1 DEF RetriedHasFailed
    <3> QED
      BY <3>1, <3>2 DEF RetriedHasFailed, TypeOK
  <2>2. \A b, c \in Admin : \A x \in R :
          b # c /\ retrying'[b] = {x} /\ retrying'[c] = {x} => b \in overlapping'
    BY DEF RetriedHasFailed, TypeOK
  <2> QED
    BY <2>1, <2>2 DEF RetriedHasFailed
<1>4. NoPgByHand'
  BY <1>m DEF NoPgByHand
<1>5. Accounts' /\ CauseKnown'
  <2>1. \A x \in R : Recording(x)' <=> Recording(x)
    BY DEF Recording
  <2>2. ~Recording(r)
    BY DEF Recording, Unlocked
  <2>3. status'[r] = "requested" /\ unrecorded'[r] = unrecorded[r] + (IF status[r] = "succeeded" THEN 1 ELSE 0)
    BY <1>u DEF TypeOK
  <2>4. \A x \in R : x # r => status'[x] = status[x] /\ unrecorded'[x] = unrecorded[x]
    BY <1>u DEF TypeOK
  <2>5. Accounts'
    BY <2>1, <2>2, <2>3, <2>4 DEF Accounts, TypeOK
  <2>6. CauseKnown'
    BY <1>u, <2>4 DEF CauseKnown, TypeOK
  <2> QED
    BY <2>5, <2>6
<1>6. Settled' \subseteq Settled /\ Ever \subseteq Ever' /\ Ever' \subseteq R
  BY <1>u DEF TypeOK, Settled, Ever
<1>7. CoversStands' /\ CoversAll' /\ CancelledIsReturned'
  <2>1. CoversStands' /\ PaidBack'
    BY <1>6, ReturnedStands
  <2> QED
    BY <1>6, <2>1, NothingMissed, CancelledInTotals
<1> QED
  BY <1>1, <1>2, <1>3, <1>4, <1>5, <1>7

-----------------------------------------------------------------------------
\* What is known of the refunds in every state: who holds what, what was sent,
\* what is recorded, who retries what.
THEOREM RefundsInvariance == Spec => []RInv
<1>1. ASSUME Init PROVE RInv
  <2> USE <1>1, ConstantsAssumption DEF Init, Idle
  <2>1. TypeOK
    <3>1. proc \in [Proc -> [on : SUBSET R, covers : BOOLEAN,
                    step : {"idle", "calling", "SUCCEEDED", "REQUESTED", "FAILED", "settled"}]]
      OBVIOUS
    <3>2. attempts \in [R -> 0..MaxAttempts] /\ status \in [R -> {"requested", "succeeded", "failed"}]
      OBVIOUS
    <3>3. sent \in [R -> Nat] /\ unrecorded \in [R -> Nat] /\ retrying \in [Admin -> SUBSET R]
      OBVIOUS
    <3> QED
      BY <3>1, <3>2, <3>3 DEF TypeOK
  <2>2. OneRowEach /\ HeldIsOpen /\ RetriedHasFailed /\ NoPgByHand
    BY DEF OneRowEach, HeldIsOpen, RetriedHasFailed, NoPgByHand
  <2>3. Accounts /\ CauseKnown /\ CoversStands /\ CoversAll
    BY DEF Accounts, CauseKnown, CoversStands, CoversAll, Recording
  <2>4. CancelledIsReturned
    <3>1. Settled = {}
      BY DEF Settled
    <3> QED
      BY <3>1, TotalEmpty, CancelledInTotals DEF PaidBack, NoneMissed
  <2> QED
    BY <2>1, <2>2, <2>3, <2>4 DEF RInv
<1>2. ASSUME RInv, [Next]_vars PROVE RInv'
  <2>1. CASE UNCHANGED vars
    <3>1. /\ UNCHANGED <<faults, method, pay, status, attempts, proc, retrying, sent>>
          /\ UNCHANGED <<unrecorded, reopened, overlapping, together>> /\ RInv
      BY <1>2, <2>1 DEF vars, history
    <3>2. TypeOK' /\ OneRowEach' /\ HeldIsOpen' /\ RetriedHasFailed' /\ NoPgByHand'
      BY <3>1 DEF RInv, TypeOK, OneRowEach, HeldIsOpen, RetriedHasFailed, NoPgByHand
    <3>3. Accounts' /\ CauseKnown'
      BY <3>1 DEF RInv, Accounts, CauseKnown, Recording
    <3>4. CoversStands' /\ CoversAll' /\ CancelledIsReturned'
      BY <3>1 DEF RInv, CoversStands, CoversAll, CancelledIsReturned, Settled, Ever
    <3> QED
      BY <3>2, <3>3, <3>4 DEF RInv
  <2>2. ASSUME NEW p \in Proc, NEW r \in R, Begin(p, r) \/ Crash(p, r) PROVE RInv'
    BY <1>2, <2>2, BeginKeeps, CrashKeeps
  <2>3. ASSUME NEW p \in Proc, Step(p) PROVE RInv'
    BY <1>2, <2>3, CancelKeeps, SettleKeeps, CommitSucceededKeeps, CommitPendingKeeps, CommitFailedKeeps DEF Step
  <2>4. ASSUME NEW a \in Admin, NEW r \in R, RetryRead(a, r) \/ RetryWrite(a, r) PROVE RInv'
    BY <1>2, <2>4, RetryReadKeeps, RetryWriteKeeps
  <2> QED
    BY <1>2, <2>1, <2>2, <2>3, <2>4 DEF Next
<1> QED
  BY <1>1, <1>2, PTL DEF Spec

\* Unless something fails, the PG returns the money of a refund at most once,
\* for any number of transactions and retries side by side, if no retry opened
\* it again after it had succeeded.
THEOREM SentOnce == Spec => []SentOnceIfReliable
<1>1. RInv => SentOnceIfReliable
  <2> SUFFICES ASSUME RInv, faults = {}, NEW r \in R \ reopened PROVE sent[r] <= 1
    BY DEF SentOnceIfReliable
  <2>1. unrecorded[r] = 0 /\ (method = "bank_transfer" => sent[r] = 0)
    BY DEF RInv, CauseKnown, NoPgByHand
  <2> QED
    BY <2>1 DEF RInv, Accounts, TypeOK
<1> QED
  BY <1>1, RefundsInvariance, PTL

\* The records tell what the PG did, up to the returns the database lost sight
\* of, whatever fails and however retries overlap.
THEOREM Recorded == Spec => []RecordedAsSent
<1>1. RInv => RecordedAsSent
  BY DEF RInv, Accounts, RecordedAsSent, Recording, Unlocked
<1> QED
  BY <1>1, RefundsInvariance, PTL

\* A payment reads as cancelled only when all of it was returned, and does so
\* then unless two refunds settled side by side.
THEOREM CancelledReturned == Spec => []CancelledIsReturned
<1>1. RInv => CancelledIsReturned
  BY DEF RInv
<1> QED
  BY <1>1, RefundsInvariance, PTL

\* A refund that was carried out is opened again only by a retry that overlaps
\* another retry of it.
THEOREM SettledStays == Spec => SettledStaysSettled
<1> DEFINE Stays == \A r \in R : status[r] = "succeeded" /\ status'[r] # "succeeded"
                      => \E a \in overlapping : retrying[a] = {r} /\ retrying'[a] = {}
<1>1. RInv /\ [Next]_vars => Stays
  <2> SUFFICES ASSUME RInv, [Next]_vars, NEW x \in R, status[x] = "succeeded", status'[x] # "succeeded"
               PROVE  \E a \in overlapping : retrying[a] = {x} /\ retrying'[a] = {}
    OBVIOUS
  <2>0. status \in [R -> {"requested", "succeeded", "failed"}] /\ retrying \in [Admin -> SUBSET R]
    BY DEF RInv, TypeOK
  <2>1. CASE UNCHANGED vars
    BY <2>1 DEF vars
  <2>2. ASSUME NEW p \in Proc, NEW r \in R,
               \/ Begin(p, r) \/ Crash(p, r) \/ Cancel(p, r) \/ Settle(p, r)
               \/ CommitSucceeded(p, r) \/ CommitPending(p, r)
        PROVE  FALSE
    BY <2>0, <2>2 DEF Begin, Crash, Cancel, Settle, CommitSucceeded, CommitPending
  <2>3. ASSUME NEW p \in Proc, NEW r \in R, CommitFailed(p, r) PROVE FALSE
    <3>1. status[r] = "requested"
      BY <2>3 DEF CommitFailed, RInv, HeldIsOpen
    <3> QED
      BY <2>0, <2>3, <3>1 DEF CommitFailed
  <2>4. ASSUME NEW a \in Admin, NEW r \in R, RetryRead(a, r) \/ RetryWrite(a, r)
        PROVE  \E b \in overlapping : retrying[b] = {x} /\ retrying'[b] = {}
    <3>1. RetryWrite(a, r) /\ r = x
      BY <2>0, <2>4 DEF RetryRead, RetryWrite
    <3>2. retrying[a] = {x} /\ retrying'[a] = {}
      BY <2>0, <3>1 DEF RetryWrite
    <3>3. RetriedHasFailed /\ a \in Admin /\ status[x] # "failed"
      BY DEF RInv
    <3>4. a \in overlapping
      BY <3>2, <3>3 DEF RetriedHasFailed
    <3> QED
      BY <3>2, <3>4
  <2> QED
    BY <2>1, <2>2, <2>3, <2>4 DEF Next, Step
<1> QED
  BY <1>1, RefundsInvariance, PTL DEF Spec, SettledStaysSettled
=============================================================================
