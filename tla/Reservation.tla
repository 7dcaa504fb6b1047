---------------------------- MODULE Reservation -----------------------------
(***************************************************************************)
(* Applications, the time slots they occupy, and every transaction that    *)
(* moves either of them: submission by applicants, payment and deposit     *)
(* confirmation, the review desk, the revision cycle, cancellation, edits, *)
(* deletion, schedule blocks, the Notion import, and the worker's two      *)
(* expiry jobs.  Amounts, PG orders and refunds are in PaymentFlow and     *)
(* RefundQueue.                                                            *)
(*                                                                         *)
(* One action is one database transaction: each of them locks the          *)
(* application row (SELECT ... FOR UPDATE) before it decides.  Three       *)
(* operations are not atomic in the code, and are not here: a submission   *)
(* reads what is busy and inserts in two statements of a READ COMMITTED    *)
(* transaction, and each job selects what is due before it processes it.   *)
(***************************************************************************)
EXTENDS Integers, FiniteSets

CONSTANTS
  App,           \* application identities
  Block,         \* schedule blocks
  Cell,          \* a bookable unit of time of one space
  Ranges,        \* the sets of cells a request can cover (buffers included)
  PgHold,        \* payment.pgHoldMinutes, in clock units
  BankHold,      \* payment.bankTransferHoldHours, in clock units
  RevisionDays,  \* application.revisionDeadlineDays, in clock units
  MaxTime,       \* bound: the clock stops here
  MaxLag         \* bound: how old the time a submission read may be

ASSUME ConstantsAssumption ==
  /\ Ranges \subseteq (SUBSET Cell) \ {{}}
  /\ PgHold \in Nat /\ BankHold \in Nat /\ RevisionDays \in Nat
  /\ MaxTime \in Nat /\ MaxLag \in Nat
  /\ App \cap Block = {}

VARIABLES
  status,    \* applications.status; "none" before submission, "deleted" after erasure
  occ,       \* the application's row of slot_occupancies
  method,    \* payments.method of the application
  pay,       \* payments.status; "paid" once an order of its was paid in full
  imported,  \* applications.import_ref is not null
  deadline,  \* applications.revision_deadline
  block,     \* cells of a schedule block, {} when it does not exist
  tx,        \* a submission between its busy check and its insert
  due,       \* unpaid holds the expiry job selected and has yet to process
  dueRev,    \* revisions the revision job selected and has yet to process
  revAt,     \* the time the revision job took as now
  now        \* the clock

vars == <<status, occ, method, pay, imported, deadline, block, tx, due, dueRev, revAt, now>>

-----------------------------------------------------------------------------
Time == Nat
NoTime == -1

Status == {"none", "pending_payment", "payment_expired", "submitted", "reviewing",
           "revision_requested", "closed_revision_expired", "rejected", "withdrawn",
           "confirmed", "cancel_requested", "cancelled", "completed", "deleted"}

Kind == {"none", "pending_payment", "held", "confirmed"}

Occupancy == [kind : Kind, cells : SUBSET Cell, expires : Time \cup {NoTime}]

NoOcc == [kind |-> "none", cells |-> {}, expires |-> NoTime]

Tx == [open : BOOLEAN, cells : SUBSET Cell, at : Time, lapsed : SUBSET App]

NoTx == [open |-> FALSE, cells |-> {}, at |-> 0, lapsed |-> {}]

\* Mutant: an unpaid application may be taken into review.
CanTransition_Unpaid(s, t) ==
  \/ s = "pending_payment" /\ t \in {"submitted", "payment_expired", "withdrawn", "rejected", "reviewing"}
  \/ s \in {"submitted", "reviewing"} /\ t \in {"reviewing", "revision_requested", "rejected", "confirmed", "withdrawn"}

\* The table of permitted transitions.
CanTransition(s, t) ==
  \/ s = "pending_payment" /\ t \in {"submitted", "payment_expired", "withdrawn", "rejected"}
  \/ s = "submitted" /\ t \in {"reviewing", "revision_requested", "rejected", "confirmed", "withdrawn"}
  \/ s = "reviewing" /\ t \in {"revision_requested", "rejected", "confirmed", "withdrawn"}
  \/ s = "revision_requested" /\ t \in {"reviewing", "rejected", "withdrawn", "closed_revision_expired"}
  \/ s = "confirmed" /\ t \in {"cancel_requested", "cancelled", "completed"}
  \/ s = "completed" /\ t = "confirmed"
  \/ s = "cancel_requested" /\ t \in {"cancelled", "confirmed"}

\* The application exists in the database.
Exists(a) == status[a] \notin {"none", "deleted"}

Init ==
  /\ status = [a \in App |-> "none"]
  /\ occ = [a \in App |-> NoOcc]
  /\ method = [a \in App |-> "none"]
  /\ pay = [a \in App |-> "none"]
  /\ imported = [a \in App |-> FALSE]
  /\ deadline = [a \in App |-> NoTime]
  /\ block = [b \in Block |-> {}]
  /\ tx = [a \in App |-> NoTx]
  /\ due = {}
  /\ dueRev = {}
  /\ revAt = NoTime
  /\ now = 0

-----------------------------------------------------------------------------
(* Which rows the booking queries see.                                     *)

\* Mutant: the bank-transfer exception is left out.
Busy_NoBank(a, t) == occ[a].kind # "none" /\ (occ[a].expires = NoTime \/ occ[a].expires > t)

\* loadBusyIntervals counts this occupancy as busy at time t: it does not
\* expire, or has not yet, or waits for a bank transfer.
Busy(a, t) ==
  /\ occ[a].kind # "none"
  /\ \/ occ[a].expires = NoTime
     \/ occ[a].expires > t
     \/ method[a] = "bank_transfer"

\* Mutant: NOT_BANK_TRANSFER is left out.
Expired_Bank(a, t) ==
  occ[a].kind = "pending_payment" /\ occ[a].expires # NoTime /\ occ[a].expires <= t /\ ~imported[a]

\* The expiry queries select this application at time t.
Expired(a, t) ==
  /\ occ[a].kind = "pending_payment"
  /\ occ[a].expires # NoTime
  /\ occ[a].expires <= t
  /\ ~imported[a]
  /\ method[a] # "bank_transfer"

\* Mutant: holds are cleared away one unit early.
Lapsed_Early(S, t) == {a \in App : Expired(a, t + 1) /\ occ[a].cells \cap S # {}}

\* releaseExpiredOverlapping: what a request for cells S at time t clears away.
Lapsed(S, t) == {a \in App : Expired(a, t) /\ occ[a].cells \cap S # {}}

\* expireOne applied to each application of E.
ExpireStatus(E) ==
  [a \in App |-> IF a \in E /\ status[a] = "pending_payment" THEN "payment_expired" ELSE status[a]]

ExpireOcc(E) ==
  [a \in App |-> IF a \in E /\ occ[a].kind = "pending_payment" THEN NoOcc ELSE occ[a]]

ExpirePay(E) ==
  [a \in App |-> IF a \in E /\ status[a] = "pending_payment" /\ pay[a] = "ready"
                 THEN "cancelled" ELSE pay[a]]

\* Mutant: the constraint is partial, over confirmed bookings only.
NoOverlap_ConfirmedOnly(a, S, o) ==
  /\ \A b \in App \ {a} : o[b].kind = "confirmed" => o[b].cells \cap S = {}
  /\ \A b \in Block : block[b] \cap S = {}

\* The exclusion constraint admits S for owner a beside the occupancies o.
NoOverlap(a, S, o) ==
  /\ \A b \in App \ {a} : o[b].cells \cap S = {}
  /\ \A b \in Block : block[b] \cap S = {}

\* Application rows a submission in progress has updated, hence locked.
Locked == UNION {tx[a].lapsed : a \in App}

\* Mutant: rows are read without FOR UPDATE.
Free_NoLock(a) == a \in App

Free(a) == a \notin Locked
-----------------------------------------------------------------------------
(* Submission.                                                             *)

jobVars == <<due, dueRev, revAt>>

\* The transaction of submitApplication up to its insert: lapsed holds in the
\* way are expired, and nothing busy may remain.  t is the time the request
\* read on arrival.
SubmitCheck(a, S, t) ==
  /\ status[a] = "none" /\ ~tx[a].open
  /\ Lapsed(S, t) \cap Locked = {}
  /\ \A b \in App \ Lapsed(S, t) : Busy(b, t) => occ[b].cells \cap S = {}
  /\ \A b \in Block : block[b] \cap S = {}
  /\ tx' = [tx EXCEPT ![a] = [open |-> TRUE, cells |-> S, at |-> t, lapsed |-> Lapsed(S, t)]]
  /\ UNCHANGED <<status, occ, method, pay, imported, deadline, block, jobVars, now>>

\* A submission the booking rules refuse (overlap, closure, organisation
\* limits) returns normally: its transaction commits, and with it the
\* expiry of the lapsed holds in its way.
SubmitRefused(S, t) ==
  /\ Lapsed(S, t) # {} /\ Lapsed(S, t) \cap Locked = {}
  /\ status' = ExpireStatus(Lapsed(S, t))
  /\ occ' = ExpireOcc(Lapsed(S, t))
  /\ pay' = ExpirePay(Lapsed(S, t))
  /\ UNCHANGED <<method, imported, deadline, block, tx, jobVars, now>>

HoldUntil(m, t) == IF m = "pg" THEN t + PgHold ELSE t + BankHold

\* The insert and the commit.  A price of 0 (method "free") needs no payment.
SubmitInsert(a, m) ==
  LET E == tx[a].lapsed IN
  /\ tx[a].open
  /\ NoOverlap(a, tx[a].cells, ExpireOcc(E))
  /\ status' = [ExpireStatus(E) EXCEPT ![a] = IF m = "free" THEN "submitted" ELSE "pending_payment"]
  /\ occ' = [ExpireOcc(E) EXCEPT ![a] =
               IF m = "free"
               THEN [kind |-> "held", cells |-> tx[a].cells, expires |-> NoTime]
               ELSE [kind |-> "pending_payment", cells |-> tx[a].cells,
                     expires |-> HoldUntil(m, tx[a].at)]]
  /\ pay' = [ExpirePay(E) EXCEPT ![a] = IF m = "free" THEN "paid" ELSE "ready"]
  /\ method' = [method EXCEPT ![a] = m]
  /\ tx' = [tx EXCEPT ![a] = NoTx]
  /\ UNCHANGED <<imported, deadline, block, jobVars, now>>

\* The exclusion constraint refuses the insert (23P01): all is rolled back.
SubmitConflict(a) ==
  /\ tx[a].open
  /\ ~NoOverlap(a, tx[a].cells, ExpireOcc(tx[a].lapsed))
  /\ tx' = [tx EXCEPT ![a] = NoTx]
  /\ UNCHANGED <<status, occ, method, pay, imported, deadline, block, jobVars, now>>

\* One row of the Notion import: an unpaid bank transfer, whose deadline e is
\* the start of its own slot.  It clears nothing away; a row that overlaps
\* is skipped.
ImportNotion(a, S, e) ==
  /\ status[a] = "none" /\ ~tx[a].open
  /\ NoOverlap(a, S, occ)
  /\ status' = [status EXCEPT ![a] = "pending_payment"]
  /\ occ' = [occ EXCEPT ![a] = [kind |-> "pending_payment", cells |-> S, expires |-> e]]
  /\ method' = [method EXCEPT ![a] = "bank_transfer"]
  /\ pay' = [pay EXCEPT ![a] = "ready"]
  /\ imported' = [imported EXCEPT ![a] = TRUE]
  /\ UNCHANGED <<deadline, block, tx, jobVars, now>>

-----------------------------------------------------------------------------
(* Money arrives.                                                          *)

\* The unpaid hold becomes a slot without a deadline.
Keep(a, k) == [occ EXCEPT ![a] = [kind |-> k, cells |-> occ[a].cells, expires |-> NoTime]]

\* Mutant: a payment is applied whatever became of the application.
ConfirmPayment_Late(a) ==
  /\ Free(a) /\ Exists(a) /\ method[a] = "pg" /\ pay[a] # "paid"
  /\ pay' = [pay EXCEPT ![a] = "paid"]
  /\ status' = [status EXCEPT ![a] = "submitted"]
  /\ occ' = Keep(a, "held")
  /\ UNCHANGED <<method, imported, deadline, block, tx, jobVars, now>>

\* confirmPayment on an order the PG reports PAID in the right amount.  With
\* the unpaid hold still there the application is received; otherwise the
\* payment is recorded and refunded.
ConfirmPayment(a) ==
  LET onTime == status[a] = "pending_payment" /\ occ[a].kind = "pending_payment" IN
  /\ Free(a) /\ Exists(a) /\ method[a] = "pg" /\ pay[a] # "paid"
  /\ pay' = [pay EXCEPT ![a] = "paid"]
  /\ status' = IF onTime THEN [status EXCEPT ![a] = "submitted"] ELSE status
  /\ occ' = IF onTime THEN Keep(a, "held") ELSE occ
  /\ UNCHANGED <<method, imported, deadline, block, tx, jobVars, now>>

\* confirmDeposit, with or without "입금 확인과 함께 승인".
ConfirmDeposit(a, approve) ==
  /\ Free(a) /\ method[a] = "bank_transfer" /\ pay[a] = "ready"
  /\ occ[a].kind = "pending_payment"
  /\ CanTransition(status[a], "submitted")
  /\ pay' = [pay EXCEPT ![a] = "paid"]
  /\ status' = [status EXCEPT ![a] = IF approve THEN "confirmed" ELSE "submitted"]
  /\ occ' = Keep(a, IF approve THEN "confirmed" ELSE "held")
  /\ UNCHANGED <<method, imported, deadline, block, tx, jobVars, now>>

-----------------------------------------------------------------------------
(* The review desk.                                                        *)

\* transition() alone: the slot stays as it is.
Move(a, t) ==
  /\ Free(a) /\ CanTransition(status[a], t)
  /\ status' = [status EXCEPT ![a] = t]

\* Mutant: the slot is not opened again.
Release_KeepsSlot(a, t) == Move(a, t) /\ UNCHANGED occ

\* transition() to t and the slot is opened again.
Release(a, t) ==
  /\ Move(a, t)
  /\ occ' = [occ EXCEPT ![a] = NoOcc]

StartReview(a) ==
  /\ Move(a, "reviewing")
  /\ UNCHANGED <<occ, method, pay, imported, deadline, block, tx, jobVars, now>>

RequestRevision(a) ==
  /\ Move(a, "revision_requested")
  /\ deadline' = [deadline EXCEPT ![a] = now + RevisionDays]
  /\ UNCHANGED <<occ, method, pay, imported, block, tx, jobVars, now>>

\* Also of an unpaid application; its ready payment is left as it is.
RejectApplication(a) ==
  /\ Release(a, "rejected")
  /\ UNCHANGED <<method, pay, imported, deadline, block, tx, jobVars, now>>

ApproveApplication(a) ==
  /\ Move(a, "confirmed") /\ occ[a].kind = "held"
  /\ occ' = [occ EXCEPT ![a].kind = "confirmed"]
  /\ UNCHANGED <<method, pay, imported, deadline, block, tx, jobVars, now>>

\* The page offers cancellation and completion for these statuses only.
Managed == {"confirmed", "cancel_requested", "completed"}

CancelConfirmed(a) ==
  /\ status[a] \in {"confirmed", "cancel_requested"}
  /\ Release(a, "cancelled")
  /\ UNCHANGED <<method, pay, imported, deadline, block, tx, jobVars, now>>

SetCompleted(a, completed) ==
  /\ status[a] \in Managed
  /\ Move(a, IF completed THEN "completed" ELSE "confirmed")
  /\ UNCHANGED <<occ, method, pay, imported, deadline, block, tx, jobVars, now>>

-----------------------------------------------------------------------------
(* The applicant, the administrator's corrections, and schedule blocks.    *)

\* Withdrawal: of an unpaid application the ready payment is cancelled too.
Withdraw(a) ==
  /\ Release(a, "withdrawn")
  /\ pay' = IF status[a] = "pending_payment" /\ pay[a] = "ready"
            THEN [pay EXCEPT ![a] = "cancelled"] ELSE pay
  /\ UNCHANGED <<method, imported, deadline, block, tx, jobVars, now>>

\* The revision deadline is not looked at.
SubmitRevision(a) ==
  /\ status[a] = "revision_requested"
  /\ Move(a, "reviewing")
  /\ UNCHANGED <<occ, method, pay, imported, deadline, block, tx, jobVars, now>>

Active == {"pending_payment", "submitted", "reviewing", "revision_requested",
           "confirmed", "cancel_requested"}

\* updateApplicationByAdmin moving the application to cells S: lapsed holds in
\* the way are expired first.  When that expires the application's own hold,
\* or S is taken, everything is rolled back.
AdminMove(a, S) ==
  LET E == Lapsed(S, now) IN
  /\ Free(a) /\ status[a] \in Active
  /\ E \cap Locked = {}
  /\ ExpireOcc(E)[a].kind # "none"
  /\ NoOverlap(a, S, ExpireOcc(E))
  /\ status' = ExpireStatus(E)
  /\ pay' = ExpirePay(E)
  /\ occ' = [ExpireOcc(E) EXCEPT ![a].cells = S]
  /\ UNCHANGED <<method, imported, deadline, block, tx, jobVars, now>>

\* deleteApplication, in any status: payments, refunds and the slot go with it.
DeleteApplication(a) ==
  /\ Free(a) /\ Exists(a)
  /\ status' = [status EXCEPT ![a] = "deleted"]
  /\ occ' = [occ EXCEPT ![a] = NoOcc]
  /\ method' = [method EXCEPT ![a] = "none"]
  /\ pay' = [pay EXCEPT ![a] = "none"]
  /\ imported' = [imported EXCEPT ![a] = FALSE]
  /\ deadline' = [deadline EXCEPT ![a] = NoTime]
  /\ UNCHANGED <<block, tx, jobVars, now>>

\* A block is refused when it meets any occupancy, lapsed ones included.
CreateBlock(b, S) ==
  /\ block[b] = {}
  /\ NoOverlap(b, S, occ)
  /\ block' = [block EXCEPT ![b] = S]
  /\ UNCHANGED <<status, occ, method, pay, imported, deadline, tx, jobVars, now>>

DeleteBlock(b) ==
  /\ block[b] # {}
  /\ block' = [block EXCEPT ![b] = {}]
  /\ UNCHANGED <<status, occ, method, pay, imported, deadline, tx, jobVars, now>>

-----------------------------------------------------------------------------
(* The worker and the clock.                                               *)

\* Mutant: a hold at its very deadline is never due.
SelectDue_Strict ==
  /\ due = {} /\ \E a \in App : Expired(a, now - 1)
  /\ due' = {a \in App : Expired(a, now - 1)}
  /\ UNCHANGED <<status, occ, method, pay, imported, deadline, block, tx, dueRev, revAt, now>>

\* expirePendingApplications selects what is due ...
SelectDue ==
  /\ due = {} /\ \E a \in App : Expired(a, now)
  /\ due' = {a \in App : Expired(a, now)}
  /\ UNCHANGED <<status, occ, method, pay, imported, deadline, block, tx, dueRev, revAt, now>>

\* ... and expires it one by one, without looking at the hold's time again.
ExpireDue(a) ==
  /\ a \in due /\ Free(a)
  /\ due' = due \ {a}
  /\ status' = ExpireStatus({a})
  /\ occ' = ExpireOcc({a})
  /\ pay' = ExpirePay({a})
  /\ UNCHANGED <<method, imported, deadline, block, tx, dueRev, revAt, now>>

\* FOR UPDATE SKIP LOCKED: a row someone holds waits for the next run.
SkipLocked(a) ==
  /\ a \in due /\ ~Free(a)
  /\ due' = due \ {a}
  /\ UNCHANGED <<status, occ, method, pay, imported, deadline, block, tx, dueRev, revAt, now>>

Overdue(a, t) ==
  /\ status[a] = "revision_requested"
  /\ deadline[a] # NoTime /\ deadline[a] <= t

\* Mutant: a revision at its very deadline is never due.
SelectOverdue_Strict ==
  /\ dueRev = {} /\ \E a \in App : Overdue(a, now - 1)
  /\ dueRev' = {a \in App : Overdue(a, now - 1)}
  /\ revAt' = now
  /\ UNCHANGED <<status, occ, method, pay, imported, deadline, block, tx, due, now>>

\* expireRevisions, likewise; it does check again under the lock.
SelectOverdue ==
  /\ dueRev = {} /\ \E a \in App : Overdue(a, now)
  /\ dueRev' = {a \in App : Overdue(a, now)}
  /\ revAt' = now
  /\ UNCHANGED <<status, occ, method, pay, imported, deadline, block, tx, due, now>>

\* Mutant: under the lock only the status is checked again.
ExpireRevision_StatusOnly(a) ==
  /\ a \in dueRev /\ Free(a)
  /\ dueRev' = dueRev \ {a}
  /\ status' = IF status[a] = "revision_requested"
               THEN [status EXCEPT ![a] = "closed_revision_expired"] ELSE status
  /\ occ' = IF status[a] = "revision_requested" THEN [occ EXCEPT ![a] = NoOcc] ELSE occ
  /\ UNCHANGED <<method, pay, imported, deadline, block, tx, due, revAt, now>>

ExpireRevision(a) ==
  /\ a \in dueRev /\ Free(a)
  /\ dueRev' = dueRev \ {a}
  /\ status' = IF Overdue(a, revAt) THEN [status EXCEPT ![a] = "closed_revision_expired"] ELSE status
  /\ occ' = IF Overdue(a, revAt) THEN [occ EXCEPT ![a] = NoOcc] ELSE occ
  /\ UNCHANGED <<method, pay, imported, deadline, block, tx, due, revAt, now>>

Tick ==
  /\ now < MaxTime
  /\ now' = now + 1
  /\ UNCHANGED <<status, occ, method, pay, imported, deadline, block, tx, jobVars>>

-----------------------------------------------------------------------------
RecentTimes == {t \in 0..MaxTime : now - MaxLag <= t /\ t <= now}

Submission ==
  \/ \E a \in App, S \in Ranges, t \in RecentTimes : SubmitCheck(a, S, t)
  \/ \E S \in Ranges, t \in RecentTimes : SubmitRefused(S, t)
  \/ \E a \in App, m \in {"pg", "bank_transfer", "free"} : SubmitInsert(a, m)
  \/ \E a \in App : SubmitConflict(a)
  \/ \E a \in App, S \in Ranges, e \in 0..MaxTime : ImportNotion(a, S, e)

\* From the applicant's page of the application.
Applicant(a) == Withdraw(a) \/ SubmitRevision(a)

Desk(a) ==
  \/ ConfirmPayment(a)
  \/ \E approve \in BOOLEAN : ConfirmDeposit(a, approve)
  \/ StartReview(a) \/ RequestRevision(a) \/ RejectApplication(a) \/ ApproveApplication(a)
  \/ CancelConfirmed(a)
  \/ \E completed \in BOOLEAN : SetCompleted(a, completed)
  \/ Applicant(a)
  \/ \E S \in Ranges : AdminMove(a, S)
  \/ DeleteApplication(a)

Blocks ==
  \/ \E b \in Block, S \in Ranges : CreateBlock(b, S)
  \/ \E b \in Block : DeleteBlock(b)

Worker ==
  \/ SelectDue \/ SelectOverdue
  \/ \E a \in App : ExpireDue(a) \/ SkipLocked(a) \/ ExpireRevision(a)

Next ==
  \/ Submission
  \/ \E a \in App : Desk(a)
  \/ Blocks
  \/ Worker
  \/ Tick

Spec == Init /\ [][Next]_vars

\* The jobs run every 1 and every 10 minutes, for ever, and finish what they
\* select; a submission that holds locks commits or rolls back; and, as a
\* submission takes milliseconds, again and again the expiry job starts while
\* none is under way.  Nothing obliges an applicant or an administrator to act.
Fairness ==
  /\ \A a \in App :
       /\ WF_vars((\E m \in {"pg", "bank_transfer", "free"} : SubmitInsert(a, m)) \/ SubmitConflict(a))
       /\ SF_vars(ExpireDue(a))
       /\ WF_vars(SkipLocked(a))
       /\ SF_vars(ExpireRevision(a))
  /\ SF_vars(SelectDue /\ Locked = {})
  /\ WF_vars(SelectOverdue)

FairSpec == Spec /\ Fairness

-----------------------------------------------------------------------------
(* Properties.                                                             *)

\* Every variable has its type.
TypeOK ==
  /\ status \in [App -> Status]
  /\ occ \in [App -> Occupancy]
  /\ method \in [App -> {"none", "pg", "bank_transfer", "free"}]
  /\ pay \in [App -> {"none", "ready", "paid", "cancelled"}]
  /\ imported \in [App -> BOOLEAN]
  /\ deadline \in [App -> Time \cup {NoTime}]
  /\ block \in [Block -> SUBSET Cell]
  /\ tx \in [App -> Tx]
  /\ due \subseteq App /\ dueRev \subseteq App
  /\ revAt \in Time \cup {NoTime}
  /\ now \in Time

\* No cell belongs to two of: the applications and the schedule blocks.  The
\* submission checks what is busy and inserts later, lapsed holds are cleared
\* by whoever meets them, and administrators move and block slots meanwhile.
NoDoubleBooking ==
  /\ \A a, b \in App : a # b => occ[a].cells \cap occ[b].cells = {}
  /\ \A a \in App, b \in Block : occ[a].cells \cap block[b] = {}
  /\ \A b, c \in Block : b # c => block[b] \cap block[c] = {}

UnderReview == {"submitted", "reviewing", "revision_requested"}

\* An application of status s has the slot o that s calls for: an unpaid hold
\* with a deadline, a paid hold, a confirmed booking, or nothing.
Matches(s, o) ==
  /\ s = "pending_payment" <=> o.kind = "pending_payment"
  /\ s \in UnderReview <=> o.kind = "held"
  /\ s \in Managed <=> o.kind = "confirmed"
  /\ o.kind = "none" <=> o.cells = {}
  /\ o.kind = "pending_payment" <=> o.expires # NoTime

\* Status and occupancy, two tables that some fifteen transactions write, never
\* get out of step.
SlotMatchesStatus == \A a \in App : Matches(status[a], occ[a])

\* A row the calendar does not show as busy is one that the next submission
\* (at any time from now on) or the worker will clear away: no slot is shown
\* free for ever while the exclusion constraint refuses every insert into it.
\* The two conditions are written in different files.
ShownFreeIsBookable ==
  \A a \in App : occ[a].kind # "none" /\ ~Busy(a, now) => Expired(a, now)

\* Nobody is on the review desk, or confirmed, without having paid.
MoneyBeforeReview ==
  \A a \in App : status[a] \in UnderReview \cup Managed => pay[a] = "paid"

\* A submission between its check and its insert is of an application that does
\* not exist yet, for cells that a request can cover.
OpenTxIsNew ==
  \A a \in App : tx[a].open => status[a] = "none" /\ tx[a].cells \in Ranges

\* Rows a submission has expired but not committed stay as it found them, so
\* that its commit takes a slot only from holds that have lapsed.
LapsedStaysLapsed ==
  \A a, b \in App :
    b \in tx[a].lapsed => Expired(b, now) /\ status[b] = "pending_payment" /\ pay[b] # "paid"

\* Only an unpaid PG hold whose time is over is expired automatically.  The
\* job selects first and expires later, without looking at the deadline again.
ExpiryIsDeserved ==
  [][\A a \in App :
       status'[a] = "payment_expired" /\ status[a] # "payment_expired"
         => /\ status[a] = "pending_payment" /\ method[a] = "pg"
            /\ ~imported[a] /\ pay[a] # "paid"
            /\ occ[a].expires <= now]_vars

\* The revision job closes an application only while a revision is due of it
\* and the deadline it now has is over: one answered, or given a new deadline,
\* between the job's select and its lock is left alone.
ClosureIsDeserved ==
  [][\A a \in App :
       status'[a] = "closed_revision_expired" /\ status[a] # "closed_revision_expired"
         => status[a] = "revision_requested" /\ deadline[a] <= now]_vars

Final == {"payment_expired", "closed_revision_expired", "rejected", "withdrawn", "cancelled"}

\* An application that ended never comes back and never holds a slot again:
\* not by a late payment or deposit, not by a job working from an old list.
FinalIsFinal ==
  [][\A a \in App :
       status[a] \in Final => status'[a] \in {status[a], "deleted"} /\ occ'[a].cells = {}]_vars

\* The abstract promise: claims never overlap, and a slot changes hands only
\* by a release or from a lapsed unpaid hold.
Ledger == INSTANCE SlotLedger WITH
  Owner <- App \cup Block,
  claim <- [o \in App \cup Block |-> IF o \in App THEN occ[o].cells ELSE block[o]],
  soft  <- {a \in App : Expired(a, now)}

LedgerSpec == Ledger!Spec

\* An unpaid PG hold whose time is over does not stand for ever.
LapsedHoldGoes == \A a \in App : Expired(a, now) ~> ~Expired(a, now)

\* A revision that is overdue is closed, answered or decided.
OverdueRevisionEnds == \A a \in App : Overdue(a, now) ~> ~Overdue(a, now)
=============================================================================
