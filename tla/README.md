# Verification of the space-rental service

The repository is a web service that rents out the rooms of a memorial hall:
visitors apply for a slot, pay online or by bank transfer, administrators review,
correct, cancel and refund, and a separate worker process runs periodic jobs.
It is TypeScript on PostgreSQL; almost all that can go wrong lies in how some
fifteen transactions of three kinds of actor (visitors, administrators, jobs)
meet in the same rows, and in the payment gateway (PG) outside.

This directory holds TLA+ models of that core, TLC configurations that check
them on small instances, and TLAPS proofs of the central safety properties.
`PROJECT.json` maps each definition to the lines it models.

## Inventory

| Component | State it keeps | Operations | What is hard |
|---|---|---|---|
| Booking (`src/server/booking`) | `applications`, `slot_occupancies`, `organizations` | submit, availability, expiry of unpaid holds | check-then-insert against an exclusion constraint; lapsed holds cleared by whoever meets them; stale request time; limits counted under an advisory lock |
| Applications (`src/server/applications`) | `applications.status`, history, slots | review, revision, approval, deposit, withdrawal, cancellation, completion, edit, discount, deletion | fourteen statuses, three tables to keep in step, jobs that work from old lists |
| Payments (`src/server/payments`) | `payments`, `refunds`; the PG's own records | checkout, confirm, reconcile, create, process, retry and complete refunds | PG calls outside (confirm) and inside (refund) transactions; webhook, browser and job confirming together |
| Calendar (`src/server/calendar`, `src/domain/calendar`) | blocks, closures, booking windows | create and delete; evaluation | blocks share the exclusion constraint with bookings; rules of four priorities, for one space or all |
| Rules (`src/domain/booking`) and offers (`availability.ts`, `booking-picker.tsx`) | none | check a time; list the times to offer | two computations of the same thing, at boundaries |
| Pricing (`src/server/pricing`, `src/domain/pricing`) | fee schedules, discount rules, price snapshots | quote, reprice pending applications | a price recalculated by four callers from different snapshots |
| Settings (`src/server/settings`, `src/domain/settings`) | append-only versions with effective times | save, schedule, cancel, restore | which version is in force; the clock read before the lock; cancelling writes an old value back |
| Notifications (`src/server/notifications`) | message queue | enqueue, flush, retry, remind | flushes side by side, duplicates after a crash, attempts used up |
| Accounts (`src/server/auth`) | administrators, grades, sessions, one-time codes, reset links | log in, enrol, manage, recover | one chief must remain; a code or a link must not work twice |
| Applicant access (`src/server/applicant`) | codes sent by mail | ask, verify | `FOR UPDATE LIMIT 1` under concurrency |
| Attachments (`booking/attachments.ts`, `src/server/storage`) | rows and files | upload, remove, purge, attach | no transaction covers both |
| Import (`src/server/import`) | references of imported applications | Notion import | run again after both sides changed; rows no job may expire |
| Apply pages (`src/app/(public)/apply`) | picker, form | choose, quote, submit | answers that overtake each other |
| Worker (`src/server/jobs`) | pg-boss schedules | eleven jobs | they race the web processes and are retried |
| Audit log, photos, statistics, queries, rate limits, other pages | - | - | no interacting state of their own |

What makes each correct: *booking* never sells a cell twice, never shows a cell
free that nobody can book, and keeps the limits of an organisation;
*applications* keep status, slot and money in step and never come back from an
end; *payments* accept an application only for money that is there, and return
whatever cannot be kept, once; *prices* are what one calculation would give;
*offers* are exactly what the server accepts; *jobs* act only on what is still
due; *settings* never rewrite the past and agree with each other;
*notifications* are sent or given up, and repeated only by faults; *accounts*
always leave one chief; *codes and links* are spent by use; *files* outlive their
rows; an *import* brings a page once.

## Modules

| Module | What it is |
|---|---|
| `SlotLedger` | abstract promise of the calendar: claims never overlap, and a claim ends by a release or, when it is lapsed, by being displaced |
| `Reservation` | applications, slots, payment status, blocks, the submission transaction, review desk, import, expiry and revision jobs |
| `ReservationProofs` | TLAPS: its inductive invariants, every safety and action property, and that it implements `SlotLedger` |
| `PaymentFlow` | the money of one application: several orders, the PG, concurrent confirmations, discounts, refunds |
| `RefundQueue` | the refunds of one payment: `processRefund` step by step, retry, faults |
| `ApplicationPrice` | the price of one application: `calculate.ts` and everything that writes the snapshot, the total and the amount due |
| `Policies` | versions of settings and fee schedules, and the repricing runs a new schedule starts |
| `OrgLimits` | the two limits of an organisation, counted in overlapping submissions |
| `NotionImport` | extends it by the import, run again and again |
| `NotificationQueue` | the e-mail queue, its flushes, reminders and faults |
| `AdminAccounts` | administrators and grades under overlapping requests |
| `AdminLogin` | sessions, second factor and reset links of one account |
| `AdministrationProofs` | TLAPS: a chief remains, a grade in use exists; of `AdminLogin`, codes and links work once; of `Policies`, its safety and action properties |
| `NotificationProofs` | TLAPS: reminders, and messages sent twice |
| `IntakeProofs` | TLAPS: the limits of organisations, and imports |
| `RefundQueueProofs`, `PaymentFlowProofs` | TLAPS: refunds are sent once and recorded, and the money and the price of an application |
| `Sums` | TLAPS: sums over finite sets, for those two and `NotificationProofs` |
| `BookingRules` | pure: opening hours, closures, windows, the server's checks, and what calendar, day view and picker offer |
| `BookingDay` | the server behind the apply pages, whose settings, closures, windows and bookings change |
| `Attachments`, `ApplicantAccess` | the files of a form; the codes an applicant gets by mail |
| `ApplyPages` | composes the three: picker and form against that server |
| `ApplyPagesProofs` | TLAPS: offers, picker, files and codes |
| `MC...` | instances for TLC |

### Reservation

One record of state for each application: `status`, `occ` (its row in
`slot_occupancies`: kind, cells, deadline), `method` and `pay` (its payment),
`imported`, `deadline` (of a revision); `block` for schedule blocks; `now`.
A *cell* is a piece of one room's time, buffers included; two ranges overlap
when they share a cell, which is what the exclusion constraint
(`drizzle/0001_constraints.sql`) forbids.

One action is one transaction, because each locks its application row with
`FOR UPDATE` before it reads. The exceptions are split:

- **Submission** locks nothing of its own. `SubmitCheck` clears the lapsed holds
  in the way (their rows are locked from here: `Locked`) and finds nothing busy
  at the request's own, possibly stale, time. `SubmitInsert` inserts and
  commits, or `SubmitConflict` meets the constraint (23P01) and rolls all back.
  `SubmitRefused` is a submission the rules refuse: it returns normally, so the
  clearing it did is committed.
- **Jobs** select (`SelectDue`, `SelectOverdue`) and process each row later.
  The expiry job checks the status again but not the deadline, and skips locked
  rows; the revision job checks status and deadline under the lock.

Details kept because they matter: an unpaid bank transfer stays after its
deadline, an import too; rejection of an unpaid application leaves its payment
`ready`; `confirmDeposit` may approve in the same transaction; an administrator's
move that would expire the application's own hold rolls back; a block is refused
by any occupancy, lapsed ones included; `submitRevision` does not look at the
deadline. Completion and cancellation are offered only in the statuses the page
offers them in. `cancel_requested` is in the table of transitions but no code
enters it.

Left out here: the limits of organisations (`OrgLimits`), booking rules
(`BookingRules`) and prices (`ApplicationPrice`); submissions may be refused for
any reason. History and audit rows are written and never read.

### PaymentFlow

One application, up to `MaxOrders` orders. `pay[o]` is the row of order `o`,
`pg[o]` what the PG knows, `windows` the checkout windows with the amount they
were opened with, `read[c]` what confirmation `c` was told. `ReadPayment` and the
`Confirm...` actions are the two halves of `confirmPayment`, with everything else
allowed in between. `status = "submitted"` stands for all later live statuses.
That an unpaid hold exists exactly when the status is `pending_payment` is the
theorem `Agreement`. `Reject` also stands for the closing of an overdue
revision, which refunds alike. Left out: the recalculation in admin-edit (it
follows the discount's rules, except that it subtracts refunds also when no
order is counted as paid and refuses a price of 0 before payment), the two days
after which reconciliation stops looking, deletion, and bank transfers (their
refunds are completed by hand, in `RefundQueue`).

A behaviour belongs to one of `Worlds`, which name what the environment may do:
`repay` (the PG takes another attempt under an order number whose attempt failed;
`prepareCheckout` itself gives out the same number until the failure is
noticed), `fails` (a refund may be given up, to be retried), `slow` (a refund may
finish between the halves of a confirmation of the same order), `orders`,
`prices`, and `discounts` (the discount of the application may be changed).

### RefundQueue

`processRefund` holds the row of its refund while it calls the PG, and
`markSucceeded` adds up what is settled before its own commit; so it is split
into `Begin`, `Cancel`, `Settle` and a commit. `retryRefund` reads without a lock
(`RetryRead`) and writes later, whatever the refund is by then (`RetryWrite`);
several administrators may be between the two. `faults`, chosen at the start from
`FaultSets`, says what may go wrong beside a refusal: the process dies
(`crash`), the PG's answer is lost and reported as a failure (`lost_answer`), or
the PG answers REQUESTED and finishes later (`async`). Four history variables
record what the database does not: returns it does not show (`unrecorded`),
refunds opened again after they had succeeded (`reopened`), administrators whose
retries of one refund overlap (`overlapping`), and whether two refunds settled
side by side (`together`). No action depends on them. `ByHand` has a guard of the
page: it records bank transfers only, which `completeManualRefund` does not ask.

### ApplicationPrice and Policies

`ApplicationPrice` takes `calculate.ts` over as functions from item labels to
amounts: base, units of an hour begun, the hours after `dayEnd`, options per hour
or per booking, and a discount that is rounded and capped. Its actions are what
writes a price: submission, `changeApplicationDiscount`, the two forms of
`updateApplicationByAdmin` (times only, or with a recalculation), and
`repricePendingApplications`, which reads the schedule and the end of the day,
and then takes up the application later. `basedOn` is a history variable: what the
items were calculated from last. `Policies` keeps one set `rows` of versions
`[id, key, value, from, by]` for settings and fee schedules, both read by
`EffectiveRow`. A request has the time of its arrival and commits under an
advisory lock later (`Ask...`, `Commit...`); `now` may have moved on, which is
why `PastStands` speaks of the oldest waiting request (`edit` holds the
requests, `Edit` numbers them). Saving a fee schedule
starts a repricing run of the request itself; the worker has another, each run
with the schedule it read.

### OrgLimits and NotionImport

`OrgLimits` splits a submission into `Begin` (settings read), `Lock`, `Count`
and `Insert`; without a registration number there is neither lock nor count.
Corrections and imports set organisation and day without either, and the
properties speak of what came in by a submission and was not corrected since
(`under`). `since` records what payments, decisions, corrections and imports
changed between the count and the insertion of a submission, as none of them
takes the lock. `NotionImport` models a run as it is: all pages read first, the
references that exist looked up in the transaction, approved pages inserted
first, rows whose slot is taken rolled back alone, the month's counter row held
to the end. Both parts are independent and share one run; `importing`, chosen at
the start, says which of them moves.

### NotificationQueue

`logs` is the table in the order of its ids. A flush locks the first row that
waits and is not locked (`StartFlush`), asks the mail server, and writes the
outcome in the same transaction; then the loop looks for the oldest row again, as
a step of its own (`GoOn`), and a failing row is found again by the same
flush. `Crash` may happen before or after the server took the message.

### AdminAccounts and AdminLogin

In `AdminAccounts` a request reads its administrator and grade (`RequireAdmin`),
later takes the lock and checks (`Check`), and writes. Creating accounts and
editing grades take no lock. `AdminLogin` follows one account from several
browsers; `codes` and `resets` record what was accepted, in order. The parts
share no state and one run; `about` in `MCAdminAccounts` says which one moves.

### BookingRules, BookingDay and ApplyPages

`BookingRules` translates the checks of `rules.ts`, the segments of
`availability.ts` and the offers of `booking-picker.tsx` separately, so that
`OffersAreExact` compares two computations; the checks that the review page
repeats (`reviewChecks`) are a third. Times are units from 0 to `Midnight`. `BookingDay` changes everything they depend on. The picker of
`ApplyPages` has requests in `flight`; an answer is what the server says at the
moment it is served, arrives when it arrives, and is stored under the key it
was asked for, space, date and times. The page may list further spaces
(`world.others`): the picker treats them like any other, and for them the server
may answer anything. `Attachments` splits each operation where the process may die
between storage and table; `ApplicantAccess` splits `verifyLoginCode` at the
`SELECT ... FOR UPDATE LIMIT 1`, whose row is looked at again once it is
unlocked.

## Runs

| Run | Question | Bounds |
|---|---|---|
| `reservation_safety` | all safety and action properties, and the refinement of `SlotLedger` | 2 applications, 1 block, 2 cells, requests for one cell or both, stale by one unit |
| `reservation_liveness` | nothing that is due stays | the same without stale clocks; the clock stops at its bound, after everything that can lapse has |
| `payment_money` | the money of an application, whoever confirms and whatever the price does | world 1: 2 orders, 2 callers, failed attempts and refunds, the discount stays; world 2: 1 order, prices 0 to 3, no failures |
| `refund_processing` | refunds under faults | 2 refunds that make up the payment, job and request, 2 administrators, 2 attempts instead of 5 |
| `admin_accounts` | who may still administer; codes and links | 3 accounts, 2 of them chiefs, 1 grade, 2 overlapping requests, 5 in all; 2 browsers, 2 links, 2 secrets, 2 time steps and the one ahead |
| `notifications` | the queue under faults | 2 applications, one without address, 2 flushes of 2 rows, 2 attempts, 1 fault, 1 retry |
| `policies` | versions and repricing | 2 settings and a rule between them, or fees and 1 application; 2 overlapping requests (4 or 2 in all), times 0 to 3 |
| `org_limits` | limits; imports | 2 applications of 1 organisation on 3 days in 2 half years, 3 values of the settings (rolling/confirmed with one per day, rolling/submitted, calendar half/submitted); 2 pages, 2 halls, 2 consoles, 2 corrections |
| `apply_pages` | the customer's way | five worlds, see `MCApplyPages`: all times of 9 venues with any two bookings; closures, windows and clocks over days; the picker over 2 spaces and 2 days; 2 files with crashes; 3 codes, 2 browsers |
| `application_price` | the price through changes | 3 versions of the schedule, 1 changed rule, 2 discounts, 2 times, 2 ends of the day |

Two applications meet pairwise in every transaction of the code: a submission
against each lapsed hold separately, a move against each occupancy, a count
against each row; and two requests are what a lock taken too late lets in. The
bounds on attempts, guesses and codes are smaller than the code's and are
reached. The refund bound is never reached in `payment_money`. All runs end
because a clock, a counter or the application is at its end, so deadlock is not
checked, except in `reservation_safety`; what must go on is stated as a liveness
property.

**Properties.** Each is stated in words above its definition, and for each a
mutant of the code (a definition named `X_Something`) is known that breaks it.

- `Reservation`: `NoDoubleBooking`, `SlotMatchesStatus`, `ShownFreeIsBookable`
  (the two conditions, of `loadBusyIntervals` and of the expiry queries, leave
  no row that hides from the calendar and yet blocks every insert),
  `MoneyBeforeReview`, `LapsedStaysLapsed` (what a submission in progress has
  expired cannot be paid or changed before it commits), `ExpiryIsDeserved`,
  `ClosureIsDeserved`, `FinalIsFinal`, `LedgerSpec`, `LapsedHoldGoes`,
  `OverdueRevisionEnds`.
- Money: `PriceIsPaid`, `EndedOwesNothing`, `RefundsWithinPayment`,
  `AcceptedWithMoney`, `PaidIsNoticed`; `SentOnceIfReliable`, `RecordedAsSent`,
  `CancelledIsReturned`, `SettledStaysSettled`, `RequestedEnds`; `PriceStands`.
  Those of refunds hold whatever fails and however retries overlap: they say by
  which faults and races what the PG returned is more than what is recorded, a
  settled refund is opened again, or a payment does not become cancelled.
- Settings and fees: `PastStands`, `CancelIsSilent`, `RulesHoldInOrder`,
  `PaidPriceStands`, `PricesFollowFees`.
- Organisations and imports: `LimitsKept` (at an insertion there is room, up to
  what came between without the lock, for all settings; what stays true later,
  for one per day and the calendar halves), `ImportKept`.
- Messages: `RepeatedByFaultsOnly`, `ReminderOnce`, `WorkedOff`.
- Administrators: `SuperRemains`, `GradeExists`, `CodeOnce`, `LinkOnce`.
- The customer's way: `OffersAreExact`, `ProceedsAsQuoted`, `RowHasFile`,
  `CodeIsSpent`.

The type invariants (`TypeOK`) of the modules that have one are in no run: they
are what proofs start from, and three of them are theorems.

**Fairness.** Jobs are scheduled by pg-boss every 1, 2, 5 or 10 minutes for
ever, so what they do is fair: strongly for taking up a row (others hold it
again and again), weakly for finishing a transaction. `SelectDue` is fair at
times when no submission is in progress, which come again and again as one takes
milliseconds and the job comes each minute. In `Policies` the worker's repricing
is fair and the request's own is not, since its process may die once the
schedule is committed. In `NotificationQueue` a flush goes on, in one way or
another: `WorkedOff` does not assume that the mail server ever accepts anything.
Visitors, administrators, browsers and webhooks owe nothing. `RequestedEnds`
assumes that no process dies for ever and that the PG does not answer REQUESTED:
such a refund is attempted without end.

## Findings

`payment_stale` shows the code disagreeing with its own comment: a confirmation
with an old answer of the PG accepts an application whose money was just
refunded (`PROJECT.json` has the lines).

`policies_night` is what the proof of `RulesHoldInOrder` ran into. It goes through
for rules that depend only on the settings they name (`RulesNameTheirKeys`), and the
rule about the end of the night (`cross-validate.ts:21`) depends on `nightEnabled`,
too. `crossIssuesFor` (`service.ts:147`) passes over an issue whose keys are none of
those that change. Switch the night off, move its end to the end of the day, which
the rule allows then, and switch the night on: nothing objects. The settings now
disagree, in order, without a cancellation, against `cross-validate.ts:4` and the
combination `cross-validate.test.ts:19` refuses. The run has that rule
and its three settings; `policies` has a rule that names what it depends on.

Other places where the code does less than one may expect. Properties are stated
so that they say what does hold beside these; where that takes a hypothesis or a
world that leaves them out, the property's comment names it.

*Payments and refunds.*
- `createRefund` looks for one paid order. If the PG takes money under two
  orders of an application (an attempt marked failed and paid after all), a
  rejection refunds one (`EndedOwesNothing` assumes `~world.repay`).
  `createRefund` takes the order paid last: when that one is returned already, a
  further late payment is recorded and not refunded. It takes three orders, all
  paid, so the run (two orders) keeps `PriceIsPaid` under `repay`; the theorem
  excludes it. In the same way a confirmation that is overtaken (`slow`) may
  refund the live order of two while prices change.
- `changeApplicationDiscount` subtracts refunds of every order from the payments
  of paid orders only; refunds of an order returned in full make the received
  amount too small (the world with changing prices has one order).
- A failed refund is not counted; created anew and retried, both may exceed the
  payment (`RefundsWithinPayment` assumes `~world.fails`, and so does the theorem
  about `EndedOwesNothing`, as a price that changes meanwhile creates both).
- A refund the PG will finish later (REQUESTED) is sent again by the next job,
  as nothing asks what became of it; so is one whose answer was lost or whose
  process died after the call (`SentOnceIfReliable` assumes no faults,
  `RecordedAsSent` counts each).
- `retryRefund` reads and writes without a lock: the second of two
  administrators reopens a refund that has succeeded, and the PG is asked to
  return the money again (the run has two; `SettledStaysSettled` says that nothing
  else reopens one, `SentOnceIfReliable` leaves out such refunds).
- Two refunds of a payment that settle side by side do not see each other, and
  the payment never reads as cancelled (`CancelledIsReturned`).
- Deleting an application removes orders the PG still knows; a late payment is
  then unknown. Reconciliation takes any 100 orders at a time.

*Applications and organisations.*
- The half-year limit counts neither unpaid applications nor, counting back
  from the day, later days: booked in that order, an organisation may hold more
  than the limit, against `docs/DEVELOPMENT_PLAN.md:451`; with the default
  (rolling, confirmed) any number may come in before the first is confirmed.
  Corrections and imports set the organisation without count or lock.
  `LimitsKept` therefore says of every setting only that a submission found room
  when it inserted.
- `reviewChecks` (`review.ts:176`) does not read the end 00:00 as 24:00, unlike
  the other callers; an application that ends at midnight gets an inverted range
  (`reviewChecks` in `BookingRules`; `OffersAreExact` states it, and that the
  review objects to nothing else that can be booked).
- A buffer beyond 00:00 or 24:00 makes an invalid date (`BookingRules`,
  `Representable`; the venues of the run leave room).
- A discount to nothing leaves an unpaid application `pending_payment` with 0 to
  pay, while a submission for nothing is received at once. A repricing run that
  finds no price or 0 records the new schedule and keeps the price.
- The form (`application-form.tsx:98`) cancels the timer of a quote but not the
  request under way: an older answer may overwrite the price on the screen.

*Others.*
- Cancelling a scheduled setting, or scheduling one before another, is not
  checked against what follows (`RulesHoldInOrder` names both hypotheses).
  Saving the settings page writes every value that differs from what applies by
  then, edited or not.
- An attachment uploaded after the submission has read the form's files is not
  attached; two uploads at once may exceed the maximum count.
- Concurrent requests exceed the codes per hour; when the newest code is used,
  an older one that is still valid counts again.
- The reference of a Notion page changes when it goes from one hall to several
  or back: a later run brings it again, against `docs/NOTION_IMPORT.md:14`
  (`ImportedOnce` names it). An imported application that was deleted comes again.
- `extendBookingWindow` reads the window outside its transaction: two
  extensions at once extend once.

## Proofs

`ReservationProofs` proves, for all finite or infinite sets of applications,
blocks and cells and all durations, from the named assumptions on the constants:

- `TypeCorrect`: `Spec => []TypeOK`;
- `Invariance`: `Spec => []IInv`, with
  `IInv == TypeOK /\ OpenTxIsNew /\ NoDoubleBooking /\ SlotMatchesStatus`;
- `Exclusion` and `Agreement`: `NoDoubleBooking` and `SlotMatchesStatus`.

Neither is inductive by itself. Expiring a hold deletes the slot when its kind
is `pending_payment` but changes the status when that is `pending_payment`: only
`SlotMatchesStatus` makes the two conditions one. And an insert by a submission
under way is an insert for a fresh application only by `OpenTxIsNew`. The proof
is split into the steps of submission, desk and worker; `ExpireKeeps`,
`ShrinkDisjoint`, `GrowDisjoint` and `OneApplication` say once what expiry,
release, insertion and a change of one application do to the invariant.

The second part of `ReservationProofs` strengthens it to `SInv`, which adds what the races are
about: an unpaid hold has a ready payment (`HoldIsUnpaid`), no two submissions
expire the same hold (`OneHolder`), what they expired stays lapsed
(`LapsedStaysLapsed`), and what stands on a job's list is due or was dealt with
(`ListsAreDue`). None of these is inductive by itself; together they are preserved
because in one step an application can do one of five things only (`Stays`,
`Appears`, `Expires`, `Proceeds`, `Vanishes`; lemma `Evolution`), and the last
two are closed to one whose row a submission has locked. From `SInv` and
`Evolution` follow `SafetyInvariance`, `PaidBeforeReview`, `LapsedUntilCommit`,
`FreeIsBookable`, and the action properties `ExpiryDeserved`, `ClosureDeserved`
and `FinalStaysFinal`.

Its third part proves `Refinement`: `Spec => LedgerSpec`. An
application's claim is the cells of its occupancy, a block's its cells, and a
claim is soft while `Expired` holds of it. Inserts, moves, imports and new
blocks are `Assign` with the lapsed holds they displace; releases are `Assign`
of nothing; refused submissions and the expiry job are `Sweep`; a payment in
time is `Firm`; the clock is `Lapse`; everything else is a stutter. It needs
`SInv` twice: a commit displaces only lapsed holds by `LapsedStaysLapsed`, and
the job sweeps only such by `ListsAreDue`.

`AdministrationProofs` proves `AccountsTyped`, `ChiefRemains` and
`GradeOfAccountExists`, for any accounts, grades and overlapping requests, from
`NamesDiffer` and `ChiefsAtFirst`. `SuperRemains` is not inductive: a request
that has been checked will write whatever it decided then. The strengthening
`SInv` adds that at most one request is checked (`OneChecked`, the advisory lock)
and that one which will take away a chief leaves another (`CheckedSafe`); while
it is checked the others only add accounts and edit grades (`OthersKeepSafe`).
`GradeExists` follows from the foreign key and the count in `deleteGrade`. Its
second part is about `AdminLogin`, whose specification is named `LoginSpec` so that
the module can extend both: `CodesOnce` and `LinksOnce`.
That an accepted code is new rests on what the account's row remembers of codes
before (`CodesRemembered`), and on secrets being made anew, so that a secret
waiting for confirmation was never confirmed (`SecretsAreNew`); that a link is, on
used links staying used.

Its third part is about `Policies`: `PastIsFixed`, `CancelledSilently`, `RulesHold`,
`PaidIsNotRepriced` and `PoliciesTyped`, for any settings, values, rules,
administrators, applications and times, with `PricesFollowFees` left to TLC. `VInv` says that ids
grow, that some fee schedule is in force at any time, and that a waiting request has
an old clock, asks for no time before it, and holds versions that were there
(`EditsTyped`). Every transaction is then one of a few writes (`Writes`), and what a write does to
the version in force at a time is said once: nothing before its time
(`LaterTimes`), and after it the new version wins (`NewestWins`). A cancellation puts
back what applied just before since nothing between the two times applies
(`JustBefore`, `CancelRestores`). `RulesHold` has the hypothesis `RulesNameTheirKeys`,
for a transaction checks only the rules that name what it changes; see Findings for
the rule of the code that does not meet it. `PaidIsNotRepriced` needs of a run that
what it works on was to be paid by bank transfer and is not a submission still to
come (`RunsTyped`).

`NotificationProofs` proves `RemindedOnce` and `RepeatedByFaults`, for any
applications, flushes, limits, attempts and faults. The first needs that nobody
on the reminder job's list was reminded (`DueNotReminded`). The second is a sum over
all rows; inductive is that deliveries beyond the one a row records as sent
(`Surplus`) sum up to no more than the faults, because a row that is being sent is
pending (`HeldIsPending`) and held by one flush (`OneRowEach`).

`IntakeProofs` proves `LimitsHold` and `ImportHolds` (`LimitsKept` and
`ImportKept` of every state of `IntakeSpec`), for any finite set of applications
and halls and any organisations, days, pages and consoles. A submission that has
counted will insert whatever came in since, so `LInv` adds that the advisory lock
admits one submission of an organisation (`OneInside`) and that its count stands
until it inserts (`CountStands`): whatever the desk, the import and other
submissions do meanwhile, nothing that counts for good is added
(`NotNewlyCounted`). `RoomAtInsert`, the part about every setting and paid
applications, is carried along by `RoomKept`: what a step adds to what the
submission counted is in `since` (`CarriedAlong`), because an application that
another submission inserts is of another organisation.
`KInv` follows a page through a run: references are named for pages (`RefsNamed`)
and unique (`OneRef`), uncommitted rows are those of a run at work (`OwnRows`),
and while an approved page is to come, only approved ones went before
(`ApprovedAhead`).

`ApplyPagesProofs` has an invariant for each part of the pages: `FilesInv` for
`RowsHaveFiles`, `CodesInv` (the row of a code says what it was used for, and no
visit selects a row that is not there) for `CodesAreSpent`, `PickerInv` (answers in
flight are about the question that was asked) for `ProceedsWithQuote`, and
`DayInv` for `OffersExact`. The last compares the two computations of what can be
booked for every opening hour, duration, buffer, interval and booking, by
arithmetic on whole slots and on intervals cut off at the ends of the day. It
assumes `VenuesLeaveRoom` (buffers end within the day), which the code does not
enforce; see Findings.

`Sums` proves what those modules need of `MapThenSumSet`: the empty sum, taking
one element out, and how a sum changes with its elements and their weights. The library's induction theorems take an operator as
parameter, which the provers cannot instantiate; `SubsetInduction` states
induction over the strict subsets of a finite set without one, as a fact about a
set of good subsets, from the well-foundedness of that order.

`RefundQueueProofs` proves `SentOnce`, `Recorded`, `CancelledReturned` and
`SettledStays` for any finite set of refunds of any amounts, any number of
processes and administrators, every set of faults, and retries that overlap.
`RInv` says who holds which row and in which state (`OneRowEach`, `HeldIsOpen`),
that a refund an administrator will retry has failed unless that retry overlaps
another (`RetriedHasFailed`), how what was sent is recorded, on the way to a
commit as well (`Accounts`, `CauseKnown`), and that the sum `markSucceeded` found
covers the payment when it commits, counting what was reopened since
(`CoversStands`), and, unless two settled side by side, covers it if it is all
there is (`CoversAll`).

`PaymentFlowProofs` is about any number of orders, refunds and confirmations,
any prices and rates, and any worlds. The thirty-odd ways a step may go are first
reduced to a few moves of a row (`RowsMove`: nothing, opened, unpaid, paid,
returned), of the PG, of what confirmations were told, and of the refunds
(`NoRefund`, `NewRefund` which fits what is left of the payment, `RefundMoves`);
each invariant is then proved for moves.

- `MoneyInvariance`: `MInv` - rows, PG and confirmations agree on what was taken,
  orders follow each other, only what was paid is returned, and
  `RefundsWithinPayment` (`RefundsWithin`), in every world where no refund fails.
- `OrdersAreOrderly`: where the PG takes no second attempt under a number
  (`~world.repay`), `OrderlyInv`. It makes the last order the only one that may
  carry the payment, and a confirmation that was told of one true when it is
  written. `Accepted` (`AcceptedWithMoney`) follows in worlds that are not `slow`
  either; in `slow` ones it is false, which is the finding of `payment_stale`.
- `ReturnsInvariance`: where nothing fails either, `AllReturned`; from it
  `OwesNothing` (`EndedOwesNothing`).
- `PricePaid` (`PriceIsPaid`): in a `PlainWorld` - neither second attempts nor
  failures nor overtaken confirmations, and either one order, whose price may
  change in every way, or any number of orders while the discount stays. Findings
  says what goes wrong without these; two orders without discounts, which
  `payment_money` checks with all of it allowed, are too few for that.

Its last part is about `ApplicationPrice` (`PricingSpec`, whose names differ so that
the module can extend both): `PriceStandsAlways`, from `FeesArePriceLists`,
`TimesInOrder` and `DiscountsAreParts` - amounts are not negative, an option is not
named like another item, a percentage is one of a hundred at most. Inductive is
`Stands`: the price is `calculatePrice` of the basis and the recorded discount.
`changeApplicationDiscount` starts from the stored price instead;
`DiscountReplaced` says that this is the same, since no item but the discount has
its label. That no price is negative is `ItemsTyped`, `CutIsPart` and
`SumWithDiscount`, a sum with one negative summand (`TotalTakes`).

`MInv`, `OrderlyInv`, `AllReturned` and `PriceOfLast` were checked with TLC on the
worlds of the runs before they were proved.

The assumptions on constants (the named `ASSUME`s, which TLC evaluates) are that
bounds and times are numbers, that what is counted is finite (`AppsAreFinite`, `HallsAreFinite`, `RefundsAreFinite`), that
settings, venues, schedules and discounts have the values their definitions in the code
allow (`RulesAreSettings`, `WorldsAreTyped`, `FeesArePriceLists`, `TimesInOrder`,
`DiscountsAreParts`, `FeesArePrices`, `DefaultsAgree`), and that `"nobody"` is no
console.

Model-checked only:

- liveness (`PaidIsNoticed`, `RequestedEnds`, `LapsedHoldGoes`,
  `OverdueRevisionEnds`, `WorkedOff`, `PricesFollowFees`): out of the prover's
  reach;
- the money of an application where the PG takes second attempts, refunds fail or
  confirmations are overtaken (`PriceIsPaid` beyond a `PlainWorld`,
  `AcceptedWithMoney` under `repay`).

## Not modelled

Other pages (they call the services; where a page limits an operation, the guard
says so), queries, exports, statistics, the audit log, photos and mail transport
have no state that others depend on. Refund tiers are a table that pages show.
Rate limits are one statement. Passwords, encryption and cookies are left to
cryptography, and file checks to the functions that make them. The form of the
apply pages has only its submission; `submitRevision` attaches files, too, which
`Attachments` leaves out; contact data and texts are not followed. Gaps in what
is modelled: `PROJECT.json` lists hazards no property covers, with the reason.

## Plan

1. *(done)* `SlotLedger`, `Reservation` with its proofs; `PaymentFlow`;
   `RefundQueue`.
2. *(done)* `Policies`, `OrgLimits`, `NotionImport`, `NotificationQueue`,
   `AdminAccounts` with its proofs, `AdminLogin`, `BookingRules`, `BookingDay`,
   `ApplyPages`, `Attachments`, `ApplicantAccess`, `ApplicationPrice`.
3. *(done)* Proofs of `LimitsKept`, `ImportKept`, `RowHasFile`, `CodeIsSpent`,
   `ProceedsAsQuoted`, `OffersAreExact`, the properties of `RefundQueue` and those
   of `PaymentFlow`, `LinkOnce`, `CodeOnce`, `ReminderOnce`, `RepeatedByFaultsOnly`
   and those of `Policies`, and `PriceStands`: every safety and action property
   of the runs. Next: `PricePaid` in more worlds than `PlainWorld`.
4. Models: `LockOrder` (row locks of payment and application, PostgreSQL
   aborting one of two), deletion in `PaymentFlow`, several applications against
   the limit of the reconciliation query, the quote of the form.
