----------------------------- MODULE RefundQueue ----------------------------
(***************************************************************************)
(* The refunds of one payment on their way to the payer: processRefund,    *)
(* run side by side by the retry job and by the requests that created the  *)
(* refunds, the administrators who retry a failed one or record a bank     *)
(* transfer, and the payment gateway (PG) that returns the money.          *)
(*                                                                         *)
(* processRefund is one transaction, but it calls the PG inside it while   *)
(* it holds the row of the refund, and it adds up the settled refunds      *)
(* before it commits its own; so it is four steps here.  retryRefund reads *)
(* without a lock and writes later, so two of them may overlap.            *)
(***************************************************************************)
EXTENDS Integers, FiniteSets, FiniteSetsExt

CONSTANTS
  R,            \* the refunds
  Amount,       \* Amount[r]: refunds.amount
  Paid,         \* payments.amount
  Proc,         \* who runs processRefund or completeManualRefund: job, requests
  Admin,        \* administrators who retry
  Job,          \* the one of Proc that is the retry job
  MaxAttempts,  \* MAX_REFUND_ATTEMPTS
  FaultSets     \* the sets of faults considered, beside refusals by the PG

ASSUME ConstantsAssumption ==
  /\ Amount \in [R -> Nat \ {0}] /\ Paid \in Nat \ {0}
  /\ Job \in Proc
  /\ MaxAttempts \in Nat \ {0}
  /\ FaultSets \subseteq SUBSET {"crash", "lost_answer", "async"}

ASSUME RefundsAreFinite == IsFiniteSet(R)

VARIABLES
  faults,   \* what may go wrong in this behaviour
  method,   \* payments.method
  pay,      \* payments.status
  status,   \* status[r]: refunds.status as committed
  attempts, \* attempts[r]: refunds.attempt_count
  proc,     \* proc[p]: the transaction p is in
  retrying, \* retrying[a]: the refunds administrator a found failed and will retry
  sent,     \* sent[r]: how often the PG was made to return the money of r
  unrecorded,  \* history, unrecorded[r]: how many of those the database does not show
  reopened,    \* history: refunds made requested again after they had succeeded
  overlapping, \* history: administrators whose retry overlaps another one's
  together     \* history: whether two transactions have settled side by side

history == <<unrecorded, reopened, overlapping, together>>

vars == <<faults, method, pay, status, attempts, proc, retrying, sent, history>>

-----------------------------------------------------------------------------
Idle == [on |-> {}, step |-> "idle", covers |-> FALSE]

Init ==
  /\ faults \in FaultSets
  /\ method \in {"pg", "bank_transfer"}
  /\ pay = "paid"
  /\ status = [r \in R |-> "requested"]
  /\ attempts = [r \in R |-> 0]
  /\ proc = [p \in Proc |-> Idle]
  /\ retrying = [a \in Admin |-> {}]
  /\ sent = [r \in R |-> 0]
  /\ unrecorded = [r \in R |-> 0]
  /\ reopened = {} /\ overlapping = {} /\ together = FALSE

SumOf(S) == MapThenSumSet(LAMBDA r : Amount[r], S)

\* Mutant: the refund is selected without FOR UPDATE.
Unlocked_Any(r) == r \in R

\* No transaction holds the row of refund r.
Unlocked(r) == \A p \in Proc : r \notin proc[p].on

\* completeManualRefund, which takes a failed refund as well; the page offers it
\* for bank transfers only.
ByHand(p, r) == method = "bank_transfer" /\ status[r] \in {"requested", "failed"} /\ p # Job

\* Mutant: by hand, a PG refund can be recorded as done as well.
Begin_ManualPg(p, r) ==
  /\ proc[p] = Idle /\ Unlocked(r)
  /\ status[r] \in {"requested", "failed"}
  /\ \E step \in {"calling", "SUCCEEDED"} :
       /\ step = "calling" => method = "pg" /\ status[r] = "requested"
       /\ step = "SUCCEEDED" => p # Job
       /\ proc' = [proc EXCEPT ![p] = [on |-> {r}, covers |-> FALSE, step |-> step]]
  /\ UNCHANGED <<faults, method, pay, status, attempts, retrying, sent, history>>

\* processRefund up to the call of the PG, or completeManualRefund.
Begin(p, r) ==
  /\ proc[p] = Idle /\ Unlocked(r)
  /\ \/ method = "pg" /\ status[r] = "requested"
     \/ ByHand(p, r)
  /\ proc' = [proc EXCEPT ![p] = [on |-> {r}, covers |-> FALSE,
                                  step |-> IF method = "pg" THEN "calling" ELSE "SUCCEEDED"]]
  /\ UNCHANGED <<faults, method, pay, status, attempts, retrying, sent, history>>

Answered(p, answer) == proc' = [proc EXCEPT ![p].step = answer]

\* The PG never returns more than was paid.
Returned == MapThenSumSet(LAMBDA r : sent[r] * Amount[r], R)

\* The database will not show, or shows no longer, that r was returned once.
Missed(r) == unrecorded' = [unrecorded EXCEPT ![r] = @ + 1]

\* gateway.cancel on refund r: the PG returns the money or refuses.  It may
\* also accept and finish later, and its answer may be lost on the way, which
\* PortOneGateway reports as a failure.
Cancel(p, r) ==
  /\ proc[p].on = {r} /\ proc[p].step = "calling"
  /\ \/ /\ Returned + Amount[r] <= Paid
        /\ sent' = [sent EXCEPT ![r] = @ + 1]
        /\ \/ Answered(p, "SUCCEEDED") /\ UNCHANGED unrecorded
           \/ "async" \in faults /\ Answered(p, "REQUESTED") /\ Missed(r)
           \/ "lost_answer" \in faults /\ Answered(p, "FAILED") /\ Missed(r)
     \/ Answered(p, "FAILED") /\ UNCHANGED <<sent, unrecorded>>
  /\ UNCHANGED <<faults, method, pay, status, attempts, retrying, reopened, overlapping, together>>

SideBySide(p) == together' = (together \/ \E q \in Proc \ {p} : proc[q].step = "settled")

\* Mutant: refunds that were only requested count as well.
Settle_CountsRequested(p, r) ==
  /\ proc[p].on = {r} /\ proc[p].step = "SUCCEEDED"
  /\ proc' = [proc EXCEPT ![p].step = "settled",
                          ![p].covers = SumOf({q \in R : status[q] # "failed"}) >= Paid]
  /\ SideBySide(p)
  /\ UNCHANGED <<faults, method, pay, status, attempts, retrying, sent, unrecorded, reopened, overlapping>>

\* markSucceeded adds up what is settled: its own refund and those other
\* transactions have committed.
Settle(p, r) ==
  /\ proc[p].on = {r} /\ proc[p].step = "SUCCEEDED"
  /\ proc' = [proc EXCEPT ![p].step = "settled",
                          ![p].covers = SumOf({q \in R : status[q] = "succeeded"} \cup {r}) >= Paid]
  /\ SideBySide(p)
  /\ UNCHANGED <<faults, method, pay, status, attempts, retrying, sent, unrecorded, reopened, overlapping>>

\* attemptCount + 1; above the limit all counts act alike.
Counted(r) == [attempts EXCEPT ![r] = Min({@ + 1, MaxAttempts})]

CommitSucceeded(p, r) ==
  /\ proc[p].on = {r} /\ proc[p].step = "settled"
  /\ status' = [status EXCEPT ![r] = "succeeded"]
  /\ attempts' = IF method = "pg" THEN Counted(r) ELSE attempts
  /\ pay' = IF proc[p].covers THEN "cancelled" ELSE pay
  /\ proc' = [proc EXCEPT ![p] = Idle]
  /\ UNCHANGED <<faults, method, retrying, sent, history>>

\* The PG will finish later: the refund stays requested.
CommitPending(p, r) ==
  /\ proc[p].on = {r} /\ proc[p].step = "REQUESTED"
  /\ attempts' = Counted(r)
  /\ proc' = [proc EXCEPT ![p] = Idle]
  /\ UNCHANGED <<faults, method, pay, status, retrying, sent, history>>

\* Mutant: the number of attempts is never looked at.
CommitFailed_Unlimited(p, r) ==
  /\ proc[p].on = {r} /\ proc[p].step = "FAILED"
  /\ attempts' = Counted(r)
  /\ proc' = [proc EXCEPT ![p] = Idle]
  /\ UNCHANGED <<faults, method, pay, status, retrying, sent, history>>

CommitFailed(p, r) ==
  /\ proc[p].on = {r} /\ proc[p].step = "FAILED"
  /\ attempts' = Counted(r)
  /\ status' = IF attempts[r] + 1 >= MaxAttempts THEN [status EXCEPT ![r] = "failed"] ELSE status
  /\ proc' = [proc EXCEPT ![p] = Idle]
  /\ UNCHANGED <<faults, method, pay, retrying, sent, history>>

\* The process dies, or loses the database: its transaction is rolled back,
\* what the PG did for it is not.
Crash(p, r) ==
  /\ "crash" \in faults /\ proc[p].on = {r}
  /\ proc' = [proc EXCEPT ![p] = Idle]
  /\ IF method = "pg" /\ proc[p].step \in {"SUCCEEDED", "settled"} THEN Missed(r) ELSE UNCHANGED unrecorded
  /\ UNCHANGED <<faults, method, pay, status, attempts, retrying, sent, reopened, overlapping, together>>

\* Administrators who have read r and not written yet.
Retrying(r) == {b \in Admin : retrying[b] = {r}}

\* Mutant: what is offered for a retry is not looked at.
RetryRead_Any(a, r) ==
  /\ method = "pg" /\ retrying[a] = {}
  /\ retrying' = [retrying EXCEPT ![a] = {r}]
  /\ overlapping' = IF Retrying(r) = {} THEN overlapping ELSE overlapping \cup Retrying(r) \cup {a}
  /\ UNCHANGED <<faults, method, pay, status, attempts, proc, sent, unrecorded, reopened, together>>

\* retryRefund reads the refund ...
RetryRead(a, r) ==
  /\ method = "pg" /\ retrying[a] = {} /\ status[r] = "failed"
  /\ retrying' = [retrying EXCEPT ![a] = {r}]
  /\ overlapping' = IF Retrying(r) = {} THEN overlapping ELSE overlapping \cup Retrying(r) \cup {a}
  /\ UNCHANGED <<faults, method, pay, status, attempts, proc, sent, unrecorded, reopened, together>>

\* ... and makes it requested again, whatever it is by then.
RetryWrite(a, r) ==
  /\ retrying[a] = {r} /\ Unlocked(r)
  /\ status' = [status EXCEPT ![r] = "requested"]
  /\ attempts' = [attempts EXCEPT ![r] = 0]
  /\ retrying' = [retrying EXCEPT ![a] = {}]
  /\ overlapping' = overlapping \ {a}
  /\ IF status[r] = "succeeded" THEN Missed(r) /\ reopened' = reopened \cup {r}
                                ELSE UNCHANGED <<unrecorded, reopened>>
  /\ UNCHANGED <<faults, method, pay, proc, sent, together>>

Step(p) ==
  \E r \in R :
    \/ Cancel(p, r) \/ Settle(p, r)
    \/ CommitSucceeded(p, r) \/ CommitPending(p, r) \/ CommitFailed(p, r)

Next ==
  \/ \E p \in Proc : (\E r \in R : Begin(p, r) \/ Crash(p, r)) \/ Step(p)
  \/ \E a \in Admin, r \in R : RetryRead(a, r) \/ RetryWrite(a, r)

Spec == Init /\ [][Next]_vars

\* The retry job takes up each requested PG refund again and again, and a
\* transaction that began goes on.  No administrator is obliged to act.
Fairness ==
  /\ \A r \in R : SF_vars(Begin(Job, r))
  /\ \A p \in Proc : WF_vars(Step(p))

FairSpec == Spec /\ Fairness

-----------------------------------------------------------------------------
(* Properties.                                                             *)

\* Every variable has its type.
TypeOK ==
  /\ faults \in FaultSets
  /\ method \in {"pg", "bank_transfer"}
  /\ pay \in {"paid", "cancelled"}
  /\ status \in [R -> {"requested", "succeeded", "failed"}]
  /\ attempts \in [R -> 0..MaxAttempts]
  /\ proc \in [Proc -> [on : SUBSET R, covers : BOOLEAN,
                        step : {"idle", "calling", "SUCCEEDED", "REQUESTED", "FAILED", "settled"}]]
  /\ retrying \in [Admin -> SUBSET R]
  /\ sent \in [R -> Nat]
  /\ unrecorded \in [R -> Nat]
  /\ reopened \subseteq R /\ overlapping \subseteq Admin /\ together \in BOOLEAN

\* Unless something fails, the PG is made to return the money of a refund at
\* most once, although the job and the request that created it may process it
\* together and a failed one is retried; only one that overlapping retries
\* opened again after it succeeded is sent again.
SentOnceIfReliable ==
  faults = {} => \A r \in R : r \notin reopened => sent[r] <= 1

\* Whatever fails, the records of a PG refund that nobody is at work on tell
\* what the PG did: it returned the money once for the success that is on
\* record, and else only as often as the database lost sight of it, because a
\* transaction died after the call, the answer got lost or was that it will be
\* finished later, or a retry wrote over the success.
RecordedAsSent ==
  method = "pg" =>
    \A r \in R : Unlocked(r) => sent[r] = unrecorded[r] + (IF status[r] = "succeeded" THEN 1 ELSE 0)

\* The payment reads as cancelled only when all of it was returned, a refund
\* included that was opened again later; and when all of it is returned it does
\* read so, unless two of its refunds have settled side by side, each without
\* seeing the other.
CancelledIsReturned ==
  /\ pay = "cancelled" => SumOf({r \in R : status[r] = "succeeded"} \cup reopened) >= Paid
  /\ ~together /\ SumOf({r \in R : status[r] = "succeeded"}) >= Paid => pay = "cancelled"

\* A refund that was carried out is opened again only by an administrator
\* whose retry overlapped another one's: both had found it failed, it was
\* carried out after the first, and the second writes over that.
SettledStaysSettled ==
  [][\A r \in R : status[r] = "succeeded" /\ status'[r] # "succeeded"
       => \E a \in overlapping : retrying[a] = {r} /\ retrying'[a] = {}]_vars

\* A requested PG refund is carried out or, after so many attempts, handed to
\* an administrator, as long as the PG answers and no process dies.
RequestedEnds ==
  \A r \in R :
    faults \subseteq {"lost_answer"} /\ method = "pg" /\ status[r] = "requested"
      ~> status[r] # "requested"
=============================================================================
