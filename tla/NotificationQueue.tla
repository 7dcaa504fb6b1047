-------------------------- MODULE NotificationQueue --------------------------
(***************************************************************************)
(* The e-mail queue.  Transactions that change an application append rows  *)
(* to notification_logs (Tell); the worker's job, and every request after  *)
(* its commit, works the queue off row by row (flushNotifications), each   *)
(* row in a transaction that holds its lock while the mail server is       *)
(* asked; administrators send again what has failed; and the worker        *)
(* reminds applicants whose deposit is due (sendDepositReminders).  A      *)
(* flushing process may crash at any point, and the mail server may        *)
(* deliver a message and fail to say so.                                   *)
(***************************************************************************)
EXTENDS Naturals, Sequences, FiniteSets, FiniteSetsExt

CONSTANTS
  App,          \* applications whose deposit is awaited at first
  Imported,     \* those of them imported from Notion: nobody is reminded
  NoAddress,    \* those without an e-mail address
  Flusher,      \* processes that may flush together
  MAX_ATTEMPTS, \* attempts before a row counts as failed (5 in the code)
  Limit,        \* rows a flush works off at most (50 in the code)
  MaxTold,      \* bound: rows enqueued by state changes
  MaxFaults,    \* bound: crashes and lost answers
  MaxRetries    \* bound: rows an administrator sends again

ASSUME ConstantsAssumption ==
  /\ Imported \subseteq App /\ NoAddress \subseteq App
  /\ {MAX_ATTEMPTS, Limit} \subseteq Nat \ {0} /\ {MaxTold, MaxFaults, MaxRetries} \subseteq Nat

VARIABLES
  channel,   \* the channel in the settings (P-13), of every event
  deposit,   \* deposit[a]: whether a's deposit is awaited, due soon, or settled
  due,       \* applications the reminder job selected and has not dealt with
  logs,      \* notification_logs, in the order of their ids
  delivered, \* delivered[i]: how often the mail server delivered row i
  flush,     \* flush[f]: the row f has locked, 0 for none, and how many more it may take
  told,      \* rows enqueued so far by state changes
  faults,    \* crashes and lost answers so far
  retries    \* rows sent again so far

vars == <<channel, deposit, due, logs, delivered, flush, told, faults, retries>>

-----------------------------------------------------------------------------
Channels == {"both", "email", "lms", "off"}

NotFlushing == [row |-> 0, left |-> 0]

Init ==
  /\ channel \in Channels
  /\ deposit = [a \in App |-> "awaited"]
  /\ due = {}
  /\ logs = <<>> /\ delivered = <<>>
  /\ flush = [f \in Flusher |-> NotFlushing]
  /\ told = 0 /\ faults = 0 /\ retries = 0

-----------------------------------------------------------------------------
(* Filling the queue.                                                      *)

\* The rows of one event: an e-mail, skipped without an address; a text
\* message, which is only noted; and e-mails to the staff, of some events.
Rows(a, event, staff) ==
  LET row(ch, to, st) == [app |-> a, event |-> event, channel |-> ch, to |-> to, status |-> st, attempts |-> 0]
  IN (IF channel \in {"both", "email"}
      THEN <<row("email", "applicant", IF a \in NoAddress THEN "skipped" ELSE "pending")>> ELSE <<>>)
     \o (IF channel \in {"both", "lms"} THEN <<row("lms", "applicant", "skipped")>> ELSE <<>>)
     \o (IF staff THEN <<row("email", "staff", "pending")>> ELSE <<>>)

\* enqueueApplicationNotification
Enqueue(rows) ==
  /\ logs' = logs \o rows
  /\ delivered' = delivered \o [i \in DOMAIN rows |-> 0]

\* A transaction that changes an application tells of it in the same commit.
\* settles: it is the confirmation of the deposit, a withdrawal, an expiry.
Tell(a, settles, staff) ==
  /\ told < MaxTold
  /\ deposit' = IF settles THEN [deposit EXCEPT ![a] = "settled"] ELSE deposit
  /\ Enqueue(Rows(a, "change", staff))
  /\ told' = told + 1
  /\ UNCHANGED <<channel, due, flush, faults, retries>>

\* Time passes: the deadline of a's deposit is less than N hours away.
DeadlineNears(a) ==
  /\ deposit[a] = "awaited"
  /\ deposit' = [deposit EXCEPT ![a] = "near"]
  /\ UNCHANGED <<channel, due, logs, delivered, flush, told, faults, retries>>

\* The settings change while messages wait.
ChangeChannel(c) ==
  /\ c # channel /\ told < MaxTold
  /\ channel' = c
  /\ told' = told + 1
  /\ UNCHANGED <<deposit, due, logs, delivered, flush, faults, retries>>

\* Mutant: whether a reminder was sent is judged by what is still waiting.
Reminded_Pending(a) == \E i \in DOMAIN logs : logs[i].app = a /\ logs[i].event = "reminder" /\ logs[i].status = "pending"

Reminded(a) == \E i \in DOMAIN logs : logs[i].app = a /\ logs[i].event = "reminder"

\* sendDepositReminders: what is due is selected...
SelectDue ==
  LET found == {a \in App \ Imported : deposit[a] = "near" /\ ~Reminded(a)} IN
  /\ due = {} /\ found # {}
  /\ due' = found
  /\ UNCHANGED <<channel, deposit, logs, delivered, flush, told, faults, retries>>

\* ... and each is told, whatever has happened to it since.
Remind(a) ==
  /\ a \in due
  /\ due' = due \ {a}
  /\ Enqueue(Rows(a, "reminder", FALSE))
  /\ UNCHANGED <<channel, deposit, flush, told, faults, retries>>

\* The worker dies in the loop; the next run starts from a new selection.
ReminderCrash ==
  /\ due # {} /\ faults < MaxFaults
  /\ due' = {}
  /\ faults' = faults + 1
  /\ UNCHANGED <<channel, deposit, logs, delivered, flush, told, retries>>

-----------------------------------------------------------------------------
(* Working the queue off.                                                  *)

Waiting(i) == logs[i].status = "pending" /\ logs[i].channel = "email" /\ logs[i].attempts < MAX_ATTEMPTS

\* Mutant: a row another process is sending is taken too.
Unlocked_Any(i) == TRUE

\* for update skip locked
Unlocked(i) == \A f \in Flusher : flush[f].row # i

Selectable == {i \in DOMAIN logs : Waiting(i) /\ Unlocked(i)}

StartFlush(f) ==
  /\ flush[f] = NotFlushing /\ Selectable # {}
  /\ flush' = [flush EXCEPT ![f] = [row |-> Min(Selectable), left |-> Limit]]
  /\ UNCHANGED <<channel, deposit, due, logs, delivered, told, faults, retries>>

\* The loop goes on with the oldest row it finds then, or ends.
GoOn(f) ==
  /\ flush[f].row = 0 /\ flush[f].left > 0
  /\ flush' = [flush EXCEPT ![f] = IF Selectable = {} THEN NotFlushing ELSE [@ EXCEPT !.row = Min(Selectable)]]
  /\ UNCHANGED <<channel, deposit, due, logs, delivered, told, faults, retries>>

\* The row f sends is committed as row, and let go.
Commit(f, row) ==
  /\ logs' = [logs EXCEPT ![flush[f].row] = row]
  /\ flush' = [flush EXCEPT ![f] = [row |-> 0, left |-> @.left - 1]]

Tried(i) == [logs[i] EXCEPT !.attempts = @ + 1]

Send(f) ==
  LET i == flush[f].row IN
  /\ i # 0
  /\ delivered' = [delivered EXCEPT ![i] = @ + 1]
  /\ Commit(f, [Tried(i) EXCEPT !.status = "sent"])
  /\ UNCHANGED <<channel, deposit, due, told, faults, retries>>

\* Mutant: the last attempt leaves the row as it is.
AfterFailure_Late(n) == IF n > MAX_ATTEMPTS THEN "failed" ELSE "pending"

AfterFailure(n) == IF n >= MAX_ATTEMPTS THEN "failed" ELSE "pending"

Fail(f) ==
  LET i == flush[f].row IN Commit(f, [Tried(i) EXCEPT !.status = AfterFailure(logs[i].attempts + 1)])

\* The mail server refuses, or cannot be reached.
SendRefused(f) ==
  /\ flush[f].row # 0
  /\ Fail(f)
  /\ UNCHANGED <<channel, deposit, due, delivered, told, faults, retries>>

\* The message is delivered, but the answer is lost (a timeout).
SendUnanswered(f) ==
  /\ flush[f].row # 0 /\ faults < MaxFaults
  /\ delivered' = [delivered EXCEPT ![flush[f].row] = @ + 1]
  /\ faults' = faults + 1
  /\ Fail(f)
  /\ UNCHANGED <<channel, deposit, due, told, retries>>

\* The process dies before or after the message goes out; nothing is committed.
\* (Between two rows it holds nothing, and only its count is lost.)
Crash(f, sent) ==
  /\ flush[f].row # 0 /\ faults < MaxFaults
  /\ delivered' = IF sent THEN [delivered EXCEPT ![flush[f].row] = @ + 1] ELSE delivered
  /\ flush' = [flush EXCEPT ![f] = NotFlushing]
  /\ faults' = faults + 1
  /\ UNCHANGED <<channel, deposit, due, logs, told, retries>>

\* retryNotifications: only what is failed, also when the page is out of date.
RetryNotifications(i) ==
  /\ i \in DOMAIN logs /\ logs[i].status = "failed"
  /\ retries < MaxRetries
  /\ logs' = [logs EXCEPT ![i].status = "pending", ![i].attempts = 0]
  /\ retries' = retries + 1
  /\ UNCHANGED <<channel, deposit, due, delivered, flush, told, faults>>

-----------------------------------------------------------------------------
Working(f) ==
  \/ StartFlush(f) \/ GoOn(f)
  \/ Send(f) \/ SendRefused(f) \/ SendUnanswered(f) \/ \E sent \in BOOLEAN : Crash(f, sent)

Reminding == SelectDue \/ ReminderCrash \/ \E a \in App : Remind(a)

Next ==
  \/ \E a \in App, settles, staff \in BOOLEAN : Tell(a, settles, staff)
  \/ \E a \in App : DeadlineNears(a)
  \/ \E c \in Channels : ChangeChannel(c)
  \/ Reminding
  \/ \E f \in Flusher : Working(f)
  \/ \E i \in DOMAIN logs : RetryNotifications(i)

\* The worker flushes every minute and a transaction comes to an end, one way
\* or another: that some process makes progress is all that is assumed.
Fairness == \A f \in Flusher : WF_vars(Working(f))

Spec == Init /\ [][Next]_vars /\ Fairness

-----------------------------------------------------------------------------
(* Properties.                                                             *)

\* Every variable has its type.
TypeOK ==
  /\ channel \in Channels
  /\ deposit \in [App -> {"awaited", "near", "settled"}]
  /\ due \subseteq App
  /\ logs \in Seq([app : App, event : {"change", "reminder"}, channel : {"email", "lms"}, to : {"applicant", "staff"},
                   status : {"pending", "sent", "failed", "skipped"}, attempts : 0..MAX_ATTEMPTS])
  /\ delivered \in [DOMAIN logs -> Nat]
  /\ flush \in [Flusher -> [row : {0} \cup DOMAIN logs, left : 0..Limit]]
  /\ {told, faults, retries} \subseteq Nat

SumOver(f, S) == MapThenSumSet(LAMBDA x : f[x], S)

Repeats == [i \in DOMAIN delivered |-> IF delivered[i] > 1 THEN delivered[i] - 1 ELSE 0]

\* A message goes out twice only when a process crashed or an answer was lost:
\* never because processes flush side by side, or an administrator sends again
\* what is being sent.
RepeatedByFaultsOnly == SumOver(Repeats, DOMAIN delivered) <= faults

\* An applicant is reminded of a deposit by one e-mail at most
\* (deposit-reminder.ts: 한 번만 보낸다), also when the worker dies between two
\* reminders and its next run selects again.
ReminderOnce ==
  \A i, j \in DOMAIN logs : logs[i].event = "reminder" /\ logs[j].event = "reminder"
                            /\ logs[i].app = logs[j].app /\ logs[i].channel = logs[j].channel => i = j

PendingRow(i) == i \in DOMAIN logs /\ logs[i].status = "pending"

\* Once nothing new is told, the queue is worked off, whatever the mail server
\* answers and however few rows a flush takes: no row is left pending that no
\* flush selects any more, and failing rows at its head do not starve the rest.
WorkedOff == <>[](\A i \in DOMAIN logs : ~PendingRow(i))
=============================================================================
