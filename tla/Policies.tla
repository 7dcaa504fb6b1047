------------------------------ MODULE Policies ------------------------------
(***************************************************************************)
(* Settings and fee schedules: versions that are only ever added, each with *)
(* the time from which it applies (policy_values, fee_schedules).  Both     *)
(* tables are read by the same rule, so one set of rows holds them, the fee *)
(* schedule under a key of its own.                                         *)
(*                                                                          *)
(* A request reads the clock when it arrives (Ask...) and writes in a       *)
(* transaction that waits for an advisory lock (Commit...): others may have *)
(* written, and time may have passed, in between.  A new fee schedule also  *)
(* changes what applications cost that are not paid yet: the worker, and    *)
(* the request that saved it, go through them one by one (Reprice...).      *)
(***************************************************************************)
EXTENDS Integers, FiniteSets

CONSTANTS
  Setting,    \* keys of the settings
  Fee,        \* the key of the fee schedule
  Values,     \* Values[k]: what the definition of k allows
  Default,    \* Default[k]: its default, for settings
  Rule,       \* the cross rules: the keys of each and the values that meet it
  FirstFee,   \* the fee schedule there is at first
  App,        \* applications
  Edit,       \* requests of administrators under way together
  Worker,     \* the worker's job
  Areas,      \* bound: sets of keys the administrators are at work on
  Horizon,    \* bound: the clock, and how far ahead changes are scheduled
  MaxEdits    \* bound: requests that begin, in each area

Key == Setting \cup {Fee}

Form == {f \in [Setting -> UNION {Values[k] : k \in Setting}] : \A k \in Setting : f[k] \in Values[k]}

ASSUME KeysDiffer == Fee \notin Setting /\ Worker \notin Edit

ASSUME FeesArePrices == FirstFee \in Values[Fee] /\ Values[Fee] \subseteq Nat

ASSUME DefaultsAgree == Default \in Form /\ \A rule \in Rule : rule.on \subseteq Setting /\ Default \in rule.met

ASSUME BoundsAreNatural == Horizon \in Nat \ {0} /\ MaxEdits \in [Areas -> Nat]

VARIABLES
  area,  \* the keys the administrators are at work on, of Areas
  now,   \* the clock
  rows,  \* the versions
  last,  \* the id of the newest version
  edit,  \* edit[r]: what request r has read and asked
  run,   \* run[j]: the fee j prices by and the applications it still has to
  app,   \* app[a]: status, the fee schedule a is priced by, the amount
  edits  \* requests begun so far

policyVars == <<area, now, rows, last, edit, run, app, edits>>

-----------------------------------------------------------------------------
(* Reading the versions.                                                   *)

Own(k) == {x \in rows : x.key = k}

\* The later row wins, of two rows of one time the one added later.
IsLater(x, y) == x.from > y.from \/ (x.from = y.from /\ x.id > y.id)

\* pickEffectiveRow: of S at t, as a set of at most one row.
EffectiveRow(S, t) == {x \in S : x.from <= t /\ \A y \in S \ {x} : y.from <= t => IsLater(x, y)}

\* resolveSetting
ValueOf(k, S, t) ==
  LET row == EffectiveRow(S, t) IN IF row = {} THEN Default[k] ELSE (CHOOSE x \in row : TRUE).value

ValueAt(k, t) == ValueOf(k, Own(k), t)

\* resolveAll
ValuesAt(t) == [k \in Setting |-> ValueAt(k, t)]

Before(x) == {y \in Own(x.key) : y.from < x.from}

Superseded(x) == \E y \in Own(x.key) : y.from = x.from /\ y.id > x.id

\* classifyHistory; a scheduled row that changes nothing was cancelled.
HistoryStatus(x, t) ==
  IF Superseded(x) THEN "superseded"
  ELSE IF x.from > t
  THEN IF (x.key = Fee => Before(x) # {}) /\ ValueOf(x.key, Before(x), x.from) = x.value THEN "cancelled" ELSE "scheduled"
  ELSE IF x \in EffectiveRow(Own(x.key), t) THEN "active" ELSE "past"

\* The fee schedule in force.
FeeRow(t) == CHOOSE x \in EffectiveRow(Own(Fee), t) : TRUE

-----------------------------------------------------------------------------
NoEdit == [at |-> "idle"]

NoRun == [fee |-> 0, price |-> 0, todo |-> {}]

NoApp == [status |-> "none", method |-> "bank", fee |-> 0, total |-> 0]

PolicyInit ==
  /\ area \in Areas
  /\ now = 1
  /\ rows = {[id |-> 1, key |-> Fee, value |-> FirstFee, from |-> 0, by |-> "save"]}
  /\ last = 1
  /\ edit = [r \in Edit |-> NoEdit]
  /\ run = [j \in Edit \cup {Worker} |-> NoRun]
  /\ app = [a \in App |-> NoApp]
  /\ edits = 0

Tick ==
  /\ now < Horizon
  /\ now' = now + 1
  /\ UNCHANGED <<area, rows, last, edit, run, app, edits>>

-----------------------------------------------------------------------------
(* Requests arrive.                                                        *)

\* The settings page: the form shows what applies now.
OpenForm(r) ==
  /\ Setting \subseteq area
  /\ edit[r] = NoEdit /\ edits < MaxEdits[area]
  /\ edit' = [edit EXCEPT ![r] = [at |-> "form", shown |-> ValuesAt(now)]]
  /\ edits' = edits + 1
  /\ UNCHANGED <<area, now, rows, last, run, app>>

\* Mutant: a time in the recent past is taken as it is.
EffectiveFrom_Past(t) == t

\* A time up to ten minutes ago (a moment ago, here) stands for now.
EffectiveFrom(t) == IF t < now THEN now ELSE t

\* The form is sent, whole, with something edited in it.
AskSave(r, form, t) ==
  /\ edit[r].at = "form"
  /\ t >= now - 1 /\ form # edit[r].shown
  /\ edit' = [edit EXCEPT ![r] = [at |-> "save", now |-> now, from |-> EffectiveFrom(t), form |-> form]]
  /\ UNCHANGED <<area, now, rows, last, run, app, edits>>

\* Requests that name a version, a key or a fee.
Ask(r, q) ==
  /\ edit[r] = NoEdit /\ edits < MaxEdits[area]
  /\ edit' = [edit EXCEPT ![r] = q]
  /\ edits' = edits + 1
  /\ UNCHANGED <<area, now, rows, last, run, app>>

\* The history pages offer a way back to what applied once, and to call off
\* what will apply; the start page offers to confirm a default in use.
AskRevert(r, x) ==
  /\ x.key # Fee /\ HistoryStatus(x, now) = "past"
  /\ Ask(r, [at |-> "revert", now |-> now, row |-> x])

AskCancel(r, x) ==
  /\ HistoryStatus(x, now) = "scheduled"
  /\ Ask(r, [at |-> "cancel", now |-> now, row |-> x])

AskConfirm(r, k) ==
  /\ k \in area /\ EffectiveRow(Own(k), now) = {}
  /\ Ask(r, [at |-> "confirm", now |-> now, keys |-> {k}])

AskFee(r, price, t) ==
  /\ Fee \in area
  /\ t >= now - 1 /\ Ask(r, [at |-> "fee", now |-> now, from |-> EffectiveFrom(t), value |-> price])

-----------------------------------------------------------------------------
(* Their transactions, one at a time.                                      *)

\* crossValidate: the rules that concern a changed key, checked on form where
\* it changes v.
Broken(v, form, changed) ==
  \E rule \in Rule : rule.on \cap changed # {} /\ [k \in Setting |-> IF k \in changed THEN form[k] ELSE v[k]] \notin rule.met

\* Mutant: the rules are checked against what applies when it is saved.
CrossIssues_Now(form, changed, from) == Broken(ValuesAt(now), form, changed)

\* crossIssuesFor: the values at the time the change applies, changes included.
CrossIssues(form, changed, from) == Broken(ValuesAt(from), form, changed)

\* applyChanges: one new version per changed key.
Add(keys, value, from, by) ==
  /\ rows' = rows \cup {[id |-> last + 1, key |-> k, value |-> value[k], from |-> from, by |-> by] : k \in keys}
  /\ last' = last + 1

End(r) == edit' = [edit EXCEPT ![r] = NoEdit] /\ UNCHANGED <<area, now, app, edits>>

DropEdit(r) == End(r) /\ UNCHANGED <<rows, last, run>>

\* saveSettingChanges: what differs from the value that would apply then.
CommitSave(r) ==
  LET q       == edit[r]
      changed == {k \in Setting : q.form[k] # ValueAt(k, q.from)}
  IN /\ q.at = "save"
     /\ IF changed = {} \/ CrossIssues(q.form, changed, q.from)
        THEN DropEdit(r)
        ELSE Add(changed, q.form, q.from, "save") /\ End(r) /\ UNCHANGED run

\* revertSetting: the old value, from now on.
CommitRevert(r) ==
  LET q == edit[r]
      k == q.row.key
      v == [ValuesAt(q.now) EXCEPT ![k] = q.row.value]
  IN /\ q.at = "revert"
     /\ IF ValueAt(k, q.now) = q.row.value \/ CrossIssues(v, {k}, q.now)
        THEN DropEdit(r)
        ELSE Add({k}, v, q.now, "revert") /\ End(r) /\ UNCHANGED run

\* Mutant: what applies now is put back, not what would apply by then.
Restored_Now(x) == ValueAt(x.key, now)

Restored(x) == ValueOf(x.key, Before(x), x.from)

\* cancelScheduledFeeSchedule: the version changes something, and there is an
\* earlier one to go back to.
FeeCancellable(x, t) == HistoryStatus(x, t) = "scheduled" /\ Before(x) # {}

\* cancelScheduledSetting
Cancellable(x, t) == x.from > t /\ ~Superseded(x) /\ (x.key = Fee => FeeCancellable(x, t))

\* The value that applied before is added once more, for the same time.
CommitCancel(r) ==
  LET q == edit[r] IN
  /\ q.at = "cancel"
  /\ IF ~Cancellable(q.row, q.now)
     THEN DropEdit(r)
     ELSE Add({q.row.key}, [k \in {q.row.key} |-> Restored(q.row)], q.row.from, "cancel") /\ End(r) /\ UNCHANGED run

\* confirmSettings: defaults in use are stored as they are.
CommitConfirm(r) ==
  LET q    == edit[r]
      keys == {k \in q.keys : EffectiveRow(Own(k), q.now) = {}}
  IN /\ q.at = "confirm"
     /\ IF keys = {} THEN DropEdit(r) ELSE Add(keys, Default, q.now, "confirm") /\ End(r) /\ UNCHANGED run

\* saveFeeSchedule; a schedule that applies at once sends r on to reprice, by
\* whatever is in force at r's time.
CommitFee(r) ==
  LET q == edit[r] IN
  /\ q.at = "fee"
  /\ IF EffectiveRow(Own(Fee), q.from) # {} /\ ValueAt(Fee, q.from) = q.value
     THEN DropEdit(r)
     ELSE /\ Add({Fee}, [k \in {Fee} |-> q.value], q.from, "save")
          /\ edit' = [edit EXCEPT ![r] = IF q.from <= q.now THEN [at |-> "reprice", now |-> q.now] ELSE NoEdit]
          /\ UNCHANGED <<area, now, run, app, edits>>

-----------------------------------------------------------------------------
(* What applications cost.                                                 *)

\* submitApplication reads the fee before its transaction...
ReadFee(a) ==
  /\ Fee \in area
  /\ app[a].status = "none"
  /\ app' = [app EXCEPT ![a].status = "asking", ![a].fee = FeeRow(now).id, ![a].total = FeeRow(now).value]
  /\ UNCHANGED <<area, now, rows, last, edit, run, edits>>

\* ... and inserts the application, free ones as paid.
Submit(a, method) ==
  /\ app[a].status = "asking"
  /\ app' = [app EXCEPT ![a].status = IF app[a].total = 0 THEN "closed" ELSE "pending", ![a].method = method]
  /\ UNCHANGED <<area, now, rows, last, edit, run, edits>>

\* Paid, withdrawn or expired.
Close(a) ==
  /\ app[a].status = "pending"
  /\ app' = [app EXCEPT ![a].status = "closed"]
  /\ UNCHANGED <<area, now, rows, last, edit, run, edits>>

\* Mutant: only who applied under the schedule before is looked for.
Stale_Previous(a, fee) == app[a].status = "pending" /\ app[a].method = "bank" /\ app[a].fee = fee - 1

Stale(a, fee) == app[a].status = "pending" /\ app[a].method = "bank" /\ app[a].fee # fee

\* repricePendingApplications: the fee in force, and whom it concerns.
StartRun(j, t) ==
  LET x == FeeRow(t) IN run' = [run EXCEPT ![j] = [fee |-> x.id, price |-> x.value, todo |-> {a \in App : Stale(a, x.id)}]]

RepriceJob ==
  /\ run[Worker].todo = {} /\ \E a \in App : Stale(a, FeeRow(now).id)
  /\ StartRun(Worker, now)
  /\ UNCHANGED <<area, now, rows, last, edit, app, edits>>

RepriceAfterSave(r) ==
  /\ edit[r].at = "reprice"
  /\ StartRun(r, edit[r].now)
  /\ edit' = [edit EXCEPT ![r] = NoEdit]
  /\ UNCHANGED <<area, now, rows, last, app, edits>>

\* Mutant: the status is not looked at again under the lock.
StillPending_Trusting(a) == app[a].status # "none"

StillPending(a) == app[a].status = "pending"

\* One application, under its lock; a schedule without a price for it leaves
\* the amount alone and is recorded all the same.
Reprice(j, a) ==
  LET fee == run[j].fee
      price == run[j].price
  IN /\ a \in run[j].todo
     /\ run' = [run EXCEPT ![j].todo = @ \ {a}]
     /\ app' = IF StillPending(a) /\ app[a].fee # fee
               THEN [app EXCEPT ![a].fee = fee, ![a].total = IF price = 0 THEN @ ELSE price]
               ELSE app
     /\ UNCHANGED <<area, now, rows, last, edit, edits>>

-----------------------------------------------------------------------------
Editing(r) ==
  \/ OpenForm(r)
  \/ \E form \in Form, t \in 0..Horizon : AskSave(r, form, t)
  \/ \E x \in rows : AskRevert(r, x) \/ AskCancel(r, x)
  \/ \E k \in Setting : AskConfirm(r, k)
  \/ \E price \in Values[Fee], t \in 0..Horizon : AskFee(r, price, t)
  \/ CommitSave(r) \/ CommitRevert(r) \/ CommitCancel(r) \/ CommitConfirm(r) \/ CommitFee(r)
  \/ RepriceAfterSave(r)

Applying(a) == ReadFee(a) \/ Close(a) \/ \E method \in {"bank", "pg"} : Submit(a, method)

Repricing(j) == \E a \in App : Reprice(j, a)

PolicyNext ==
  \/ Tick
  \/ \E r \in Edit : Editing(r)
  \/ \E a \in App : Applying(a)
  \/ RepriceJob
  \/ \E j \in Edit \cup {Worker} : Repricing(j)

\* The worker's job runs every minute and a run of it gets to its end.  A
\* request need not: its process may die when its schedule is committed.
Fairness == WF_policyVars(RepriceJob) /\ WF_policyVars(Repricing(Worker))

PolicySpec == PolicyInit /\ [][PolicyNext]_policyVars /\ Fairness

-----------------------------------------------------------------------------
(* Properties.                                                             *)

\* Every version has a key, a value its definition allows and a time; the
\* newest id is last; a price is that of some version.
PolicyTypeOK ==
  /\ now \in 1..Horizon
  /\ rows \subseteq [id : 1..last, key : Key, value : UNION {Values[k] : k \in Key}, from : 0..Horizon,
                     by : {"save", "revert", "cancel", "confirm"}]
  /\ \A x \in rows : x.value \in Values[x.key]
  /\ \A a \in App : app[a].fee # 0 => \E x \in Own(Fee) : x.id = app[a].fee

\* The time a waiting transaction may still write for.
OldestEdit == {edit[r].now : r \in {s \in Edit : edit[s].at \notin {"idle", "form"}}}

\* What applied in the past is never rewritten (DEVELOPMENT_PLAN 2.7: versions
\* are stacked, not overwritten): at any time before now, and before the clock
\* a waiting request has read, every key keeps its value for ever.  The
\* versions recorded in an application's snapshot stay explicable.
PastStands ==
  [][\A k \in Key, t \in 0..Horizon :
       t < now /\ (\A u \in OldestEdit : t < u) => EffectiveRow(Own(k), t)' = EffectiveRow(Own(k), t)]_policyVars

\* A cancelled reservation is silent: the key goes on with what applied just
\* before, and nothing else changes, however many versions are scheduled.
CancelIsSilent ==
  [][\A r \in Edit : edit[r].at = "cancel" /\ edit'[r] = NoEdit /\ rows' # rows =>
       \A x \in {edit[r].row} :
       /\ ValueAt(x.key, x.from)' = ValueAt(x.key, x.from - 1)
       /\ \A k \in Key, t \in 0..Horizon : k # x.key \/ t < x.from => ValueAt(k, t)' = ValueAt(k, t)]_policyVars

\* The settings agree with each other at every time, present and to come, as
\* long as nobody cancels a reservation and versions are added in the order of
\* their times.  (A change scheduled behind the back of a later one, or a
\* cancellation, is not checked against what follows: neither hypothesis can
\* be dropped.  It takes rules that name what they depend on: one rule of the
\* code does not, see MCPolicies.)
RulesHoldInOrder ==
  LET own == {x \in rows : x.key # Fee} IN
  (\A x \in own : x.by # "cancel") /\ (\A x, y \in own : x.id < y.id => x.from <= y.from)
    => \A t \in 0..Horizon, rule \in Rule : ValuesAt(t) \in rule.met

\* What was paid, or is being paid through the PG, is never repriced, however
\* old the list a repricing run works from.
PaidPriceStands ==
  [][\A a \in App : app[a].status = "closed" \/ (app[a].status = "pending" /\ app[a].method = "pg")
                      => app'[a].total = app[a].total /\ app'[a].fee = app[a].fee]_policyVars

\* Whatever submissions, saves and runs with older schedules do to each other,
\* in the end who has not paid yet is asked the price in force.
PricesFollowFees ==
  <>[](\A a \in App : app[a].status = "pending" /\ app[a].method = "bank" => app[a].fee = FeeRow(now).id)
=============================================================================
