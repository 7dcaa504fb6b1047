----------------------------- MODULE OrgLimits -----------------------------
(***************************************************************************)
(* The two limits of an organisation: one application a day (BR-03) and so *)
(* many in half a year (BR-04).                                            *)
(*                                                                         *)
(* A submission reads the settings, then opens a transaction that takes an *)
(* advisory lock on the registration number, looks the organisation up,    *)
(* counts its applications, and inserts a row.  Without a registration     *)
(* number there is no lock and no count.  Administrators who correct an    *)
(* application, and the import, set organisation and day with neither.     *)
(***************************************************************************)
EXTENDS Integers, FiniteSets

CONSTANTS
  App,      \* applications that may come in
  Org,      \* registration numbers
  NoOrg,    \* no registration number
  Day,      \* days of use
  Half,     \* days in half a year
  Rules     \* the values the settings of the two limits take

ASSUME DaysAreIntegers == Day \subseteq Int /\ Half \in Nat \ {0}

ASSUME NoOrgIsNone == NoOrg \notin Org

\* The settings as their definitions allow them; a limit of zero is none of them.
ASSUME RulesAreSettings ==
  Rules \subseteq [oneDay : BOOLEAN, half : BOOLEAN, count : Nat \ {0},
                   method : {"rolling", "calendarHalf"}, target : {"submitted", "confirmed"}]

ASSUME AppsAreFinite == IsFiniteSet(App)

VARIABLES
  app,    \* app[a]: the row of application a
  orgs,   \* registration numbers with a row in organizations
  rule,   \* the settings of the two limits
  tx,     \* tx[a]: the submission that would create a
  under,  \* under[a]: the settings a was counted under, Unchecked if nobody counted
  since   \* history, since[a]: what others than submissions changed or brought in since a counted

vars == <<app, orgs, rule, tx, under, since>>

-----------------------------------------------------------------------------
Pending == {"pending_payment"}
Live == {"submitted", "confirmed"}
Finished == {"completed"}
Ended == {"ended"}

NoApp == [status |-> "none"]
Rows == [status : Pending \cup Live \cup Finished \cup Ended, org : Org \cup {NoOrg}, day : Day, free : BOOLEAN]

Unchecked == [oneDay |-> FALSE, half |-> FALSE, count |-> 0, method |-> "rolling", target |-> "submitted"]

\* A submission: where it is, and what it carries since it read the settings.
NoTx == [pc |-> "none"]

Init ==
  /\ app = [a \in App |-> NoApp]
  /\ orgs = {}
  /\ rule \in Rules
  /\ tx = [a \in App |-> NoTx]
  /\ under = [a \in App |-> Unchecked]
  /\ since = [a \in App |-> {}]

Holds(a) == app[a].status \in Pending \cup Live \cup Finished

\* Half a year counted back from the day, or the half of the year it is in.
HalfYear(d, method) ==
  IF method = "calendarHalf" THEN {e \in Day : e \div Half = d \div Half}
                             ELSE {e \in Day : d - Half < e /\ e <= d}

Target(t) == IF t = "confirmed" THEN {"confirmed", "completed"} ELSE {"submitted", "confirmed", "completed"}

SameDay(o, d) == {b \in App : Holds(b) /\ app[b].org = o /\ app[b].day = d}

InPeriod(o, d, s) ==
  {b \in App : Holds(b) /\ app[b].org = o /\ app[b].day \in HalfYear(d, s.method) /\ app[b].status \in Target(s.target)}

\* An organisation without a row has no applications to count.
Within(t) ==
  t.org \in orgs =>
    /\ t.rule.oneDay => SameDay(t.org, t.day) = {}
    /\ t.rule.half => Cardinality(InPeriod(t.org, t.day, t.rule)) < t.rule.count

-----------------------------------------------------------------------------
\* submitApplication reads the settings and the price before its transaction.
Begin(a) ==
  /\ app[a] = NoApp
  /\ tx[a] = NoTx
  /\ \E o \in Org \cup {NoOrg}, d \in Day, free \in BOOLEAN :
       tx' = [tx EXCEPT ![a] = [pc |-> "lock", org |-> o, day |-> d, free |-> free, rule |-> rule]]
  /\ UNCHANGED <<app, orgs, rule, under, since>>

\* pg_advisory_xact_lock of the registration number, held to the end.
Inside == {"count", "insert"}

\* Mutant: the lock is that of the organisation's row, which a first
\* application does not have yet.
LockFree_Known(o) == o \in orgs => \A b \in App : ~(tx[b].pc \in Inside /\ tx[b].org = o)

LockFree(o) == \A b \in App : ~(tx[b].pc \in Inside /\ tx[b].org = o)

Lock(a) ==
  /\ tx[a].pc = "lock"
  /\ tx[a].org # NoOrg => LockFree(tx[a].org)
  /\ tx' = [tx EXCEPT ![a].pc = "count"]
  /\ UNCHANGED <<app, orgs, rule, under, since>>

Count(a) ==
  /\ tx[a].pc = "count"
  /\ tx' = [tx EXCEPT ![a] = IF @.org = NoOrg \/ Within(@) THEN [@ EXCEPT !.pc = "insert"] ELSE NoTx]
  /\ UNCHANGED <<app, orgs, rule, under, since>>

\* The rows, and the commit that lets go of the lock.
Insert(a) ==
  /\ tx[a].pc = "insert"
  /\ app' = [app EXCEPT ![a] = [status |-> IF tx[a].free THEN "submitted" ELSE "pending_payment",
                                org |-> tx[a].org, day |-> tx[a].day, free |-> tx[a].free]]
  /\ orgs' = orgs \cup ({tx[a].org} \ {NoOrg})
  /\ under' = [under EXCEPT ![a] = IF tx[a].org = NoOrg THEN Unchecked ELSE tx[a].rule]
  /\ tx' = [tx EXCEPT ![a] = NoTx]
  /\ since' = [since EXCEPT ![a] = {}]
  /\ UNCHANGED rule

\* The slot is taken, another rule is broken, or the connection goes.
Fail(a) ==
  /\ tx[a] # NoTx
  /\ tx' = [tx EXCEPT ![a] = NoTx]
  /\ since' = [since EXCEPT ![a] = {}]
  /\ UNCHANGED <<app, orgs, rule, under>>

-----------------------------------------------------------------------------
\* Payment, review, use, and the ways an application ends.
Transition == {<<"pending_payment", "submitted">>, <<"submitted", "confirmed">>,
               <<"confirmed", "completed">>, <<"completed", "confirmed">>,
               <<"pending_payment", "ended">>, <<"submitted", "ended">>, <<"confirmed", "ended">>}

\* Nothing here waits for the lock.
Unseen(b) == since' = [a \in App |-> IF tx[a].pc = "insert" THEN since[a] \cup {b} ELSE since[a]]

Move(a) ==
  /\ \E st \in Transition :
       /\ app[a].status = st[1]
       /\ app' = [app EXCEPT ![a].status = st[2]]
  /\ Unseen(a)
  /\ UNCHANGED <<orgs, rule, tx, under>>

Delete(a) ==
  /\ app[a] # NoApp
  /\ app' = [app EXCEPT ![a] = NoApp]
  /\ under' = [under EXCEPT ![a] = Unchecked]
  /\ UNCHANGED <<orgs, rule, tx, since>>

\* The day moves only while the application holds its slot; the organisation
\* may change at any time.
AdminEdit(a) ==
  /\ app[a] # NoApp
  /\ \E o \in Org \cup {NoOrg}, d \in Day :
       /\ <<o, d>> # <<app[a].org, app[a].day>>
       /\ d # app[a].day => app[a].status \in Pending \cup Live
       /\ app' = [app EXCEPT ![a].org = o, ![a].day = d]
       /\ orgs' = orgs \cup ({o} \ {NoOrg})
  /\ under' = [under EXCEPT ![a] = Unchecked]
  /\ Unseen(a)
  /\ UNCHANGED <<rule, tx>>

ImportNotion(a) ==
  /\ app[a] = NoApp
  /\ tx[a] = NoTx
  /\ \E o \in Org \cup {NoOrg}, d \in Day :
       /\ app' = [app EXCEPT ![a] = [status |-> "pending_payment", org |-> o, day |-> d, free |-> FALSE]]
       /\ orgs' = orgs \cup ({o} \ {NoOrg})
  /\ Unseen(a)
  /\ UNCHANGED <<rule, tx, under>>

SaveRules ==
  /\ rule' \in Rules \ {rule}
  /\ UNCHANGED <<app, orgs, tx, under, since>>

Next ==
  \/ \E a \in App :
       \/ Begin(a) \/ Lock(a) \/ Count(a) \/ Insert(a) \/ Fail(a)
       \/ Move(a) \/ Delete(a) \/ AdminEdit(a) \/ ImportNotion(a)
  \/ SaveRules

Spec == Init /\ [][Next]_vars

-----------------------------------------------------------------------------
TypeOK ==
  /\ \A a \in App : app[a] = NoApp \/ app[a] \in Rows
  /\ orgs \subseteq Org
  /\ rule \in Rules
  /\ \A a \in App : tx[a] = NoTx \/ tx[a].pc \in {"lock"} \cup Inside
  /\ \A a \in App : under[a] \in Rules \cup {Unchecked}
  /\ since \in [App -> SUBSET App]

\* BR-03: however submissions of one organisation overlap, and whatever the
\* settings did meanwhile, at most one application of a day came in under the
\* rule and still stands as it came in.
OnePerDay ==
  \A a, b \in App :
    (/\ a # b /\ Holds(a) /\ Holds(b)
     /\ under[a].oneDay /\ under[b].oneDay
     /\ app[a].org = app[b].org) => app[a].day # app[b].day

\* Both limits, whatever the settings count and how: when a submission inserts,
\* its organisation has room for it, as far as submissions go.  Only a payment,
\* a decision, a correction or an import that came between its count and its
\* insertion may have filled the room, because none of them takes the lock;
\* another submission never has.
RoomAtInsert ==
  \A a \in App : tx[a].pc = "insert" /\ tx[a].org # NoOrg =>
    LET t == tx[a]
    IN /\ t.rule.oneDay => SameDay(t.org, t.day) \subseteq since[a]
       /\ t.rule.half => Cardinality(InPeriod(t.org, t.day, t.rule) \ since[a]) < t.rule.count

\* What remains of BR-04 afterwards, where an application counts from its first
\* moment and for every later one: of free applications, in calendar halves,
\* with all but unpaid ones as the target, no organisation has more in a half
\* than the limit each came in under.  By the other settings an organisation
\* may come to have more: those that are not paid, not confirmed, or of a later
\* day are not counted when others come in, and count later.
CalendarHalfKept ==
  \A s \in {r \in Rules : r.half /\ r.method = "calendarHalf" /\ r.target = "submitted"}, o \in Org, d \in Day :
    Cardinality({a \in App : /\ Holds(a) /\ under[a] = s /\ app[a].free
                             /\ app[a].org = o /\ app[a].day \in HalfYear(d, s.method)}) <= s.count

\* What submit.ts serialises the submissions of an organisation for: none is
\* let in for want of seeing another, by whatever settings, and what those
\* settings keep for good is kept.
LimitsKept == OnePerDay /\ RoomAtInsert /\ CalendarHalfKept
=============================================================================
