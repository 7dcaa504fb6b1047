------------------------- MODULE NotificationProofs -------------------------
(***************************************************************************)
(* The e-mail queue: ReminderOnce and RepeatedByFaultsOnly, for any number *)
(* of applications, messages, flushes, attempts and faults.                *)
(*                                                                         *)
(* ReminderOnce needs that nobody who was reminded is still on the list of *)
(* the reminder job (DueNotReminded).  RepeatedByFaultsOnly is a sum over  *)
(* all rows; what is inductive is that the deliveries beyond the one that  *)
(* was recorded (Surplus) are no more than the faults, because a row that  *)
(* is being sent is pending and held by one flush only.                    *)
(***************************************************************************)
EXTENDS NotificationQueue, Sums, TLAPS

LogRow ==
  [app : App, event : {"change", "reminder"}, channel : {"email", "lms"}, to : {"applicant", "staff"},
   status : {"pending", "sent", "failed", "skipped"}, attempts : Nat]

RowsTyped == logs \in Seq(LogRow)

\* Whom the job is about to remind was not reminded yet.
DueNotReminded == \A a \in due : ~Reminded(a)

RemindInv == RowsTyped /\ DueNotReminded /\ ReminderOnce

-----------------------------------------------------------------------------
\* r is s and then t.
Follows(s, t, r) ==
  /\ Len(s) \in Nat /\ Len(t) \in Nat /\ Len(r) = Len(s) + Len(t)
  /\ DOMAIN s = 1 .. Len(s) /\ DOMAIN t = 1 .. Len(t) /\ DOMAIN r = 1 .. Len(s) + Len(t)
  /\ \A i \in DOMAIN s : r[i] = s[i] /\ i \in DOMAIN r
  /\ \A i \in DOMAIN r : i \notin DOMAIN s => i - Len(s) \in DOMAIN t /\ r[i] = t[i - Len(s)]

LEMMA Joined ==
  ASSUME NEW T, NEW s \in Seq(T), NEW t \in Seq(T)
  PROVE  s \o t \in Seq(T) /\ Follows(s, t, s \o t)
<1>1. /\ s \o t \in Seq(T)
      /\ Len(s) \in Nat /\ Len(t) \in Nat /\ Len(s \o t) = Len(s) + Len(t)
      /\ DOMAIN s = 1 .. Len(s) /\ DOMAIN t = 1 .. Len(t) /\ DOMAIN (s \o t) = 1 .. Len(s) + Len(t)
  OBVIOUS
<1>2. \A i \in 1 .. Len(s) : (s \o t)[i] = s[i] /\ i \in 1 .. Len(s) + Len(t)
  BY <1>1
<1>3. \A i \in 1 .. Len(s) + Len(t) : i > Len(s) => i - Len(s) \in 1 .. Len(t) /\ (s \o t)[i] = t[i - Len(s)]
  BY <1>1
<1> QED
  BY <1>1, <1>2, <1>3 DEF Follows

\* The rows of an event are new ones of that application and event, of no
\* channel more than one if the staff is not told.
NewRows(rs, a, event) ==
  /\ rs \in Seq(LogRow)
  /\ \A i \in DOMAIN rs : rs[i].app = a /\ rs[i].event = event /\ rs[i].status \in {"pending", "skipped"}

LEMMA RowsAre ==
  ASSUME NEW a \in App, NEW event \in {"change", "reminder"}, NEW staff \in BOOLEAN
  PROVE  /\ NewRows(Rows(a, event, staff), a, event)
         /\ ~staff => \A i, j \in DOMAIN Rows(a, event, staff) :
                        Rows(a, event, staff)[i].channel = Rows(a, event, staff)[j].channel => i = j
<1> DEFINE row(ch, to, st) == [app |-> a, event |-> event, channel |-> ch, to |-> to, status |-> st, attempts |-> 0]
           mail == IF channel \in {"both", "email"}
                   THEN <<row("email", "applicant", IF a \in NoAddress THEN "skipped" ELSE "pending")>> ELSE <<>>
           text == IF channel \in {"both", "lms"} THEN <<row("lms", "applicant", "skipped")>> ELSE <<>>
           desk == IF staff THEN <<row("email", "staff", "pending")>> ELSE <<>>
<1>1. Rows(a, event, staff) = mail \o text \o desk
  BY DEF Rows
<1>2. \A ch \in {"email", "lms"}, to \in {"applicant", "staff"}, st \in {"skipped", "pending"} :
        row(ch, to, st) \in LogRow
  BY DEF LogRow
<1>3. /\ mail \in Seq(LogRow) /\ text \in Seq(LogRow) /\ desk \in Seq(LogRow)
      /\ Len(mail) <= 1 /\ Len(text) <= 1 /\ (~staff => Len(desk) = 0)
  BY <1>2
<1>4. \A rs \in {mail, text, desk} : \A i \in DOMAIN rs :
        rs[i].app = a /\ rs[i].event = event /\ rs[i].status \in {"pending", "skipped"}
  OBVIOUS
<1>5. /\ \A i \in DOMAIN mail : mail[i].channel = "email"
      /\ \A i \in DOMAIN text : text[i].channel = "lms"
  OBVIOUS
<1> HIDE DEF mail, text, desk
<1> DEFINE both == mail \o text
           all == both \o desk
<1>6. both \in Seq(LogRow) /\ Follows(mail, text, both)
  BY <1>3, Joined
<1> HIDE DEF both
<1>7. all \in Seq(LogRow) /\ Follows(both, desk, all)
  BY <1>3, <1>6, Joined
<1> HIDE DEF all
<1>8. NewRows(all, a, event)
  BY <1>4, <1>6, <1>7 DEF NewRows, Follows
<1>9. ASSUME ~staff, NEW i \in DOMAIN all, NEW j \in DOMAIN all, all[i].channel = all[j].channel PROVE i = j
  <2>1. DOMAIN all = DOMAIN both
    BY <1>3, <1>6, <1>7, <1>9 DEF Follows
  <2>2. \A k \in DOMAIN all : \/ k = 1 /\ k \in DOMAIN mail /\ all[k].channel = "email"
                              \/ k = Len(mail) + 1 /\ k \notin DOMAIN mail /\ all[k].channel = "lms"
    <3> SUFFICES ASSUME NEW k \in DOMAIN all
                 PROVE  \/ k = 1 /\ k \in DOMAIN mail /\ all[k].channel = "email"
                        \/ k = Len(mail) + 1 /\ k \notin DOMAIN mail /\ all[k].channel = "lms"
      OBVIOUS
    <3>1. CASE k \in DOMAIN mail
      BY <1>3, <1>5, <1>6, <1>7, <2>1, <3>1 DEF Follows
    <3>2. CASE k \notin DOMAIN mail
      <4>1. k - Len(mail) \in DOMAIN text /\ all[k] = text[k - Len(mail)]
        BY <1>6, <1>7, <2>1, <3>2 DEF Follows
      <4>2. k \in Nat /\ k - Len(mail) = 1
        BY <1>3, <1>6, <2>1, <4>1 DEF Follows
      <4> QED
        BY <1>5, <1>6, <3>2, <4>1, <4>2 DEF Follows
    <3> QED
      BY <3>1, <3>2
  <2> QED
    BY <1>9, <2>2
<1> QED
  BY <1>1, <1>8, <1>9 DEF all, both

-----------------------------------------------------------------------------
(* Reminders.                                                              *)

\* Rows keep what they are about, whatever comes of them.
SameRows ==
  /\ logs' \in Seq(LogRow) /\ DOMAIN logs' = DOMAIN logs
  /\ \A i \in DOMAIN logs : /\ logs'[i].app = logs[i].app /\ logs'[i].event = logs[i].event
                            /\ logs'[i].channel = logs[i].channel

LEMMA RemindersSame ==
  ASSUME RemindInv, SameRows, due' \subseteq due
  PROVE  RemindInv'
  BY DEF RemindInv, RowsTyped, SameRows, DueNotReminded, ReminderOnce, Reminded

\* A row is replaced by one that is about the same.
LEMMA RowChanges ==
  ASSUME RowsTyped, NEW i \in Nat, NEW r,
         i \in DOMAIN logs => /\ r \in LogRow /\ r.app = logs[i].app /\ r.event = logs[i].event
                              /\ r.channel = logs[i].channel,
         logs' = [logs EXCEPT ![i] = r]
  PROVE  SameRows
<1>1. \A j \in DOMAIN logs : logs[j] \in LogRow /\ logs'[j] = IF j = i THEN r ELSE logs[j]
  BY DEF RowsTyped
<1>2. DOMAIN logs' = DOMAIN logs /\ DOMAIN logs = 1 .. Len(logs) /\ Len(logs) \in Nat
  BY DEF RowsTyped
<1>4. logs' \in Seq(LogRow)
  <2>1. CASE i \in DOMAIN logs
    BY <2>1 DEF RowsTyped
  <2>2. CASE i \notin DOMAIN logs
    <3>1. logs' = logs
      BY <2>2 DEF RowsTyped
    <3> QED
      BY <3>1 DEF RowsTyped
  <2> QED
    BY <2>1, <2>2
<1> QED
  BY <1>1, <1>2, <1>4 DEF SameRows

LEMMA EnqueuedIs ==
  ASSUME RowsTyped, NEW a \in App, NEW event \in {"change", "reminder"}, NEW rs, NewRows(rs, a, event),
         logs' = logs \o rs
  PROVE  /\ logs' \in Seq(LogRow) /\ DOMAIN logs \subseteq DOMAIN logs'
         /\ \A i \in DOMAIN logs : logs'[i] = logs[i]
         /\ \A i \in DOMAIN logs' : i \notin DOMAIN logs =>
              i - Len(logs) \in DOMAIN rs /\ logs'[i] = rs[i - Len(logs)]
         /\ Len(logs) \in Nat /\ DOMAIN logs' \subseteq Nat
  BY Joined DEF RowsTyped, NewRows, Follows

LEMMA TellKeeps ==
  ASSUME RemindInv, NEW a \in App, NEW settles \in BOOLEAN, NEW staff \in BOOLEAN, Tell(a, settles, staff)
  PROVE  RemindInv'
<1> DEFINE rs == Rows(a, "change", staff)
<1>1. NewRows(rs, a, "change") /\ logs' = logs \o rs /\ due' = due /\ RowsTyped
  BY RowsAre DEF Tell, Enqueue, RemindInv
<1> HIDE DEF rs
<1>2. /\ logs' \in Seq(LogRow) /\ DOMAIN logs \subseteq DOMAIN logs'
      /\ \A i \in DOMAIN logs : logs'[i] = logs[i]
      /\ \A i \in DOMAIN logs' : i \notin DOMAIN logs =>
           i - Len(logs) \in DOMAIN rs /\ logs'[i] = rs[i - Len(logs)]
  BY <1>1, EnqueuedIs
<1>3. \A i \in DOMAIN logs' : logs'[i].event = "reminder" => i \in DOMAIN logs /\ logs'[i] = logs[i]
  BY <1>1, <1>2 DEF NewRows
<1> QED
  BY <1>1, <1>2, <1>3 DEF RemindInv, RowsTyped, DueNotReminded, ReminderOnce, Reminded

LEMMA RemindKeeps ==
  ASSUME RemindInv, NEW a \in App, Remind(a)
  PROVE  RemindInv'
<1> DEFINE rs == Rows(a, "reminder", FALSE)
<1>1. /\ NewRows(rs, a, "reminder") /\ logs' = logs \o rs /\ due' = due \ {a} /\ RowsTyped /\ ~Reminded(a)
      /\ \A i, j \in DOMAIN rs : rs[i].channel = rs[j].channel => i = j
  BY RowsAre DEF Remind, Enqueue, RemindInv, DueNotReminded
<1> HIDE DEF rs
<1>2. /\ logs' \in Seq(LogRow) /\ DOMAIN logs \subseteq DOMAIN logs'
      /\ \A i \in DOMAIN logs : logs'[i] = logs[i]
      /\ \A i \in DOMAIN logs' : i \notin DOMAIN logs =>
           i - Len(logs) \in DOMAIN rs /\ logs'[i] = rs[i - Len(logs)]
      /\ Len(logs) \in Nat /\ DOMAIN logs' \subseteq Nat
  BY <1>1, EnqueuedIs
<1>3. \A i \in DOMAIN logs' : i \notin DOMAIN logs => logs'[i].app = a
  BY <1>1, <1>2 DEF NewRows
<1>4. \A i \in DOMAIN logs : logs[i].event = "reminder" => logs[i].app # a
  BY <1>1 DEF Reminded
<1>5. ReminderOnce'
  <2> SUFFICES ASSUME NEW i \in DOMAIN logs', NEW j \in DOMAIN logs',
                      logs'[i].event = "reminder", logs'[j].event = "reminder",
                      logs'[i].app = logs'[j].app, logs'[i].channel = logs'[j].channel
               PROVE  i = j
    BY DEF ReminderOnce
  <2>1. CASE i \in DOMAIN logs /\ j \in DOMAIN logs
    BY <1>2, <2>1 DEF RemindInv, ReminderOnce
  <2>2. CASE i \notin DOMAIN logs /\ j \notin DOMAIN logs
    <3>1. i - Len(logs) = j - Len(logs)
      BY <1>1, <1>2, <2>2
    <3> QED
      BY <1>2, <3>1
  <2> QED
    BY <1>2, <1>3, <1>4, <2>1, <2>2
<1>6. DueNotReminded'
  BY <1>1, <1>2, <1>3 DEF RemindInv, DueNotReminded, Reminded
<1> QED
  BY <1>2, <1>5, <1>6 DEF RemindInv, RowsTyped

\* The row that f sends is committed as r.
LEMMA CommitMoves ==
  ASSUME RowsTyped, NEW f \in Flusher, NEW i \in Nat, i = flush[f].row, NEW r,
         i \in DOMAIN logs => /\ r \in LogRow /\ r.app = logs[i].app /\ r.event = logs[i].event
                              /\ r.channel = logs[i].channel,
         Commit(f, r)
  PROVE  SameRows
  BY RowChanges DEF Commit

LEMMA TriedIs ==
  ASSUME RowsTyped, NEW i \in DOMAIN logs, NEW st \in {"sent", "failed", "pending"}
  PROVE  LET r == [Tried(i) EXCEPT !.status = st] IN
           /\ r \in LogRow /\ r.app = logs[i].app /\ r.event = logs[i].event /\ r.channel = logs[i].channel
           /\ r.status = st
<1>1. PICK x \in LogRow : x = logs[i]
  BY DEF RowsTyped
<1>2. PICK t \in LogRow : t = Tried(i) /\ t.app = logs[i].app /\ t.event = logs[i].event /\ t.channel = logs[i].channel
  <2>1. PICK n \in Nat : n = x.attempts + 1
    BY DEF LogRow
  <2>2. LET t == [x EXCEPT !.attempts = n] IN
          t \in LogRow /\ t.app = x.app /\ t.event = x.event /\ t.channel = x.channel
    BY DEF LogRow
  <2>3. Tried(i) = [x EXCEPT !.attempts = n]
    BY <1>1, <2>1 DEF Tried
  <2> QED
    BY <1>1, <2>2, <2>3
<1>3. LET r == [t EXCEPT !.status = st] IN
        r \in LogRow /\ r.app = t.app /\ r.event = t.event /\ r.channel = t.channel /\ r.status = st
  BY <1>2 DEF LogRow
<1> QED
  BY <1>2, <1>3

LEMMA WorkingMoves ==
  ASSUME RowsTyped, flush \in [Flusher -> [row : Nat, left : Int]], NEW f \in Flusher, Working(f)
  PROVE  SameRows /\ due' = due
<1>0. flush[f].row \in Nat
  OBVIOUS
<1>1. CASE StartFlush(f) \/ GoOn(f) \/ \E sent \in BOOLEAN : Crash(f, sent)
  BY <1>1 DEF StartFlush, GoOn, Crash, SameRows, RowsTyped
<1>2. PICK i \in Nat : i = flush[f].row
  BY <1>0
<1>3. CASE Send(f)
  <2>1. Commit(f, [Tried(i) EXCEPT !.status = "sent"]) /\ due' = due
    BY <1>2, <1>3 DEF Send
  <2>2. i \in DOMAIN logs => LET r == [Tried(i) EXCEPT !.status = "sent"] IN
           r \in LogRow /\ r.app = logs[i].app /\ r.event = logs[i].event /\ r.channel = logs[i].channel
    BY TriedIs
  <2> QED
    BY <1>2, <2>1, <2>2, CommitMoves
<1>4. CASE SendRefused(f) \/ SendUnanswered(f)
  <2>1. PICK st \in {"failed", "pending"} : st = AfterFailure(logs[i].attempts + 1)
    BY DEF AfterFailure
  <2>2. Commit(f, [Tried(i) EXCEPT !.status = st]) /\ due' = due
    BY <1>2, <1>4, <2>1 DEF SendRefused, SendUnanswered, Fail
  <2>3. i \in DOMAIN logs => LET r == [Tried(i) EXCEPT !.status = st] IN
           r \in LogRow /\ r.app = logs[i].app /\ r.event = logs[i].event /\ r.channel = logs[i].channel
    BY TriedIs
  <2> QED
    BY <1>2, <2>2, <2>3, CommitMoves
<1> QED
  BY <1>1, <1>3, <1>4 DEF Working

LEMMA RetryMoves ==
  ASSUME RowsTyped, NEW i \in DOMAIN logs, RetryNotifications(i)
  PROVE  SameRows /\ due' = due
<1>1. logs[i] \in LogRow /\ i \in Nat
  BY DEF RowsTyped
<1> DEFINE r == [logs[i] EXCEPT !.status = "pending", !.attempts = 0]
<1>2. r \in LogRow /\ r.app = logs[i].app /\ r.event = logs[i].event /\ r.channel = logs[i].channel
  BY <1>1 DEF LogRow
<1>3. logs' = [logs EXCEPT ![i] = r] /\ due' = due
  BY <1>1 DEF RetryNotifications, RowsTyped
<1> HIDE DEF r
<1> QED
  BY <1>1, <1>2, <1>3, RowChanges

-----------------------------------------------------------------------------
(* Deliveries.                                                             *)

\* The flushes have rows, one each, and those are pending.
Flushes == [row : Nat, left : Int]

HeldIsPending ==
  \A f \in Flusher : flush[f].row # 0 => flush[f].row \in DOMAIN logs /\ logs[flush[f].row].status = "pending"

OneRowEach == \A f, g \in Flusher : flush[f].row # 0 /\ flush[f].row = flush[g].row => f = g

\* Deliveries beyond the one that is recorded.
Surplus(l, d) == [i \in DOMAIN d |-> IF l[i].status = "sent" THEN d[i] - 1 ELSE d[i]]

\* Delivery counts for the rows l, of which what is recorded as sent was.
Counts(l, d) ==
  /\ d \in Seq(Nat) /\ Len(d) = Len(l)
  /\ \A i \in DOMAIN l : l[i].status = "sent" => d[i] # 0

SurplusByFaults == faults \in Nat /\ Total(Surplus(logs, delivered), DOMAIN delivered) <= faults

QueueInv ==
  /\ RowsTyped /\ flush \in [Flusher -> Flushes] /\ Counts(logs, delivered)
  /\ HeldIsPending /\ OneRowEach /\ SurplusByFaults

LEMMA SurplusType ==
  ASSUME NEW l \in Seq(LogRow), NEW d, Counts(l, d)
  PROVE  /\ DOMAIN d = DOMAIN l /\ DOMAIN d = 1 .. Len(d) /\ Len(d) \in Nat /\ IsFiniteSet(DOMAIN d)
         /\ \A i \in DOMAIN d : d[i] \in Nat
         /\ Surplus(l, d) \in [DOMAIN d -> Nat]
         /\ Total(Surplus(l, d), DOMAIN d) \in Nat
<1>1. DOMAIN d = DOMAIN l /\ DOMAIN d = 1 .. Len(d) /\ Len(d) \in Nat /\ \A i \in DOMAIN d : d[i] \in Nat
  BY DEF Counts
<1>2. IsFiniteSet(DOMAIN d)
  BY <1>1, FS_Interval
<1>3. \A i \in DOMAIN d : (IF l[i].status = "sent" THEN d[i] - 1 ELSE d[i]) \in Nat
  BY <1>1 DEF Counts
<1>4. Surplus(l, d) \in [DOMAIN d -> Nat]
  BY <1>3 DEF Surplus
<1> QED
  BY <1>1, <1>2, <1>4, TotalType

\* One row has k more, or as many as before.
LEMMA SurplusOne ==
  ASSUME NEW l \in Seq(LogRow), NEW d, Counts(l, d), NEW m \in Seq(LogRow), NEW e, Counts(m, e),
         DOMAIN m = DOMAIN l, NEW i \in DOMAIN l, NEW k \in Nat,
         \A j \in DOMAIN l : j # i => m[j].status = l[j].status /\ e[j] = d[j],
         Surplus(m, e)[i] = Surplus(l, d)[i] + k
  PROVE  Total(Surplus(m, e), DOMAIN e) = Total(Surplus(l, d), DOMAIN d) + k
<1> DEFINE w == Surplus(l, d)
           v == Surplus(m, e)
           D == DOMAIN d
<1>1. DOMAIN e = D /\ IsFiniteSet(D) /\ w \in [D -> Nat] /\ v \in [D -> Nat] /\ i \in D /\ D = DOMAIN l
  BY SurplusType
<1>2. \A j \in D : j # i => v[j] = w[j]
  BY <1>1 DEF Surplus
<1>3. v[i] = w[i] + k
  OBVIOUS
<1> HIDE DEF w, v, D
<1>4. Total(v, D) = Total(w, D) + k
  BY <1>1, <1>2, <1>3, TotalOneMore
<1> QED
  BY <1>1, <1>4 DEF w, v, D

\* New rows have none.
LEMMA SurplusMore ==
  ASSUME NEW l \in Seq(LogRow), NEW d, Counts(l, d), NEW rs \in Seq(LogRow),
         \A i \in DOMAIN rs : rs[i].status # "sent"
  PROVE  LET e == d \o [i \in DOMAIN rs |-> 0] IN
           Counts(l \o rs, e) /\ Total(Surplus(l \o rs, e), DOMAIN e) = Total(Surplus(l, d), DOMAIN d)
<1> DEFINE z == [i \in DOMAIN rs |-> 0]
           m == l \o rs
           e == d \o z
<1>0. z \in Seq(Nat) /\ Len(z) = Len(rs) /\ DOMAIN z = DOMAIN rs /\ \A i \in DOMAIN z : z[i] = 0
  OBVIOUS
<1> HIDE DEF z
<1>1. /\ m \in Seq(LogRow) /\ Len(m) = Len(l) + Len(rs) /\ DOMAIN m = 1 .. Len(l) + Len(rs)
      /\ Len(l) \in Nat /\ Len(rs) \in Nat
      /\ \A i \in DOMAIN l : m[i] = l[i] /\ i \in DOMAIN m
      /\ \A i \in DOMAIN m : i \notin DOMAIN l => i - Len(l) \in DOMAIN rs /\ m[i] = rs[i - Len(l)]
  BY Joined DEF Follows
<1>2. /\ d \in Seq(Nat) /\ Len(d) = Len(l) /\ DOMAIN d = DOMAIN l
  BY DEF Counts
<1>3. /\ e \in Seq(Nat) /\ Len(e) = Len(m) /\ DOMAIN e = DOMAIN m
      /\ \A i \in DOMAIN d : e[i] = d[i]
      /\ \A i \in DOMAIN e : i \notin DOMAIN d => i - Len(d) \in DOMAIN z /\ e[i] = z[i - Len(d)]
  <2>1. /\ e \in Seq(Nat) /\ Len(e) = Len(d) + Len(z) /\ DOMAIN e = 1 .. Len(d) + Len(z)
        /\ \A i \in DOMAIN d : e[i] = d[i]
        /\ \A i \in DOMAIN e : i \notin DOMAIN d => i - Len(d) \in DOMAIN z /\ e[i] = z[i - Len(d)]
    <3>1. d \in Seq(Nat) /\ z \in Seq(Nat)
      BY <1>0, <1>2
    <3> HIDE DEF m
    <3> QED
      BY <3>1, Joined DEF Follows
  <2> QED
    BY <1>0, <1>1, <1>2, <2>1
<1> HIDE DEF m, e
<1>4. Counts(m, e)
  BY <1>0, <1>1, <1>2, <1>3 DEF Counts
<1> DEFINE w == Surplus(l, d)
           v == Surplus(m, e)
           D == DOMAIN d
           E == DOMAIN e
<1>5. w \in [D -> Nat] /\ v \in [E -> Nat] /\ IsFiniteSet(E)
  BY <1>1, <1>4, SurplusType
<1>6. \A i \in D : v[i] = w[i]
  BY <1>1, <1>2, <1>3 DEF Surplus
<1>7. \A i \in E \ D : v[i] = 0
  BY <1>0, <1>1, <1>2, <1>3 DEF Surplus
<1>8. D \in SUBSET E
  BY <1>1, <1>2, <1>3
<1> HIDE DEF w, v, D, E
<1>9. Total(v, E) = Total(w, D)
  BY <1>5, <1>6, <1>7, <1>8, TotalExtended
<1> QED
  BY <1>4, <1>9 DEF w, v, D, E, m, e, z

-----------------------------------------------------------------------------
\* Flush f has, after the step, no row or a pending one of its own; the others
\* have what they had.
OwnRow(f) ==
  /\ flush' \in [Flusher -> Flushes]
  /\ \A g \in Flusher : g # f => flush'[g] = flush[g]
  /\ flush'[f].row # 0 =>
       /\ flush'[f].row \in DOMAIN logs' /\ logs'[flush'[f].row].status = "pending"
       /\ \A g \in Flusher : g # f => flush[g].row # flush'[f].row

LEMMA HeldStays ==
  ASSUME QueueInv, NEW f \in Flusher, OwnRow(f), DOMAIN logs' = DOMAIN logs,
         \A j \in DOMAIN logs : j # flush[f].row => logs'[j] = logs[j]
  PROVE  HeldIsPending' /\ OneRowEach'
<1>1. \A g \in Flusher : g # f /\ flush[g].row # 0 => flush[g].row # flush[f].row /\ flush[g].row \in DOMAIN logs
  BY DEF QueueInv, HeldIsPending, OneRowEach
<1>2. HeldIsPending'
  <2> SUFFICES ASSUME NEW g \in Flusher, flush'[g].row # 0
               PROVE  flush'[g].row \in DOMAIN logs' /\ logs'[flush'[g].row].status = "pending"
    BY DEF HeldIsPending
  <2>1. CASE g = f
    BY <2>1 DEF OwnRow
  <2>2. CASE g # f
    <3>1. flush'[g] = flush[g]
      BY <2>2 DEF OwnRow
    <3> QED
      BY <1>1, <2>2, <3>1 DEF QueueInv, HeldIsPending
  <2> QED
    BY <2>1, <2>2
<1>3. OneRowEach'
  <2> SUFFICES ASSUME NEW g \in Flusher, NEW h \in Flusher, flush'[g].row # 0, flush'[g].row = flush'[h].row
               PROVE  g = h
    BY DEF OneRowEach
  <2>1. CASE g # f /\ h # f
    BY <2>1 DEF OwnRow, QueueInv, OneRowEach
  <2>2. CASE g = f /\ h # f
    BY <2>2 DEF OwnRow
  <2>3. CASE g # f /\ h = f
    BY <2>3 DEF OwnRow
  <2> QED
    BY <2>1, <2>2, <2>3
<1> QED
  BY <1>2, <1>3

\* The oldest row of some.
LEMMA MinIs ==
  ASSUME NEW S \in SUBSET Nat, S # {}
  PROVE  Min(S) \in S
<1>1. PICK x \in S : \A y \in S : <<y, x>> \notin OpToRel(<, Nat)
  BY NatLessThanWellFounded, WFMin
<1>2. ASSUME NEW y \in S PROVE x <= y
  <2>1. ~(y < x)
    BY <1>1 DEF OpToRel
  <2> QED
    BY <2>1
<1> QED
  BY <1>2 DEF Min

LEMMA FieldsAre ==
  ASSUME QueueInv
  PROVE  /\ logs \in Seq(LogRow) /\ Counts(logs, delivered) /\ flush \in [Flusher -> Flushes] /\ faults \in Nat
         /\ DOMAIN delivered = DOMAIN logs /\ DOMAIN logs \subseteq Nat \ {0}
         /\ \A i \in DOMAIN logs : logs[i] \in LogRow /\ delivered[i] \in Nat
  BY SurplusType DEF QueueInv, RowsTyped, SurplusByFaults

\* f takes the oldest of the rows that wait, or ends.
LEMMA TakeKeeps ==
  ASSUME QueueInv, NEW f \in Flusher, StartFlush(f) \/ GoOn(f)
  PROVE  QueueInv'
<1>0. DOMAIN logs \subseteq Nat \ {0} /\ flush \in [Flusher -> Flushes]
  BY FieldsAre
<1>1. /\ logs' = logs /\ delivered' = delivered /\ faults' = faults
      /\ \E left \in Int : flush' = [flush EXCEPT ![f] = IF Selectable = {} THEN NotFlushing
                                                          ELSE [row |-> Min(Selectable), left |-> left]]
  <2>1. flush[f] = [row |-> flush[f].row, left |-> flush[f].left] /\ flush[f].left \in Int
    BY <1>0 DEF Flushes
  <2>2. CASE StartFlush(f)
    <3>1. Limit \in Int
      BY ConstantsAssumption
    <3>2. /\ logs' = logs /\ delivered' = delivered /\ faults' = faults /\ Selectable # {}
          /\ flush' = [flush EXCEPT ![f] = [row |-> Min(Selectable), left |-> Limit]]
      BY <2>2 DEF StartFlush
    <3> QED
      BY <3>1, <3>2
  <2>3. CASE GoOn(f)
    BY <2>1, <2>3 DEF GoOn
  <2> QED
    BY <2>2, <2>3
<1>2. OwnRow(f)
  <2>1. PICK left \in Int : flush' = [flush EXCEPT ![f] = IF Selectable = {} THEN NotFlushing
                                                        ELSE [row |-> Min(Selectable), left |-> left]]
    BY <1>1
  <2>2. CASE Selectable = {}
    BY <1>0, <1>1, <2>1, <2>2 DEF OwnRow, NotFlushing, Flushes
  <2>3. CASE Selectable # {}
    <3>1. Min(Selectable) \in Selectable
      BY <1>0, <2>3, MinIs DEF Selectable
    <3>2. PICK i \in DOMAIN logs : /\ i = Min(Selectable) /\ logs[i].status = "pending"
                                   /\ \A g \in Flusher : flush[g].row # i
      BY <3>1 DEF Selectable, Waiting, Unlocked
    <3>3. [row |-> i, left |-> left] \in Flushes
      BY <1>0, <2>1 DEF Flushes
    <3>4. flush' = [flush EXCEPT ![f] = [row |-> i, left |-> left]]
      BY <2>1, <2>3, <3>2
    <3> QED
      BY <1>0, <1>1, <3>2, <3>3, <3>4 DEF OwnRow
  <2> QED
    BY <2>2, <2>3
<1>3. HeldIsPending' /\ OneRowEach'
  BY <1>1, <1>2, HeldStays
<1> QED
  BY <1>1, <1>2, <1>3 DEF QueueInv, RowsTyped, SurplusByFaults, OwnRow

\* f commits the row it holds as r, and lets it go.
LEMMA CommitOwns ==
  ASSUME QueueInv, NEW f \in Flusher, NEW i \in DOMAIN logs, i = flush[f].row, NEW r \in LogRow, Commit(f, r)
  PROVE  /\ OwnRow(f) /\ logs' \in Seq(LogRow) /\ DOMAIN logs' = DOMAIN logs /\ logs'[i] = r
         /\ \A j \in DOMAIN logs : j # i => logs'[j] = logs[j]
<1>0. logs \in Seq(LogRow) /\ DOMAIN logs \subseteq Nat \ {0} /\ flush \in [Flusher -> Flushes]
  BY FieldsAre
<1>1. /\ logs' = [logs EXCEPT ![i] = r]
      /\ flush' = [flush EXCEPT ![f] = [row |-> 0, left |-> flush[f].left - 1]]
  BY DEF Commit
<1>2. logs' \in Seq(LogRow) /\ DOMAIN logs' = DOMAIN logs /\ logs'[i] = r /\ \A j \in DOMAIN logs : j # i => logs'[j] = logs[j]
  BY <1>0, <1>1
<1>3. [row |-> 0, left |-> flush[f].left - 1] \in Flushes
  BY <1>0 DEF Flushes
<1> QED
  BY <1>0, <1>1, <1>2, <1>3 DEF OwnRow

\* What was held is sent once and recorded, or tried at the cost of a fault.
LEMMA HeldDelivered ==
  ASSUME QueueInv, NEW f \in Flusher, NEW i \in DOMAIN logs, i = flush[f].row,
         OwnRow(f), logs' \in Seq(LogRow), DOMAIN logs' = DOMAIN logs,
         \A j \in DOMAIN logs : j # i => logs'[j] = logs[j],
         NEW n \in {0, 1}, delivered' = [delivered EXCEPT ![i] = @ + n],
         NEW k \in {0, 1}, faults' = faults + k,
         n <= (IF logs'[i].status = "sent" THEN 1 ELSE 0) + k, logs'[i].status = "sent" => n = 1
  PROVE  QueueInv'
<1>0. /\ logs \in Seq(LogRow) /\ Counts(logs, delivered) /\ flush \in [Flusher -> Flushes] /\ faults \in Nat
      /\ DOMAIN delivered = DOMAIN logs /\ delivered[i] \in Nat /\ logs[i].status = "pending"
      /\ i # 0
  BY FieldsAre DEF QueueInv, HeldIsPending
<1>1. /\ delivered' \in Seq(Nat) /\ Len(delivered') = Len(delivered) /\ DOMAIN delivered' = DOMAIN delivered
      /\ delivered'[i] = delivered[i] + n /\ \A j \in DOMAIN delivered : j # i => delivered'[j] = delivered[j]
  BY <1>0 DEF Counts
<1>2. Len(logs') = Len(logs)
  BY <1>0
<1>3. Counts(logs', delivered')
  BY <1>0, <1>1, <1>2 DEF Counts
<1> DEFINE m == IF logs'[i].status = "sent" THEN 0 ELSE n
<1>4. m \in Nat /\ m <= k
  OBVIOUS
<1>5. Surplus(logs', delivered')[i] = Surplus(logs, delivered)[i] + m
  BY <1>0, <1>1 DEF Surplus
<1> HIDE DEF m
<1>6. Total(Surplus(logs', delivered'), DOMAIN delivered') = Total(Surplus(logs, delivered), DOMAIN delivered) + m
  <2>1. PICK l \in Seq(LogRow), e \in Seq(Nat) : l = logs' /\ e = delivered'
    BY <1>1
  <2>2. /\ Counts(l, e) /\ DOMAIN l = DOMAIN logs
        /\ \A j \in DOMAIN logs : j # i => l[j].status = logs[j].status /\ e[j] = delivered[j]
        /\ Surplus(l, e)[i] = Surplus(logs, delivered)[i] + m
        /\ logs \in Seq(LogRow) /\ Counts(logs, delivered) /\ i \in DOMAIN logs
    BY <1>0, <1>1, <1>3, <1>5, <2>1
  <2>3. ASSUME NEW b \in Seq(LogRow), NEW d, b = logs, d = delivered
        PROVE  Total(Surplus(l, e), DOMAIN e) = Total(Surplus(b, d), DOMAIN d) + m
    <3>1. /\ Counts(l, e) /\ DOMAIN l = DOMAIN b /\ Counts(b, d) /\ i \in DOMAIN b
          /\ \A j \in DOMAIN b : j # i => l[j].status = b[j].status /\ e[j] = d[j]
          /\ Surplus(l, e)[i] = Surplus(b, d)[i] + m
      BY <2>2, <2>3
    <3> QED
      BY <1>4, <3>1, SurplusOne
  <2> QED
    BY <2>1, <2>2, <2>3
<1>7. Total(Surplus(logs, delivered), DOMAIN delivered) \in Nat
  BY <1>0, SurplusType
<1>8. SurplusByFaults'
  BY <1>0, <1>4, <1>6, <1>7 DEF QueueInv, SurplusByFaults
<1>9. HeldIsPending' /\ OneRowEach'
  BY HeldStays
<1> QED
  BY <1>3, <1>8, <1>9 DEF QueueInv, RowsTyped, OwnRow

LEMMA WorkingKeeps ==
  ASSUME QueueInv, NEW f \in Flusher, Working(f)
  PROVE  QueueInv'
<1>0. /\ logs \in Seq(LogRow) /\ flush \in [Flusher -> Flushes] /\ RowsTyped
      /\ DOMAIN delivered = DOMAIN logs /\ DOMAIN logs \subseteq Nat \ {0} /\ faults \in Nat
      /\ \A i \in DOMAIN logs : delivered[i] \in Nat
  BY FieldsAre DEF QueueInv
<1>1. CASE StartFlush(f) \/ GoOn(f)
  BY <1>1, TakeKeeps
<1> SUFFICES ASSUME ~StartFlush(f), ~GoOn(f) PROVE QueueInv'
  BY <1>1
<1>2. flush[f].row # 0
  BY DEF Working, Send, SendRefused, SendUnanswered, Crash
<1>3. PICK i \in DOMAIN logs : i = flush[f].row
  BY <1>2 DEF QueueInv, HeldIsPending
<1>a. delivered = [delivered EXCEPT ![i] = @ + 0]
  <2>1. delivered[i] + 0 = delivered[i] /\ delivered \in Seq(Nat)
    BY <1>0, FieldsAre DEF Counts
  <2> QED
    BY <2>1
<1>4. CASE Send(f)
  <2>1. PICK r \in LogRow : r = [Tried(i) EXCEPT !.status = "sent"] /\ r.status = "sent"
    BY <1>0, TriedIs
  <2>2. Commit(f, r) /\ delivered' = [delivered EXCEPT ![i] = @ + 1] /\ faults' = faults + 0
    BY <1>0, <1>3, <1>4, <2>1 DEF Send
  <2>3. /\ OwnRow(f) /\ logs' \in Seq(LogRow) /\ DOMAIN logs' = DOMAIN logs /\ logs'[i] = r
        /\ \A j \in DOMAIN logs : j # i => logs'[j] = logs[j]
    BY <1>3, <2>2, CommitOwns
  <2>4. 1 <= (IF logs'[i].status = "sent" THEN 1 ELSE 0) + 0 /\ 0 \in {0, 1} /\ 1 \in {0, 1}
    BY <2>1, <2>3
  <2> QED
    BY <1>3, <2>2, <2>3, <2>4, HeldDelivered
<1>5. CASE SendRefused(f) \/ SendUnanswered(f)
  <2>1. PICK st \in {"failed", "pending"} : st = AfterFailure(logs[i].attempts + 1)
    BY DEF AfterFailure
  <2>2. PICK r \in LogRow : r = [Tried(i) EXCEPT !.status = st] /\ r.status = st
    BY <1>0, TriedIs
  <2>3. Commit(f, r)
    BY <1>3, <1>5, <2>1, <2>2 DEF SendRefused, SendUnanswered, Fail
  <2>4. /\ OwnRow(f) /\ logs' \in Seq(LogRow) /\ DOMAIN logs' = DOMAIN logs /\ logs'[i] = r
        /\ \A j \in DOMAIN logs : j # i => logs'[j] = logs[j]
    BY <1>3, <2>3, CommitOwns
  <2>5. PICK n \in {0, 1} : delivered' = [delivered EXCEPT ![i] = @ + n] /\ faults' = faults + n
    <3>1. CASE SendRefused(f)
      <4>1. delivered' = [delivered EXCEPT ![i] = @ + 0] /\ faults' = faults + 0
        BY <1>0, <1>a, <3>1 DEF SendRefused
      <4> QED
        BY <4>1
    <3>2. CASE SendUnanswered(f)
      <4>1. delivered' = [delivered EXCEPT ![i] = @ + 1] /\ faults' = faults + 1
        BY <1>3, <3>2 DEF SendUnanswered
      <4> QED
        BY <4>1
    <3> QED
      BY <1>5, <3>1, <3>2
  <2>6. n <= (IF logs'[i].status = "sent" THEN 1 ELSE 0) + n /\ logs'[i].status # "sent"
    BY <2>2, <2>4
  <2> QED
    BY <1>3, <2>4, <2>5, <2>6, HeldDelivered
<1>6. ASSUME NEW sent \in BOOLEAN, Crash(f, sent) PROVE QueueInv'
  <2>1. PICK n \in {0, 1} : delivered' = [delivered EXCEPT ![i] = @ + n]
    <3>1. CASE sent
      <4>1. delivered' = [delivered EXCEPT ![i] = @ + 1]
        BY <1>3, <1>6, <3>1 DEF Crash
      <4> QED
        BY <4>1
    <3>2. CASE ~sent
      <4>1. delivered' = [delivered EXCEPT ![i] = @ + 0]
        BY <1>a, <1>6, <3>2 DEF Crash
      <4> QED
        BY <4>1
    <3> QED
      BY <3>1, <3>2
  <2>2. logs' = logs /\ faults' = faults + 1 /\ flush' = [flush EXCEPT ![f] = NotFlushing]
    BY <1>6 DEF Crash
  <2>3. NotFlushing \in Flushes /\ NotFlushing.row = 0
    BY DEF NotFlushing, Flushes
  <2>4. OwnRow(f)
    BY <1>0, <2>2, <2>3 DEF OwnRow
  <2>5. logs'[i].status # "sent"
    BY <1>2, <1>3, <2>2 DEF QueueInv, HeldIsPending
  <2>6. n <= (IF logs'[i].status = "sent" THEN 1 ELSE 0) + 1
    BY <2>5
  <2> QED
    BY <1>0, <1>3, <2>1, <2>2, <2>4, <2>5, <2>6, HeldDelivered
<1> QED
  BY <1>4, <1>5, <1>6 DEF Working

\* A row that failed is in nobody's hands when it is sent again.
LEMMA RetryKeeps ==
  ASSUME QueueInv, NEW i \in DOMAIN logs, RetryNotifications(i)
  PROVE  QueueInv'
<1>0. /\ logs \in Seq(LogRow) /\ Counts(logs, delivered) /\ logs[i] \in LogRow
      /\ DOMAIN delivered = DOMAIN logs
  BY FieldsAre
<1> DEFINE r == [logs[i] EXCEPT !.status = "pending", !.attempts = 0]
<1>1. r \in LogRow /\ r.status = "pending"
  BY <1>0 DEF LogRow
<1>2. /\ logs' = [logs EXCEPT ![i] = r] /\ logs[i].status = "failed"
      /\ delivered' = delivered /\ flush' = flush /\ faults' = faults
  BY <1>0 DEF RetryNotifications
<1> HIDE DEF r
<1>3. /\ logs' \in Seq(LogRow) /\ DOMAIN logs' = DOMAIN logs /\ Len(logs') = Len(logs) /\ logs'[i].status = "pending"
      /\ \A j \in DOMAIN logs : j # i => logs'[j] = logs[j]
  BY <1>0, <1>1, <1>2
<1>4. Counts(logs', delivered')
  BY <1>0, <1>2, <1>3 DEF Counts
<1>5. Surplus(logs', delivered') = Surplus(logs, delivered)
  BY <1>0, <1>2, <1>3 DEF Surplus
<1>6. HeldIsPending'
  BY <1>2, <1>3 DEF QueueInv, HeldIsPending
<1> QED
  BY <1>2, <1>3, <1>4, <1>5, <1>6 DEF QueueInv, RowsTyped, OneRowEach, SurplusByFaults

LEMMA EnqueueKeeps ==
  ASSUME QueueInv, NEW a \in App, NEW event \in {"change", "reminder"}, NEW rs, NewRows(rs, a, event),
         Enqueue(rs), flush' = flush, faults' = faults
  PROVE  QueueInv'
<1>0. logs \in Seq(LogRow) /\ Counts(logs, delivered) /\ rs \in Seq(LogRow)
  BY FieldsAre DEF NewRows
<1>1. logs' = logs \o rs /\ delivered' = delivered \o [i \in DOMAIN rs |-> 0]
  BY DEF Enqueue
<1>2. \A i \in DOMAIN rs : rs[i].status # "sent"
  BY DEF NewRows
<1>3. /\ Counts(logs', delivered')
      /\ Total(Surplus(logs', delivered'), DOMAIN delivered') = Total(Surplus(logs, delivered), DOMAIN delivered)
  BY <1>0, <1>1, <1>2, SurplusMore
<1>4. logs' \in Seq(LogRow) /\ DOMAIN logs \subseteq DOMAIN logs' /\ \A i \in DOMAIN logs : logs'[i] = logs[i]
  BY <1>1, EnqueuedIs DEF QueueInv
<1>5. HeldIsPending'
  BY <1>4 DEF QueueInv, HeldIsPending
<1> QED
  BY <1>3, <1>4, <1>5 DEF QueueInv, RowsTyped, OneRowEach, SurplusByFaults

-----------------------------------------------------------------------------
\* Who holds which row, and what deliveries are not accounted for by a row.
THEOREM QueueInvariance == Spec => []QueueInv
<1>1. ASSUME Init PROVE QueueInv
  <2>1. logs = <<>> /\ delivered = <<>> /\ faults = 0 /\ flush = [f \in Flusher |-> NotFlushing]
    BY <1>1 DEF Init
  <2>2. DOMAIN delivered = {} /\ DOMAIN logs = {}
    BY <2>1
  <2>3. Total(Surplus(logs, delivered), DOMAIN delivered) = 0
    BY <2>2, TotalEmpty
  <2>4. Counts(logs, delivered) /\ RowsTyped
    BY <2>1 DEF Counts, RowsTyped
  <2>5. flush \in [Flusher -> Flushes] /\ HeldIsPending /\ OneRowEach
    BY <2>1 DEF Flushes, NotFlushing, HeldIsPending, OneRowEach
  <2> QED
    BY <2>1, <2>3, <2>4, <2>5 DEF QueueInv, SurplusByFaults
<1>2. QueueInv /\ [Next]_vars => QueueInv'
  <2> SUFFICES ASSUME QueueInv, [Next]_vars PROVE QueueInv'
    OBVIOUS
  <2>1. CASE logs' = logs /\ delivered' = delivered /\ flush' = flush /\ (faults' = faults \/ faults' = faults + 1)
    <3>1. Total(Surplus(logs, delivered), DOMAIN delivered) \in Nat
      BY FieldsAre, SurplusType
    <3> QED
      BY <2>1, <3>1 DEF QueueInv, RowsTyped, HeldIsPending, OneRowEach, SurplusByFaults
  <2>2. ASSUME NEW a \in App, NEW settles \in BOOLEAN, NEW staff \in BOOLEAN, Tell(a, settles, staff)
        PROVE  QueueInv'
    BY <2>2, RowsAre, EnqueueKeeps DEF Tell
  <2>3. ASSUME NEW a \in App, DeadlineNears(a) PROVE QueueInv'
    BY <2>1, <2>3 DEF DeadlineNears
  <2>4. ASSUME NEW c \in Channels, ChangeChannel(c) PROVE QueueInv'
    BY <2>1, <2>4 DEF ChangeChannel
  <2>5. CASE Reminding
    <3>1. CASE SelectDue \/ ReminderCrash
      BY <2>1, <3>1 DEF SelectDue, ReminderCrash
    <3>2. ASSUME NEW a \in App, Remind(a) PROVE QueueInv'
      BY <3>2, RowsAre, EnqueueKeeps DEF Remind
    <3> QED
      BY <2>5, <3>1, <3>2 DEF Reminding
  <2>6. ASSUME NEW f \in Flusher, Working(f) PROVE QueueInv'
    BY <2>6, WorkingKeeps
  <2>7. ASSUME NEW i \in DOMAIN logs, RetryNotifications(i) PROVE QueueInv'
    BY <2>7, RetryKeeps
  <2>8. CASE UNCHANGED vars
    BY <2>1, <2>8 DEF vars
  <2> QED
    BY <2>2, <2>3, <2>4, <2>5, <2>6, <2>7, <2>8 DEF Next
<1> QED
  BY <1>1, <1>2, PTL DEF Spec

\* A message goes out twice only when a process crashed or an answer was lost,
\* however many flushes work side by side and whatever is sent again.
THEOREM RepeatedByFaults == Spec => []RepeatedByFaultsOnly
<1>1. ASSUME QueueInv PROVE RepeatedByFaultsOnly
  <2> DEFINE D == DOMAIN delivered
             w == Repeats
             v == Surplus(logs, delivered)
  <2>1. /\ IsFiniteSet(D) /\ D = DOMAIN logs /\ v \in [D -> Nat] /\ \A i \in D : delivered[i] \in Nat
        /\ Total(v, D) \in Nat
    BY <1>1, FieldsAre, SurplusType
  <2>2. w \in [D -> Nat]
    BY <2>1 DEF Repeats
  <2>3. \A i \in D : w[i] <= v[i]
    BY <1>1, <2>1, FieldsAre DEF Repeats, Surplus, Counts
  <2>4. SumOver(Repeats, D) = Total(w, D)
    BY DEF SumOver, Total
  <2>5. Total(v, D) <= faults /\ faults \in Nat
    BY <1>1 DEF QueueInv, SurplusByFaults
  <2> HIDE DEF w, v, D
  <2>6. Total(w, D) <= Total(v, D) /\ Total(w, D) \in Nat
    BY <2>1, <2>2, <2>3, TotalAtMost, TotalType
  <2> QED
    BY <2>1, <2>4, <2>5, <2>6 DEF RepeatedByFaultsOnly, D
<1> QED
  BY <1>1, QueueInvariance, PTL

\* An applicant is reminded by one e-mail at most, also when the worker dies
\* between two reminders and its next run selects again.
THEOREM RemindedOnce == Spec => []ReminderOnce
<1>1. Init => RemindInv
  BY DEF Init, RemindInv, RowsTyped, DueNotReminded, ReminderOnce
<1>2. flush \in [Flusher -> Flushes] /\ RemindInv /\ [Next]_vars => RemindInv'
  <2> SUFFICES ASSUME flush \in [Flusher -> Flushes], RemindInv, [Next]_vars PROVE RemindInv'
    OBVIOUS
  <2>0. RowsTyped
    BY DEF RemindInv
  <2>1. ASSUME NEW a \in App, NEW settles \in BOOLEAN, NEW staff \in BOOLEAN, Tell(a, settles, staff)
        PROVE  RemindInv'
    BY <2>1, TellKeeps
  <2>2. CASE logs' = logs /\ due' \subseteq due
    BY <2>0, <2>2, RemindersSame DEF SameRows, RowsTyped
  <2>3. ASSUME NEW a \in App, DeadlineNears(a) PROVE RemindInv'
    BY <2>2, <2>3 DEF DeadlineNears
  <2>4. ASSUME NEW c \in Channels, ChangeChannel(c) PROVE RemindInv'
    BY <2>2, <2>4 DEF ChangeChannel
  <2>5. CASE Reminding
    <3>1. CASE SelectDue
      BY <3>1 DEF SelectDue, RemindInv, RowsTyped, DueNotReminded, ReminderOnce, Reminded
    <3>2. CASE ReminderCrash
      BY <2>2, <3>2 DEF ReminderCrash
    <3> QED
      BY <2>5, <3>1, <3>2, RemindKeeps DEF Reminding
  <2>6. ASSUME NEW f \in Flusher, Working(f) PROVE RemindInv'
    <3>1. SameRows /\ due' = due
      BY <2>0, <2>6, WorkingMoves DEF Flushes
    <3> QED
      BY <3>1, RemindersSame
  <2>7. ASSUME NEW i \in DOMAIN logs, RetryNotifications(i) PROVE RemindInv'
    <3>1. SameRows /\ due' = due
      BY <2>0, <2>7, RetryMoves
    <3> QED
      BY <3>1, RemindersSame
  <2>8. CASE UNCHANGED vars
    BY <2>2, <2>8 DEF vars
  <2> QED
    BY <2>1, <2>3, <2>4, <2>5, <2>6, <2>7, <2>8 DEF Next
<1>3. RemindInv => ReminderOnce
  BY DEF RemindInv
<1>4. QueueInv => flush \in [Flusher -> Flushes]
  BY DEF QueueInv
<1> QED
  BY <1>1, <1>2, <1>3, <1>4, QueueInvariance, PTL DEF Spec
=============================================================================
