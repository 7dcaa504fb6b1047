---------------------------- MODULE IntakeProofs ----------------------------
(***************************************************************************)
(* Applications come in: LimitsKept and ImportKept, for any sets of        *)
(* applications, organisations, days, pages, halls and consoles.           *)
(*                                                                         *)
(* LimitsKept is not inductive: a submission that has counted will insert  *)
(* whatever came in since.  The advisory lock (OneInside) keeps other      *)
(* submissions of the organisation out until the insertion (NonePast), and *)
(* with them the count true (CountStands); everything else that happens    *)
(* meanwhile may change applications, but lets none in under a rule        *)
(* (NotNewlyCounted).  ImportedOnce rests on the unique reference (OneRef) *)
(* and on where references come from (RefsNamed); ApprovedFirst on what is *)
(* still to come when an approved page goes in (ApprovedAhead).            *)
(***************************************************************************)
EXTENDS NotionImport, TLAPS, FiniteSetTheorems

\* A submission that has begun carries what it read.
Submissions == [pc : {"lock"} \cup Inside, org : Org \cup {NoOrg}, day : Day, free : BOOLEAN, rule : Rules]

Typed ==
  /\ app \in [App -> {NoApp} \cup Rows]
  /\ orgs \subseteq Org
  /\ rule \in Rules
  /\ tx \in [App -> {NoTx} \cup Submissions]
  /\ under \in [App -> Rules \cup {Unchecked}]
  /\ since \in [App -> SUBSET App]

\* Whose row there is has its organisation in the table; what is not there
\* was not counted.
KnownOrgs ==
  \A a \in App : /\ app[a] = NoApp => under[a] = Unchecked
                 /\ app[a] # NoApp => app[a].org \in orgs \cup {NoOrg}

\* What came in free is never unpaid.
FreeIsCounted ==
  \A a \in App : app[a] # NoApp /\ app[a].free => app[a].status # "pending_payment"

\* The advisory lock: one submission of an organisation at a time.
OneInside ==
  \A a, b \in App :
    tx[a].pc \in Inside /\ tx[b].pc \in Inside /\ tx[a].org = tx[b].org /\ tx[a].org # NoOrg => a = b

\* Those that came in under rule s and still stand as they came in.
OnDay(o, d) == {b \in App : Holds(b) /\ under[b].oneDay /\ app[b].org = o /\ app[b].day = d}

InHalf(s, o, d) ==
  {b \in App : Holds(b) /\ under[b] = s /\ app[b].free /\ app[b].org = o /\ app[b].day \in HalfYear(d, s.method)}

CalendarRule(s) == s.half /\ s.method = "calendarHalf" /\ s.target = "submitted"

\* What a submission counted is still so when it inserts.
CountStands ==
  \A a \in App : tx[a].pc = "insert" /\ tx[a].org # NoOrg =>
    /\ tx[a].rule.oneDay => OnDay(tx[a].org, tx[a].day) = {}
    /\ CalendarRule(tx[a].rule) => Cardinality(InHalf(tx[a].rule, tx[a].org, tx[a].day)) < tx[a].rule.count

\* Nothing escapes a submission before it has counted.
SeenBefore == \A a \in App : tx[a].pc # "insert" => since[a] = {}

LInv == Typed /\ KnownOrgs /\ FreeIsCounted /\ OneInside /\ CountStands /\ SeenBefore /\ LimitsKept

-----------------------------------------------------------------------------
\* Application b holds nothing that was counted and was not counted before.
NotNewlyCounted(b) ==
  Holds(b)' /\ under'[b] # Unchecked =>
    /\ Holds(b) /\ under'[b] = under[b]
    /\ app'[b].org = app[b].org /\ app'[b].day = app[b].day /\ app'[b].free = app[b].free

LEMMA CountedOnlyShrinks ==
  ASSUME \A b \in App : NotNewlyCounted(b), NEW o \in Org, NEW d \in Day
  PROVE  /\ OnDay(o, d)' \subseteq OnDay(o, d)
         /\ \A s \in Rules : s.half => InHalf(s, o, d)' \subseteq InHalf(s, o, d)
<1>1. OnDay(o, d)' \subseteq OnDay(o, d)
  BY DEF OnDay, NotNewlyCounted, Unchecked
<1>2. ASSUME NEW s \in Rules, s.half PROVE InHalf(s, o, d)' \subseteq InHalf(s, o, d)
  <2>1. s # Unchecked
    BY <1>2 DEF Unchecked
  <2> QED
    BY <2>1 DEF InHalf, NotNewlyCounted
<1> QED
  BY <1>1, <1>2

\* The sets that are counted are finite, and so are their parts.
LEMMA HalfFinite ==
  ASSUME NEW s, NEW o, NEW d
  PROVE  /\ IsFiniteSet(InHalf(s, o, d)) /\ Cardinality(InHalf(s, o, d)) \in Nat
         /\ \A T \in SUBSET InHalf(s, o, d) :
              Cardinality(T) \in Nat /\ Cardinality(T) <= Cardinality(InHalf(s, o, d))
<1>1. InHalf(s, o, d) \subseteq App
  BY DEF InHalf
<1>2. IsFiniteSet(InHalf(s, o, d))
  BY <1>1, AppsAreFinite, FS_Subset
<1> QED
  BY <1>2, FS_Subset, FS_CardinalityType

\* The two limits in terms of the sets that are counted.
LEMMA LimitsInSets ==
  /\ OnePerDay <=> \A a, b \in App :
       a # b /\ Holds(a) /\ under[a].oneDay => b \notin OnDay(app[a].org, app[a].day)
  /\ CalendarHalfKept <=> \A s \in Rules, o \in Org, d \in Day :
       CalendarRule(s) => Cardinality(InHalf(s, o, d)) <= s.count
<1>1. OnePerDay <=> \A a, b \in App :
       a # b /\ Holds(a) /\ under[a].oneDay => b \notin OnDay(app[a].org, app[a].day)
  BY DEF OnePerDay, OnDay
<1>2. CalendarHalfKept <=> \A s \in Rules, o \in Org, d \in Day :
       CalendarRule(s) => Cardinality(InHalf(s, o, d)) <= s.count
  BY DEF CalendarHalfKept, CalendarRule, InHalf
<1> QED
  BY <1>1, <1>2

\* A step that lets nothing in and counts nothing keeps the limits.
LEMMA QuietKeepsLimits ==
  ASSUME LInv, Typed', \A b \in App : NotNewlyCounted(b),
         \A a \in App : tx'[a].pc = "insert" => tx'[a] = tx[a]
  PROVE  CountStands' /\ OnePerDay' /\ CalendarHalfKept'
<1>1. ASSUME NEW a \in App, tx'[a].pc = "insert", tx'[a].org # NoOrg
      PROVE  /\ tx'[a].rule.oneDay => OnDay(tx[a].org, tx[a].day)' = {}
             /\ CalendarRule(tx'[a].rule) => Cardinality(InHalf(tx[a].rule, tx[a].org, tx[a].day)') < tx[a].rule.count
  <2>1. tx'[a] = tx[a] /\ tx[a].org \in Org /\ tx[a].day \in Day /\ tx[a].rule \in Rules
    BY <1>1 DEF LInv, Typed, Submissions, NoTx
  <2>2. tx[a].rule.oneDay => OnDay(tx[a].org, tx[a].day) = {}
    BY <1>1, <2>1 DEF LInv, CountStands
  <2>3. CalendarRule(tx[a].rule) => Cardinality(InHalf(tx[a].rule, tx[a].org, tx[a].day)) < tx[a].rule.count
    BY <1>1, <2>1 DEF LInv, CountStands
  <2> QED
    BY <2>1, <2>2, <2>3, CountedOnlyShrinks, HalfFinite, RulesAreSettings DEF CalendarRule
<1>2. CountStands'
  BY <1>1 DEF CountStands
<1>3. OnePerDay'
  BY DEF LInv, LimitsKept, OnePerDay, NotNewlyCounted, Unchecked
<1>4. ASSUME NEW s \in Rules, NEW o \in Org, NEW d \in Day, CalendarRule(s)
      PROVE  Cardinality(InHalf(s, o, d)') <= s.count
  <2>1. Cardinality(InHalf(s, o, d)) <= s.count
    BY <1>4, LimitsInSets DEF LInv, LimitsKept
  <2> QED
    BY <1>4, <2>1, CountedOnlyShrinks, HalfFinite, RulesAreSettings DEF CalendarRule
<1>5. CalendarHalfKept'
  BY <1>4 DEF CalendarHalfKept, CalendarRule, InHalf
<1> QED
  BY <1>2, <1>3, <1>5

\* Whoever counts holds the lock, and finds everything that was counted.
LEMMA CountFindsAll ==
  ASSUME LInv, NEW a \in App, tx[a].pc = "count", tx[a].org # NoOrg, Within(tx[a])
  PROVE  /\ tx[a].rule.oneDay => OnDay(tx[a].org, tx[a].day) = {}
         /\ CalendarRule(tx[a].rule) =>
              Cardinality(InHalf(tx[a].rule, tx[a].org, tx[a].day)) < tx[a].rule.count
<1> DEFINE t == tx[a]
<1>1. t \in Submissions /\ t.org \in Org /\ t.day \in Day /\ t.rule \in Rules
  BY DEF LInv, Typed, Submissions, NoTx
<1>2. CASE t.org \notin orgs
  <2>1. \A b \in App : Holds(b) => app[b].org # t.org
    BY <1>1, <1>2, NoOrgIsNone DEF LInv, KnownOrgs, Holds, NoApp, Pending, Live, Finished
  <2>2. OnDay(t.org, t.day) = {} /\ InHalf(t.rule, t.org, t.day) = {}
    BY <2>1 DEF OnDay, InHalf
  <2> QED
    BY <1>1, <2>2, FS_EmptySet, RulesAreSettings
<1>3. CASE t.org \in orgs
  <2>1. t.rule.oneDay => OnDay(t.org, t.day) = {}
    BY <1>3 DEF Within, OnDay, SameDay
  <2>2. ASSUME CalendarRule(t.rule)
        PROVE  Cardinality(InHalf(t.rule, t.org, t.day)) < t.rule.count
    <3> DEFINE P == InPeriod(t.org, t.day, t.rule)
    <3>1. InHalf(t.rule, t.org, t.day) \subseteq P
      BY <2>2 DEF InHalf, InPeriod, LInv, FreeIsCounted, Holds, Target, CalendarRule, NoApp,
                  Pending, Live, Finished
    <3>2. IsFiniteSet(P)
      BY AppsAreFinite, FS_Subset DEF InPeriod
    <3>3. Cardinality(InHalf(t.rule, t.org, t.day)) <= Cardinality(P)
          /\ Cardinality(P) \in Nat /\ Cardinality(InHalf(t.rule, t.org, t.day)) \in Nat
      BY <3>1, <3>2, FS_Subset, FS_CardinalityType
    <3>4. Cardinality(P) < t.rule.count
      BY <1>3, <2>2 DEF Within, CalendarRule
    <3> QED
      BY <3>3, <3>4, <1>1, RulesAreSettings
  <2> QED
    BY <2>1, <2>2
<1> QED
  BY <1>2, <1>3

\* An insertion adds one application to what was counted, in its own
\* organisation, and there was room for it.
LEMMA InsertKeepsLimits ==
  ASSUME LInv, Typed', NEW a \in App, Insert(a)
  PROVE  CountStands' /\ OnePerDay' /\ CalendarHalfKept'
<1> DEFINE t == tx[a]
<1>1. t \in Submissions /\ t.pc = "insert"
  BY DEF Insert, LInv, Typed, NoTx
<1>2. \A b \in App \ {a} : NotNewlyCounted(b) /\ tx'[b] = tx[b] /\ app'[b] = app[b]
  BY DEF Insert, NotNewlyCounted, Holds, LInv, Typed
<1>3. app'[a].org = t.org /\ app'[a].day = t.day /\ app'[a] # NoApp /\ tx'[a] = NoTx
  BY DEF Insert, LInv, Typed, NoApp
<1>4. under'[a] = IF t.org = NoOrg THEN Unchecked ELSE t.rule
  BY DEF Insert, LInv, Typed
<1>5. CASE t.org = NoOrg
  BY <1>2, <1>3, <1>4, <1>5, QuietKeepsLimits DEF NotNewlyCounted, NoTx
<1>6. CASE t.org # NoOrg
  <2>1. t.org \in Org /\ t.day \in Day /\ t.rule \in Rules
    BY <1>1, <1>6 DEF Submissions
  <2>2. /\ t.rule.oneDay => OnDay(t.org, t.day) = {}
        /\ CalendarRule(t.rule) => Cardinality(InHalf(t.rule, t.org, t.day)) < t.rule.count
    BY <1>1, <1>6 DEF LInv, CountStands
  <2>3. ASSUME NEW s \in Rules, NEW o \in Org, NEW d \in Day, s.half
        PROVE  /\ InHalf(s, o, d)' \subseteq InHalf(s, o, d) \cup {a}
               /\ a \in InHalf(s, o, d)' => s = t.rule /\ o = t.org /\ t.day \in HalfYear(d, s.method)
    <3>1. s # Unchecked
      BY <2>3 DEF Unchecked
    <3>2. ASSUME NEW b \in InHalf(s, o, d)', b # a PROVE b \in InHalf(s, o, d)
      BY <1>2, <3>1, <3>2 DEF InHalf, NotNewlyCounted
    <3>3. a \in InHalf(s, o, d)' => s = t.rule /\ o = t.org /\ t.day \in HalfYear(d, s.method)
      BY <1>3, <1>4, <1>6 DEF InHalf
    <3> QED
      BY <3>2, <3>3
  <2>4. ASSUME NEW o \in Org, NEW d \in Day
        PROVE  /\ OnDay(o, d)' \subseteq OnDay(o, d) \cup {a}
               /\ a \in OnDay(o, d)' => o = t.org /\ d = t.day /\ t.rule.oneDay
    <3>1. ASSUME NEW b \in OnDay(o, d)', b # a PROVE b \in OnDay(o, d)
      BY <1>2, <3>1 DEF OnDay, NotNewlyCounted, Unchecked
    <3>2. a \in OnDay(o, d)' => o = t.org /\ d = t.day /\ t.rule.oneDay
      BY <1>3, <1>4, <1>6 DEF OnDay
    <3> QED
      BY <3>1, <3>2
  <2>5. OnePerDay'
    <3> SUFFICES ASSUME NEW b \in App, NEW c \in App, b # c, Holds(b)', Holds(c)',
                        under'[b].oneDay, under'[c].oneDay,
                        app'[b].org = app'[c].org, app'[b].day = app'[c].day
                 PROVE  FALSE
      BY DEF OnePerDay
    <3>1. CASE b # a /\ c # a
      BY <3>1, <1>2 DEF NotNewlyCounted, Unchecked, LInv, LimitsKept, OnePerDay
    <3>2. ASSUME NEW e \in App, e # a, Holds(e)', under'[e].oneDay, under'[a].oneDay,
                 app'[e].org = app'[a].org, app'[e].day = app'[a].day
          PROVE  FALSE
      <4>1. e \in OnDay(t.org, t.day)
        BY <3>2, <1>2, <1>3 DEF NotNewlyCounted, Unchecked, OnDay
      <4> QED
        BY <4>1, <3>2, <2>2, <1>4, <1>6
    <3> QED
      BY <3>1, <3>2
  <2>6. ASSUME NEW s \in Rules, NEW o \in Org, NEW d \in Day, CalendarRule(s)
        PROVE  Cardinality(InHalf(s, o, d)') <= s.count
    <3> DEFINE H == InHalf(s, o, d)
    <3>1. Cardinality(H) <= s.count /\ Cardinality(H) \in Nat /\ IsFiniteSet(H) /\ s.count \in Nat
      BY <2>6, LimitsInSets, HalfFinite, RulesAreSettings DEF LInv, LimitsKept
    <3>2. CASE a \notin H'
      BY <3>1, <3>2, <2>3, <2>6, HalfFinite DEF CalendarRule
    <3>3. CASE a \in H'
      <4>1. s = t.rule /\ o = t.org /\ t.day \in HalfYear(d, s.method)
        BY <2>3, <2>6, <3>3 DEF CalendarRule
      <4>2. HalfYear(d, s.method) = HalfYear(t.day, s.method)
        BY <4>1, <2>6 DEF HalfYear, CalendarRule
      <4>3. H = InHalf(t.rule, t.org, t.day)
        BY <4>1, <4>2 DEF InHalf
      <4>4. Cardinality(H) < s.count
        BY <4>1, <4>3, <2>2, <2>6
      <4>5. /\ IsFiniteSet(H \cup {a}) /\ Cardinality(H \cup {a}) \in Nat
            /\ Cardinality(H \cup {a}) <= Cardinality(H) + 1
        <5> HIDE DEF H
        <5>1. /\ IsFiniteSet(H \cup {a})
              /\ Cardinality(H \cup {a}) = IF a \in H THEN Cardinality(H) ELSE Cardinality(H) + 1
          BY <3>1, FS_AddElement
        <5> QED
          BY <3>1, <5>1
      <4>6. H' \in SUBSET (H \cup {a})
        BY <2>3, <2>6 DEF CalendarRule
      <4>7. Cardinality(H') <= Cardinality(H \cup {a}) /\ Cardinality(H') \in Nat
        BY <4>5, <4>6, FS_Subset, FS_CardinalityType
      <4> DEFINE n == Cardinality(H)  m == Cardinality(H')
      <4>8. n \in Nat /\ m \in Nat /\ n < s.count /\ m <= n + 1 /\ s.count \in Nat
        BY <3>1, <4>4, <4>5, <4>7
      <4> HIDE DEF n, m
      <4>9. m <= s.count
        BY <4>8
      <4> QED
        BY <4>9 DEF m
    <3> QED
      BY <3>2, <3>3
  <2>7. CalendarHalfKept'
    BY <2>6 DEF CalendarHalfKept, CalendarRule, InHalf
  <2>8. ASSUME NEW c \in App, tx'[c].pc = "insert", tx'[c].org # NoOrg
        PROVE  /\ tx'[c].rule.oneDay => OnDay(tx[c].org, tx[c].day)' = {}
               /\ CalendarRule(tx'[c].rule) =>
                    Cardinality(InHalf(tx[c].rule, tx[c].org, tx[c].day)') < tx'[c].rule.count
    <3>1. c # a /\ tx'[c] = tx[c]
      BY <1>2, <1>3, <2>8 DEF NoTx
    <3>2. tx[c] \in Submissions /\ tx[c].org \in Org /\ tx[c].org # t.org
      BY <1>1, <1>6, <2>8, <3>1 DEF LInv, Typed, Submissions, NoTx, OneInside, Inside
    <3>3. OnDay(tx[c].org, tx[c].day)' \subseteq OnDay(tx[c].org, tx[c].day)
      BY <2>4, <3>1, <3>2 DEF Submissions
    <3>4. CalendarRule(tx[c].rule) =>
            InHalf(tx[c].rule, tx[c].org, tx[c].day)' \subseteq InHalf(tx[c].rule, tx[c].org, tx[c].day)
      BY <2>3, <3>1, <3>2 DEF Submissions, CalendarRule
    <3>5. /\ tx[c].rule.oneDay => OnDay(tx[c].org, tx[c].day) = {}
          /\ CalendarRule(tx[c].rule) => Cardinality(InHalf(tx[c].rule, tx[c].org, tx[c].day)) < tx[c].rule.count
      BY <2>8, <3>1 DEF LInv, CountStands
    <3>6. tx[c].rule.count \in Nat
      BY <3>2, RulesAreSettings DEF Submissions
    <3> QED
      BY <3>1, <3>3, <3>4, <3>5, <3>6, HalfFinite
  <2>9. CountStands'
    BY <2>8 DEF CountStands
  <2> QED
    BY <2>5, <2>7, <2>9
<1> QED
  BY <1>5, <1>6

\* Every step keeps the types, and what does not depend on the counting.
LEMMA StepTyped ==
  ASSUME LInv, [Next]_vars
  PROVE  Typed' /\ KnownOrgs' /\ FreeIsCounted' /\ OneInside' /\ SeenBefore'
<1> DEFINE Frame == Typed' /\ KnownOrgs' /\ FreeIsCounted' /\ OneInside' /\ SeenBefore'
<1> USE DEF LInv, Inside
<1>1. CASE UNCHANGED vars
  BY <1>1 DEF vars, Typed, KnownOrgs, FreeIsCounted, OneInside, SeenBefore
<1>2. ASSUME NEW a \in App, Begin(a) PROVE Frame
  <2>1. Typed'
    BY <1>2 DEF Begin, Typed, Submissions
  <2> QED
    BY <1>2, <2>1 DEF Begin, Typed, KnownOrgs, FreeIsCounted, OneInside, SeenBefore, NoTx
<1>3. ASSUME NEW a \in App, Lock(a) PROVE Frame
  <2>1. tx[a] \in Submissions
    BY <1>3 DEF Lock, Typed, NoTx
  <2>2. Typed'
    BY <1>3, <2>1 DEF Lock, Typed, Submissions
  <2>3. OneInside'
    BY <1>3, <2>1 DEF Lock, LockFree, Typed, Submissions, OneInside
  <2> QED
    BY <1>3, <2>1, <2>2, <2>3 DEF Lock, Typed, Submissions, KnownOrgs, FreeIsCounted, SeenBefore
<1>4. ASSUME NEW a \in App, Count(a) PROVE Frame
  <2>1. tx[a] \in Submissions
    BY <1>4 DEF Count, Typed, NoTx
  <2>2. Typed'
    BY <1>4, <2>1 DEF Count, Typed, Submissions
  <2>3. OneInside'
    BY <1>4, <2>1 DEF Count, Typed, Submissions, OneInside, NoTx
  <2> QED
    BY <1>4, <2>1, <2>2, <2>3 DEF Count, Typed, Submissions, KnownOrgs, FreeIsCounted, SeenBefore, NoTx
<1>5. ASSUME NEW a \in App, Insert(a) PROVE Frame
  <2>1. tx[a] \in Submissions
    BY <1>5 DEF Insert, Typed, NoTx
  <2>2. app'[a] \in Rows /\ app'[a].org = tx[a].org /\ app'[a] # NoApp
        /\ (app'[a].free => app'[a].status # "pending_payment")
    BY <1>5, <2>1 DEF Insert, Typed, Submissions, Rows, NoApp, Pending, Live
  <2>3. Typed'
    BY <1>5, <2>1, <2>2 DEF Insert, Typed, Submissions
  <2>4. OneInside'
    BY <1>5, <2>1 DEF Insert, Typed, Submissions, OneInside, NoTx
  <2>5. KnownOrgs' /\ FreeIsCounted'
    BY <1>5, <2>1, <2>2 DEF Insert, Typed, Submissions, KnownOrgs, FreeIsCounted
  <2>6. SeenBefore'
    BY <1>5 DEF Insert, Typed, SeenBefore
  <2> QED
    BY <2>3, <2>4, <2>5, <2>6
<1>6. ASSUME NEW a \in App, Fail(a) PROVE Frame
  BY <1>6 DEF Fail, Typed, KnownOrgs, FreeIsCounted, OneInside, SeenBefore, NoTx
<1>7. ASSUME NEW a \in App, Move(a) PROVE Frame
  <2>1. app[a] # NoApp /\ app[a] \in Rows
    BY <1>7 DEF Move, Transition, NoApp, Typed
  <2>2. /\ app'[a] \in Rows /\ app'[a] # NoApp
        /\ app'[a].org = app[a].org /\ app'[a].free = app[a].free
        /\ app'[a].status # "pending_payment"
    BY <1>7, <2>1 DEF Move, Transition, NoApp, Typed, Rows, Pending, Live, Finished, Ended
  <2>3. Typed'
    BY <1>7, <2>2 DEF Move, Unseen, Typed
  <2> QED
    BY <1>7, <2>1, <2>2, <2>3 DEF Move, Unseen, Typed, KnownOrgs, FreeIsCounted, OneInside, SeenBefore
<1>8. ASSUME NEW a \in App, Delete(a) PROVE Frame
  BY <1>8 DEF Delete, Typed, KnownOrgs, FreeIsCounted, OneInside, SeenBefore
<1>9. ASSUME NEW a \in App, AdminEdit(a) PROVE Frame
  <2>1. PICK o \in Org \cup {NoOrg}, d \in Day :
          /\ app' = [app EXCEPT ![a].org = o, ![a].day = d]
          /\ orgs' = orgs \cup ({o} \ {NoOrg})
    BY <1>9 DEF AdminEdit
  <2>2. app[a] \in Rows
    BY <1>9 DEF AdminEdit, Typed
  <2>3. /\ app'[a] \in Rows /\ app'[a] # NoApp /\ app'[a].org = o
        /\ app'[a].free = app[a].free /\ app'[a].status = app[a].status
    BY <2>1, <2>2 DEF Typed, Rows, NoApp
  <2>4. Typed'
    BY <1>9, <2>1, <2>3 DEF AdminEdit, Unseen, Typed
  <2> QED
    BY <1>9, <2>1, <2>3, <2>4 DEF AdminEdit, Unseen, Typed, KnownOrgs, FreeIsCounted, OneInside, SeenBefore
<1>10. ASSUME NEW a \in App, ImportNotion(a) PROVE Frame
  <2>1. PICK o \in Org \cup {NoOrg}, d \in Day :
          /\ app' = [app EXCEPT ![a] = [status |-> "pending_payment", org |-> o, day |-> d, free |-> FALSE]]
          /\ orgs' = orgs \cup ({o} \ {NoOrg})
    BY <1>10 DEF ImportNotion
  <2>2. app'[a] \in Rows /\ app'[a] # NoApp /\ app'[a].org = o /\ ~app'[a].free
    BY <2>1 DEF Typed, Rows, NoApp, Pending
  <2>3. Typed'
    BY <1>10, <2>1, <2>2 DEF ImportNotion, Unseen, Typed
  <2> QED
    BY <1>10, <2>1, <2>2, <2>3 DEF ImportNotion, Unseen, Typed, KnownOrgs, FreeIsCounted, OneInside, SeenBefore
<1>11. CASE SaveRules
  BY <1>11 DEF SaveRules, Typed, KnownOrgs, FreeIsCounted, OneInside, SeenBefore
<1> QED
  BY <1>1, <1>2, <1>3, <1>4, <1>5, <1>6, <1>7, <1>8, <1>9, <1>10, <1>11 DEF Next

\* Nothing but Insert lets an application in under a rule.
LEMMA OthersAreQuiet ==
  ASSUME LInv, [Next]_vars, \A a \in App : ~Insert(a)
  PROVE  \A b \in App : NotNewlyCounted(b)
<1> SUFFICES ASSUME NEW b \in App PROVE NotNewlyCounted(b)
  OBVIOUS
<1> USE DEF LInv, NotNewlyCounted, Holds
<1>1. CASE app' = app /\ under' = under
  BY <1>1
<1>2. ASSUME NEW a \in App, Move(a) PROVE NotNewlyCounted(b)
  BY <1>2 DEF Move, Transition, Typed, Rows, NoApp, Pending, Live, Finished, Ended
<1>3. ASSUME NEW a \in App, Delete(a) PROVE NotNewlyCounted(b)
  BY <1>3 DEF Delete, Typed
<1>4. ASSUME NEW a \in App, AdminEdit(a) PROVE NotNewlyCounted(b)
  BY <1>4 DEF AdminEdit, Typed
<1>5. ASSUME NEW a \in App, ImportNotion(a) PROVE NotNewlyCounted(b)
  BY <1>5 DEF ImportNotion, Typed, KnownOrgs
<1> QED
  BY <1>1, <1>2, <1>3, <1>4, <1>5 DEF Next, vars, Begin, Lock, Count, Fail, SaveRules

\* What a submission carries does not change until it inserts.
LEMMA CarriedAlong ==
  ASSUME LInv, [Next]_vars, NEW a \in App, tx'[a].pc = "insert", ~Count(a)
  PROVE  tx'[a] = tx[a]
<1>1. ASSUME NEW c \in App, Begin(c) \/ Fail(c) \/ Insert(c) PROVE tx'[a] = tx[a]
  BY <1>1 DEF Begin, Fail, Insert, LInv, Typed, NoTx
<1>2. ASSUME NEW c \in App, Lock(c) PROVE tx'[a] = tx[a]
  <2>1. tx[c] \in Submissions /\ tx'[c].pc = "count"
    BY <1>2 DEF Lock, LInv, Typed, NoTx, Submissions
  <2> QED
    BY <1>2, <2>1 DEF Lock, LInv, Typed
<1>3. ASSUME NEW c \in App, Count(c) PROVE tx'[a] = tx[a]
  BY <1>3 DEF Count, LInv, Typed
<1>4. CASE tx' = tx
  BY <1>4
<1> QED
  BY <1>1, <1>2, <1>3, <1>4 DEF Next, vars, Move, Delete, AdminEdit, ImportNotion, SaveRules

\* No step lets an application of its organisation past a submission that has
\* counted, but those whose transactions take no lock.
LEMMA NonePast ==
  ASSUME LInv, [Next]_vars, NEW c \in App, tx[c].pc = "insert", tx[c].org # NoOrg, tx'[c] = tx[c]
  PROVE  \A b \in App : Holds(b)' /\ app'[b].org = tx[c].org /\ b \notin since'[c] =>
           b \notin since[c] /\ app'[b] = app[b]
<1> DEFINE Past(b) == Holds(b)' /\ app'[b].org = tx[c].org /\ b \notin since'[c] =>
                        b \notin since[c] /\ app'[b] = app[b]
<1> SUFFICES ASSUME NEW b \in App PROVE Past(b)
  OBVIOUS
<1> USE DEF LInv, Typed
<1>1. CASE app' = app /\ since' = since
  BY <1>1
<1>2. ASSUME NEW a \in App, Insert(a) PROVE Past(b)
  <2>1. a # c
    BY <1>2 DEF Insert, NoTx
  <2>2. app'[a].org = tx[a].org /\ tx[a].org # tx[c].org
    BY <1>2, <2>1 DEF Insert, OneInside, Inside
  <2> QED
    BY <1>2, <2>1, <2>2 DEF Insert
<1>3. ASSUME NEW a \in App, Fail(a) PROVE Past(b)
  BY <1>3 DEF Fail, NoTx
<1>4. ASSUME NEW a \in App, Move(a) \/ AdminEdit(a) \/ ImportNotion(a) PROVE Past(b)
  <2>1. since'[c] = since[c] \cup {a}
    BY <1>4 DEF Move, AdminEdit, ImportNotion, Unseen
  <2>2. b # a => app'[b] = app[b]
    BY <1>4 DEF Move, AdminEdit, ImportNotion
  <2> QED
    BY <2>1, <2>2
<1>5. ASSUME NEW a \in App, Delete(a) PROVE Past(b)
  BY <1>5 DEF Delete, Holds, NoApp, Pending, Live, Finished
<1> QED
  BY <1>1, <1>2, <1>3, <1>4, <1>5 DEF Next, vars, Begin, Lock, Count, SaveRules

\* There is room when a submission has counted, and none that it did not see
\* takes it before it inserts.
LEMMA RoomKept ==
  ASSUME LInv, [Next]_vars
  PROVE  RoomAtInsert'
<1> SUFFICES ASSUME NEW c \in App, NEW o, NEW d, NEW s,
                    tx'[c].pc = "insert", o = tx'[c].org, d = tx'[c].day, s = tx'[c].rule, o # NoOrg
             PROVE  /\ s.oneDay => SameDay(o, d)' \subseteq since'[c]
                    /\ s.half => Cardinality(InPeriod(o, d, s)' \ since'[c]) < s.count
  BY DEF RoomAtInsert, SameDay, InPeriod, Holds
<1> DEFINE S == SameDay(o, d)
           P == InPeriod(o, d, s)
<1>1. CASE Count(c)
  <2>1. tx[c] \in Submissions /\ tx[c].pc = "count" /\ (Within(tx[c]) \/ tx[c].org = NoOrg)
    BY <1>1 DEF Count, LInv, Typed, NoTx
  <2>2. /\ tx[c].org = o /\ tx[c].day = d /\ tx[c].rule = s /\ s \in Rules
        /\ app' = app /\ since' = since /\ since[c] = {}
    BY <1>1, <2>1 DEF Count, LInv, Typed, Submissions, SeenBefore
  <2>3. S' = S /\ P' = P
    BY <2>2 DEF SameDay, InPeriod, Holds
  <2>4. o \notin orgs => S = {} /\ P = {}
    <3>1. ASSUME o \notin orgs, NEW b \in App, Holds(b) PROVE app[b].org # o
      BY <3>1 DEF LInv, KnownOrgs, Holds, NoApp, Pending, Live, Finished
    <3> QED
      BY <3>1 DEF SameDay, InPeriod
  <2>5. s.count \in Nat \ {0}
    BY <2>2, RulesAreSettings
  <2>6. (s.oneDay => S = {}) /\ (s.half => Cardinality(P) < s.count)
    <3>1. CASE o \in orgs
      BY <3>1, <2>1, <2>2 DEF Within
    <3>2. CASE o \notin orgs
      BY <3>2, <2>4, <2>5, FS_EmptySet
    <3> QED
      BY <3>1, <3>2
  <2>7. P \ {} = P
    OBVIOUS
  <2> HIDE DEF S, P
  <2> QED
    BY <2>2, <2>3, <2>6, <2>7 DEF S, P
<1>2. CASE ~Count(c)
  <2>1. tx'[c] = tx[c]
    BY <1>2, CarriedAlong
  <2>2. tx[c].pc = "insert" /\ o = tx[c].org /\ d = tx[c].day /\ s = tx[c].rule
    BY <2>1
  <2>3. s.count \in Nat
    BY <2>2, RulesAreSettings DEF LInv, Typed, Submissions, NoTx
  <2>4. \A b \in App : Holds(b)' /\ app'[b].org = o /\ b \notin since'[c] =>
          b \notin since[c] /\ app'[b] = app[b]
    BY <2>1, <2>2, NonePast
  <2>5. S' \ since'[c] \subseteq S \ since[c]
    BY <2>4 DEF SameDay, Holds
  <2>6. P' \ since'[c] \subseteq P \ since[c]
    BY <2>4 DEF InPeriod, Holds
  <2>7. IsFiniteSet(P \ since[c])
    BY AppsAreFinite, FS_Subset DEF InPeriod
  <2>8. /\ s.oneDay => S \subseteq since[c]
        /\ s.half => Cardinality(P \ since[c]) < s.count
    BY <2>2 DEF LInv, LimitsKept, RoomAtInsert
  <2> DEFINE before == P \ since[c]
             after == P' \ since'[c]
  <2>9. /\ Cardinality(after) <= Cardinality(before)
        /\ Cardinality(after) \in Nat /\ Cardinality(before) \in Nat
    <3> HIDE DEF P, before, after
    <3>1. after \subseteq before /\ IsFiniteSet(before)
      BY <2>6, <2>7 DEF before, after
    <3> QED
      BY <3>1, FS_Subset, FS_CardinalityType
  <2> HIDE DEF S, P
  <2>10. s.half => Cardinality(after) < s.count
    BY <2>3, <2>8, <2>9
  <2>11. s.oneDay => S' \subseteq since'[c]
    BY <2>5, <2>8
  <2> QED
    BY <2>10, <2>11 DEF S, P
<1> QED
  BY <1>1, <1>2

\* The two limits are kept by every step.
LEMMA StepKeepsLimits ==
  ASSUME LInv, [Next]_vars
  PROVE  LInv'
<1> DEFINE Kept == CountStands' /\ OnePerDay' /\ CalendarHalfKept'
<1>1. Typed' /\ KnownOrgs' /\ FreeIsCounted' /\ OneInside' /\ SeenBefore'
  BY StepTyped
<1>2. ASSUME NEW a \in App, Insert(a) PROVE Kept
  BY <1>1, <1>2, InsertKeepsLimits
<1>3. ASSUME NEW a \in App, Count(a) PROVE Kept
  <2>1. app' = app /\ under' = under /\ orgs' = orgs
    BY <1>3 DEF Count
  <2>2. \A c \in App \ {a} : tx'[c] = tx[c]
    BY <1>3 DEF Count, LInv, Typed
  <2>3. tx[a] \in Submissions /\ tx[a].pc = "count"
    BY <1>3 DEF Count, LInv, Typed, NoTx
  <2>4. tx'[a].pc = "insert" /\ tx'[a].org # NoOrg =>
          /\ Within(tx[a]) /\ tx[a].org # NoOrg
          /\ tx'[a].org = tx[a].org /\ tx'[a].day = tx[a].day /\ tx'[a].rule = tx[a].rule
    BY <1>3, <2>3 DEF Count, LInv, Typed, NoTx, Submissions
  <2>5. CountStands'
    <3> SUFFICES ASSUME NEW c \in App, tx'[c].pc = "insert" /\ tx'[c].org # NoOrg
                 PROVE  /\ tx'[c].rule.oneDay => OnDay(tx'[c].org, tx'[c].day) = {}
                        /\ CalendarRule(tx'[c].rule) =>
                             Cardinality(InHalf(tx'[c].rule, tx'[c].org, tx'[c].day)) < tx'[c].rule.count
      BY <2>1 DEF CountStands, OnDay, InHalf, Holds
    <3>1. CASE c = a
      BY <3>1, <2>3, <2>4, CountFindsAll
    <3>2. CASE c # a
      BY <3>2, <2>2 DEF LInv, CountStands
    <3> QED
      BY <3>1, <3>2
  <2>6. OnePerDay' /\ CalendarHalfKept'
    BY <2>1 DEF LInv, LimitsKept, OnePerDay, CalendarHalfKept, Holds
  <2> QED
    BY <2>5, <2>6
<1>4. ASSUME \A a \in App : ~Insert(a) /\ ~Count(a) PROVE Kept
  <2>1. \A b \in App : NotNewlyCounted(b)
    BY <1>4, OthersAreQuiet
  <2> QED
    BY <1>1, <1>4, <2>1, CarriedAlong, QuietKeepsLimits
<1>5. RoomAtInsert'
  BY RoomKept
<1> QED
  BY <1>1, <1>2, <1>3, <1>4, <1>5 DEF LInv, LimitsKept

\* No submission is let in for want of seeing another one: for any number of
\* organisations, applications and days, free or paid, and every value of the
\* settings, an organisation has room in both limits when a submission inserts,
\* but for what a payment, a decision, a correction or an import changed without
\* the lock after the count.  What stands afterwards: one application a day, and
\* in calendar halves, among free applications, no more than the limit.
THEOREM LimitsHold == IntakeSpec => []LimitsKept
<1>1. IntakeInit => LInv
  <2> SUFFICES ASSUME Init PROVE LInv
    BY DEF IntakeInit
  <2>1. Typed /\ KnownOrgs /\ FreeIsCounted /\ OneInside /\ SeenBefore
    BY DEF Init, Typed, KnownOrgs, FreeIsCounted, OneInside, SeenBefore, NoTx, NoApp, Inside
  <2>2. \A a \in App : ~Holds(a)
    BY DEF Init, Holds, NoApp, Pending, Live, Finished
  <2>3. CountStands /\ RoomAtInsert
    BY DEF Init, CountStands, RoomAtInsert, NoTx
  <2>4. OnePerDay
    BY <2>2 DEF OnePerDay
  <2>5. \A s \in Rules, o \in Org, d \in Day : CalendarRule(s) => Cardinality(InHalf(s, o, d)) <= s.count
    <3> SUFFICES ASSUME NEW s \in Rules, NEW o \in Org, NEW d \in Day
                 PROVE  Cardinality(InHalf(s, o, d)) <= s.count
      OBVIOUS
    <3>1. InHalf(s, o, d) = {}
      BY <2>2 DEF InHalf
    <3> QED
      BY <3>1, FS_EmptySet, RulesAreSettings
  <2> QED
    BY <2>1, <2>3, <2>4, <2>5, LimitsInSets DEF LInv, LimitsKept
<1>2. LInv /\ [IntakeNext]_allVars => LInv'
  <2> SUFFICES ASSUME LInv, [IntakeNext]_allVars PROVE LInv'
    OBVIOUS
  <2>1. [Next]_vars
    BY DEF IntakeNext, allVars, vars
  <2> QED
    BY <2>1, StepKeepsLimits
<1>3. LInv => LimitsKept
  BY DEF LInv
<1> QED
  BY <1>1, <1>2, <1>3, PTL DEF IntakeSpec
-----------------------------------------------------------------------------
\* The import.  What its rows and its runs hold.
Refs == {<<p>> : p \in Page} \cup (Page \X Hall)

Work == [ref : Refs, page : Page, hall : Hall, at : Start, approved : BOOLEAN]

Imports == [ref : Refs, page : Page, of : Hall, hall : Hall, at : Start,
            approved : BOOLEAN, held : BOOLEAN, by : Console \cup {"nobody"}]

Runs ==
  {NoRun} \cup [pc : {"fetched"}, todo : SUBSET Work]
          \cup [pc : {"inserting"}, lost : SUBSET [approved : BOOLEAN, to : BOOLEAN], todo : SUBSET Work]

ImportTyped ==
  /\ importing => notion \in [Page -> Versions] /\ shapes \in [Page -> SUBSET {"one", "several"}]
  /\ ~importing => rows = {} /\ run = [c \in Console |-> NoRun]
  /\ rows \subseteq Imports
  /\ run \in [Console -> Runs]

\* A reference was given to its page when the page had one hall, or several.
Named(ref, p, h) ==
  \/ ref = <<p>> /\ "one" \in shapes[p]
  \/ ref = <<p, h>> /\ "several" \in shapes[p]

RefsNamed ==
  /\ importing => \A p \in Page : Shape(notion[p]) \subseteq shapes[p]
  /\ \A r \in rows : Named(r.ref, r.page, r.of)
  /\ \A c \in Console : run[c] # NoRun => \A x \in run[c].todo : Named(x.ref, x.page, x.hall)

\* The unique index on the reference.
OneRef == \A r, q \in rows : r.ref = q.ref => r = q

\* Uncommitted rows are those of a transaction at work.
OwnRows == \A c \in Console : run[c].pc # "inserting" => OfRun(c) = {}

\* While an approved page is to come, only approved ones went before.
ApprovedAhead ==
  \A c \in Console : run[c].pc = "inserting" =>
    \A x \in run[c].todo : x.approved => \A r \in OfRun(c) : r.approved

KInv == ImportTyped /\ RefsNamed /\ OneRef /\ OwnRows /\ ApprovedAhead /\ ApprovedFirst

-----------------------------------------------------------------------------
\* A page that names a hall has a shape, and its candidates are named by it.
LEMMA ShapesAre ==
  ASSUME NEW v \in Versions
  PROVE  /\ Shape(v) \subseteq {"one", "several"}
         /\ v.halls # {} => Shape(v) = {"one"} \/ Shape(v) = {"several"}
<1>1. IsFiniteSet(v.halls)
  BY HallsAreFinite, FS_Subset DEF Versions
<1>2. v.halls # {} => Cardinality(v.halls) # 0
  BY <1>1, FS_EmptySet
<1> QED
  BY <1>2 DEF Shape

LEMMA CandidatesNamed ==
  ASSUME KInv, importing, NEW p \in Page, NEW x \in Candidates(p, notion[p])
  PROVE  x \in Work /\ Named(x.ref, x.page, x.hall)
<1> DEFINE v == notion[p]
<1>1. v \in Versions
  BY DEF KInv, ImportTyped
<1>2. PICK h \in v.halls :
        x = [ref |-> RefOf(p, v, h), page |-> p, hall |-> h, at |-> v.at, approved |-> v.status = "approved"]
  BY DEF Candidates
<1>3. h \in Hall /\ v.at \in Start
  BY <1>1, <1>2 DEF Versions
<1>4. RefOf(p, v, h) \in Refs
  BY <1>3 DEF RefOf, Refs
<1>5. Shape(v) = {"one"} \/ Shape(v) = {"several"}
  BY <1>1, <1>2, ShapesAre
<1>6. Shape(v) \subseteq shapes[p]
  BY DEF KInv, RefsNamed
<1>7. Named(RefOf(p, v, h), p, h)
  BY <1>5, <1>6 DEF Named, RefOf
<1> QED
  BY <1>2, <1>3, <1>4, <1>7 DEF Work

\* What rows that were not there are; the rest of the step changes the run of c
\* at most.
LEMMA RowsKeep ==
  ASSUME KInv, importing, importing' = importing,
         notion' = notion, shapes' = shapes, run' \in [Console -> Runs],
         rows' \subseteq Imports, NEW c,
         \A d \in Console \ {c} : run'[d] = run[d] /\ OfRun(d)' = OfRun(d),
         \A r \in rows' : Named(r.ref, r.page, r.of),
         OneRef',
         c \in Console =>
           /\ run'[c] # NoRun => \A x \in run'[c].todo : Named(x.ref, x.page, x.hall)
           /\ run'[c].pc # "inserting" => OfRun(c)' = {}
           /\ run'[c].pc = "inserting" =>
                /\ \A x \in run'[c].todo : x.approved => \A r \in OfRun(c)' : r.approved
                /\ \A l \in run'[c].lost : l.approved => l.to
  PROVE  KInv'
<1>1. ImportTyped'
  BY DEF KInv, ImportTyped
<1>2. RefsNamed'
  BY DEF KInv, RefsNamed, Named
<1>3. OwnRows' /\ ApprovedAhead' /\ ApprovedFirst'
  BY DEF KInv, OwnRows, ApprovedAhead, ApprovedFirst
<1> QED
  BY <1>1, <1>2, <1>3 DEF KInv

\* A committed row r is replaced by m, the same application; nothing of any run.
LEMMA RowReplaced ==
  ASSUME KInv, importing, importing' = importing, UNCHANGED <<notion, shapes, run>>,
         NEW r \in Committed, NEW m \in Imports, m.by = "nobody",
         m.ref = r.ref, m.page = r.page, m.of = r.of,
         rows' = (rows \ {r}) \cup {m} \/ rows' = rows \ {r}
  PROVE  KInv'
<1>1. \A d \in Console : OfRun(d)' = OfRun(d)
  BY NobodyIsNoConsole DEF OfRun, Committed
<1>2. r \in rows /\ rows' \subseteq Imports /\ run' \in [Console -> Runs]
  BY DEF Committed, KInv, ImportTyped
<1>3. OneRef'
  BY <1>2 DEF KInv, OneRef
<1>4. \A q \in rows' : Named(q.ref, q.page, q.of)
  BY <1>2 DEF KInv, RefsNamed
<1> QED
  BY <1>1, <1>2, <1>3, <1>4, NobodyIsNoConsole, RowsKeep

\* What staff do to an imported application.
LEMMA StaffStep ==
  ASSUME KInv, importing, NEW r \in Committed, CloseRow(r) \/ MoveRow(r) \/ DeleteRow(r),
         UNCHANGED <<importing, notion, shapes, run>>
  PROVE  KInv'
<1>1. r \in Imports /\ r.by = "nobody"
  BY DEF Committed, KInv, ImportTyped
<1>2. CASE CloseRow(r)
  <2> DEFINE m == [r EXCEPT !.held = FALSE]
  <2>1. m \in Imports /\ m.by = "nobody" /\ m.ref = r.ref /\ m.page = r.page /\ m.of = r.of
    BY <1>1 DEF Imports
  <2>2. rows' = (rows \ {r}) \cup {m}
    BY <1>2 DEF CloseRow
  <2> HIDE DEF m
  <2> QED
    BY <2>1, <2>2, RowReplaced
<1>3. CASE MoveRow(r)
  <2>1. PICK h \in Hall, t \in Start : rows' = (rows \ {r}) \cup {[r EXCEPT !.hall = h, !.at = t]}
    BY <1>3 DEF MoveRow
  <2> DEFINE m == [r EXCEPT !.hall = h, !.at = t]
  <2>2. m \in Imports /\ m.by = "nobody" /\ m.ref = r.ref /\ m.page = r.page /\ m.of = r.of
    BY <1>1 DEF Imports
  <2>3. rows' = (rows \ {r}) \cup {m}
    BY <2>1
  <2> HIDE DEF m
  <2> QED
    BY <2>2, <2>3, RowReplaced
<1>4. CASE DeleteRow(r)
  BY <1>1, <1>4, RowReplaced DEF DeleteRow
<1> QED
  BY <1>2, <1>3, <1>4

\* The pages are corrected; no reference changes with them.
LEMMA EditStep ==
  ASSUME KInv, importing, NEW p \in Page, EditPage(p)
  PROVE  KInv'
<1>1. PICK v \in Versions : /\ notion' = [notion EXCEPT ![p] = v]
                            /\ shapes' = [shapes EXCEPT ![p] = @ \cup Shape(v)]
  BY DEF EditPage
<1>2. Shape(v) \subseteq {"one", "several"}
  BY ShapesAre
<1>3. UNCHANGED <<importing, rows, run>>
  BY DEF EditPage
<1>4. ImportTyped'
  BY <1>1, <1>2, <1>3 DEF KInv, ImportTyped
<1>5. \A q \in Page : shapes[q] \subseteq shapes'[q] /\ Shape(notion'[q]) \subseteq shapes'[q]
  BY <1>1 DEF KInv, ImportTyped, RefsNamed
<1>6. \A q \in Page : \A ref, h : Named(ref, q, h) => Named(ref, q, h)'
  BY <1>5 DEF Named
<1>7. RefsNamed'
  <2>1. \A r \in rows : r.page \in Page
    BY DEF KInv, ImportTyped, Imports
  <2>2. \A c \in Console : run[c] # NoRun => \A x \in run[c].todo : x.page \in Page
    BY DEF KInv, ImportTyped, Runs, Work
  <2> QED
    BY <1>3, <1>5, <1>6, <2>1, <2>2 DEF KInv, RefsNamed
<1> QED
  BY <1>3, <1>4, <1>7 DEF KInv, OneRef, OwnRows, OfRun, ApprovedAhead, ApprovedFirst

\* The steps of a run before it inserts.
LEMMA ReadStep ==
  ASSUME KInv, importing, NEW c \in Console, FetchPages(c) \/ LookUp(c)
  PROVE  KInv'
<1>1. UNCHANGED <<importing, notion, shapes, rows>>
  BY DEF FetchPages, LookUp
<1>2. CASE FetchPages(c)
  <2> DEFINE todo == UNION {Candidates(p, notion[p]) : p \in Page}
  <2>1. \A x \in todo : x \in Work /\ Named(x.ref, x.page, x.hall)
    BY CandidatesNamed
  <2> HIDE DEF todo
  <2>2. run' = [run EXCEPT ![c] = [pc |-> "fetched", todo |-> todo]] /\ run[c] = NoRun
    BY <1>2 DEF FetchPages, todo
  <2>3. run' \in [Console -> Runs]
    BY <2>1, <2>2 DEF KInv, ImportTyped, Runs
  <2>4. run'[c].pc = "fetched" /\ run'[c].todo = todo /\ OfRun(c) = {}
    BY <2>2 DEF KInv, ImportTyped, OwnRows, NoRun
  <2> QED
    BY <1>1, <2>1, <2>2, <2>3, <2>4, RowsKeep DEF KInv, ImportTyped, RefsNamed, OneRef, OfRun
<1>3. CASE LookUp(c)
  <2> DEFINE todo == {x \in run[c].todo : x.ref \notin {r.ref : r \in Committed}}
  <2>1. run[c].pc = "fetched" /\ OfRun(c) = {}
    BY <1>3 DEF LookUp, KInv, OwnRows
  <2>2. \A x \in todo : x \in Work /\ Named(x.ref, x.page, x.hall)
    BY <2>1 DEF KInv, ImportTyped, RefsNamed, Runs, NoRun
  <2> HIDE DEF todo
  <2>3. run' = [run EXCEPT ![c] = [pc |-> "inserting", lost |-> {}, todo |-> todo]]
    BY <1>3 DEF LookUp, todo
  <2>4. run' \in [Console -> Runs]
    BY <2>2, <2>3 DEF KInv, ImportTyped, Runs
  <2>5. run'[c].pc = "inserting" /\ run'[c].todo = todo /\ run'[c].lost = {}
    BY <2>3 DEF KInv, ImportTyped
  <2> QED
    BY <1>1, <2>1, <2>2, <2>3, <2>4, <2>5, RowsKeep DEF KInv, ImportTyped, RefsNamed, OneRef, OfRun
<1> QED
  BY <1>2, <1>3

\* A row goes in, or its slot is taken; approved pages went first.
LEMMA InsertStep ==
  ASSUME KInv, importing, NEW c \in Console, InsertNext(c)
  PROVE  KInv'
<1>1. run[c].pc = "inserting" /\ UNCHANGED <<importing, notion, shapes>>
  BY DEF InsertNext
<1>2. PICK x \in run[c].todo :
        /\ \A y \in run[c].todo : ~Precedes(y, x)
        /\ x.ref \notin {r.ref : r \in rows}
        /\ InsertOrSkip(c, x)
  BY DEF InsertNext
<1>3. /\ run[c] \in [pc : {"inserting"}, lost : SUBSET [approved : BOOLEAN, to : BOOLEAN], todo : SUBSET Work]
      /\ x \in Work
      /\ \A y \in run[c].todo : y \in Work /\ Named(y.ref, y.page, y.hall)
  BY <1>1, <1>2 DEF KInv, ImportTyped, RefsNamed, Runs, NoRun
<1>4. x.approved => \A r \in OfRun(c) : r.approved
  BY <1>1, <1>2 DEF KInv, ApprovedAhead
<1>5. ~x.approved => \A y \in run[c].todo : ~y.approved
  BY <1>2, <1>3 DEF Precedes, Work
<1>6. ASSUME NEW r, rows' = rows \cup {r},
             r = [ref |-> x.ref, page |-> x.page, of |-> x.hall, hall |-> x.hall, at |-> x.at,
                  approved |-> x.approved, held |-> TRUE, by |-> c],
             run' = [run EXCEPT ![c].todo = @ \ {x}]
      PROVE  KInv'
  <2>1. r \in Imports /\ r.by = c /\ r.ref = x.ref /\ r.page = x.page /\ r.of = x.hall
        /\ r.approved = x.approved
    BY <1>3, <1>6 DEF Imports, Work
  <2>2. rows' \subseteq Imports /\ (\A q \in rows' : Named(q.ref, q.page, q.of)) /\ OneRef'
    <3>1. rows' \subseteq Imports
      BY <1>6, <2>1 DEF KInv, ImportTyped
    <3>2. ASSUME NEW q \in rows' PROVE Named(q.ref, q.page, q.of)
      BY <1>2, <1>3, <1>6, <2>1 DEF KInv, RefsNamed
    <3>3. \A q \in rows : q.ref # r.ref
      BY <1>2, <2>1
    <3>4. OneRef'
      BY <1>6, <3>3 DEF KInv, OneRef
    <3> QED
      BY <3>1, <3>2, <3>4
  <2>3. run'[c].pc = "inserting" /\ run'[c].todo = run[c].todo \ {x} /\ run'[c].lost = run[c].lost
        /\ run' \in [Console -> Runs]
    BY <1>1, <1>3, <1>6 DEF KInv, ImportTyped, Runs
  <2>4. OfRun(c)' = OfRun(c) \cup {r} /\ \A d \in Console \ {c} : OfRun(d)' = OfRun(d) /\ run'[d] = run[d]
    BY <1>6, <2>1 DEF OfRun, KInv, ImportTyped
  <2>5. \A y \in run'[c].todo : y.approved => \A q \in OfRun(c)' : q.approved
    BY <1>1, <1>4, <1>5, <2>1, <2>3, <2>4 DEF KInv, ApprovedAhead
  <2>6. \A l \in run'[c].lost : l.approved => l.to
    BY <1>1, <2>3 DEF KInv, ApprovedFirst
  <2>7. \A y \in run'[c].todo : Named(y.ref, y.page, y.hall)
    BY <1>3, <2>3
  <2> QED
    BY <1>1, <2>2, <2>3, <2>4, <2>5, <2>6, <2>7, RowsKeep
<1>7. ASSUME NEW L, L = {[approved |-> x.approved, to |-> r.approved] : r \in Overlapping(x) \cap OfRun(c)},
             run' = [run EXCEPT ![c].todo = @ \ {x}, ![c].lost = @ \cup L], rows' = rows
      PROVE  KInv'
  <2>1. L \subseteq [approved : BOOLEAN, to : BOOLEAN]
    <3>1. \A r \in OfRun(c) : r.approved \in BOOLEAN
      BY DEF OfRun, KInv, ImportTyped, Imports
    <3> QED
      BY <1>3, <1>7, <3>1 DEF Work
  <2>2. \A l \in L : l.approved => l.to
    BY <1>4, <1>7
  <2>3. run'[c].pc = "inserting" /\ run'[c].todo = run[c].todo \ {x} /\ run'[c].lost = run[c].lost \cup L
        /\ run' \in [Console -> Runs] /\ \A d \in Console \ {c} : run'[d] = run[d]
    BY <1>1, <1>3, <1>7, <2>1 DEF KInv, ImportTyped, Runs
  <2>4. \A y \in run'[c].todo : y.approved => \A q \in OfRun(c) : q.approved
    BY <1>1, <2>3 DEF KInv, ApprovedAhead
  <2>5. \A l \in run'[c].lost : l.approved => l.to
    BY <1>1, <2>2, <2>3 DEF KInv, ApprovedFirst
  <2>6. rows' \subseteq Imports /\ (\A q \in rows' : Named(q.ref, q.page, q.of)) /\ OneRef'
    BY <1>7 DEF KInv, ImportTyped, RefsNamed, OneRef
  <2>7. \A d \in Console : OfRun(d)' = OfRun(d)
    BY <1>7 DEF OfRun
  <2>8. \A y \in run'[c].todo : Named(y.ref, y.page, y.hall)
    BY <1>3, <2>3
  <2> QED
    BY <1>1, <2>3, <2>4, <2>5, <2>6, <2>7, <2>8, RowsKeep
<1> QED
  BY <1>2, <1>6, <1>7 DEF InsertOrSkip

\* A run ends, and its rows with it or for good.
LEMMA EndStep ==
  ASSUME KInv, importing, NEW c \in Console, Abort(c) \/ Finish(c)
  PROVE  KInv'
<1>1. run' = [run EXCEPT ![c] = NoRun] /\ UNCHANGED <<importing, notion, shapes>>
  BY DEF Abort, Finish
<1>2. run' \in [Console -> Runs] /\ run'[c] = NoRun /\ NoRun.pc # "inserting"
      /\ \A d \in Console \ {c} : run'[d] = run[d]
  BY <1>1 DEF KInv, ImportTyped, Runs, NoRun
<1>3. CASE Abort(c)
  <2>1. rows' = rows \ OfRun(c)
    BY <1>3 DEF Abort
  <2>2. rows' \subseteq Imports /\ (\A q \in rows' : Named(q.ref, q.page, q.of)) /\ OneRef'
    BY <2>1 DEF KInv, ImportTyped, RefsNamed, OneRef
  <2>3. OfRun(c)' = {} /\ \A d \in Console \ {c} : OfRun(d)' = OfRun(d)
    BY <2>1 DEF OfRun
  <2> QED
    BY <1>1, <1>2, <2>2, <2>3, RowsKeep
<1>4. CASE Finish(c)
  <2> DEFINE done(r) == [r EXCEPT !.by = "nobody"]
  <2>1. rows' = (rows \ OfRun(c)) \cup {done(r) : r \in OfRun(c)}
    BY <1>4 DEF Finish
  <2>2. \A r \in OfRun(c) : /\ r \in rows /\ done(r) \in Imports /\ done(r).by = "nobody"
                            /\ done(r).ref = r.ref /\ done(r).page = r.page /\ done(r).of = r.of
    BY DEF OfRun, KInv, ImportTyped, Imports
  <2> HIDE DEF done
  <2>3. rows' \subseteq Imports /\ \A q \in rows' : Named(q.ref, q.page, q.of)
    BY <2>1, <2>2 DEF KInv, ImportTyped, RefsNamed
  <2>4. OneRef'
    BY <2>1, <2>2 DEF KInv, OneRef
  <2>5. OfRun(c)' = {} /\ \A d \in Console \ {c} : OfRun(d)' = OfRun(d)
    BY <2>1, <2>2, NobodyIsNoConsole DEF OfRun
  <2> QED
    BY <1>1, <1>2, <2>3, <2>4, <2>5, RowsKeep
<1> QED
  BY <1>3, <1>4

\* A page is imported once, and approved pages before the others, for any
\* pages, halls, times and consoles, however often an import is run and
\* whatever staff correct in between.
THEOREM ImportHolds == IntakeSpec => []ImportKept
<1>1. IntakeInit => KInv
  <2> SUFFICES ASSUME ImportInit PROVE KInv
    BY DEF IntakeInit
  <2>1. importing => notion \in [Page -> Versions] /\ \A p \in Page : Shape(notion[p]) \subseteq {"one", "several"}
    BY ShapesAre DEF ImportInit
  <2>2. ImportTyped
    BY <2>1 DEF ImportInit, ImportTyped, Runs
  <2>3. RefsNamed
    BY <2>1 DEF ImportInit, RefsNamed
  <2> QED
    BY <2>2, <2>3 DEF ImportInit, KInv, OneRef, OwnRows, OfRun, ApprovedAhead, ApprovedFirst, NoRun
<1>2. KInv /\ [IntakeNext]_allVars => KInv'
  <2> SUFFICES ASSUME KInv, [IntakeNext]_allVars PROVE KInv'
    OBVIOUS
  <2>1. CASE UNCHANGED importVars
    BY <2>1 DEF importVars, KInv, ImportTyped, RefsNamed, Named, OneRef, OwnRows, OfRun,
                ApprovedAhead, ApprovedFirst
  <2>2. CASE importing /\ ImportNext
    BY <2>2, EditStep, ReadStep, InsertStep, EndStep, StaffStep DEF ImportNext
  <2> QED
    BY <2>1, <2>2 DEF IntakeNext, allVars, importVars
<1>3. KInv => ImportKept
  <2> SUFFICES ASSUME KInv, NEW r \in rows, NEW q \in rows, r.page = q.page, r # q,
                      shapes[r.page] # {"one", "several"}
               PROVE  shapes[r.page] = {"several"} /\ r.of # q.of
    BY DEF KInv, ImportKept, ImportedOnce
  <2>1. importing /\ r.page \in Page /\ shapes[r.page] \subseteq {"one", "several"}
    BY DEF KInv, ImportTyped, Imports
  <2>2. r.ref # q.ref /\ Named(r.ref, r.page, r.of) /\ Named(q.ref, q.page, q.of)
    BY DEF KInv, OneRef, RefsNamed
  <2> QED
    BY <2>1, <2>2 DEF Named
<1> QED
  BY <1>1, <1>2, <1>3, PTL DEF IntakeSpec
=============================================================================
