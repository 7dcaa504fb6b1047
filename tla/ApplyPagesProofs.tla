-------------------------- MODULE ApplyPagesProofs --------------------------
(***************************************************************************)
(* The four parts of ApplyPages, each with an invariant of its own:        *)
(*   - a file with a row is stored and left alone (FilesInv);              *)
(*   - what a code has opened and stood is in its row (CodesInv);          *)
(*   - answers and what is stored of them are about their keys (PickerInv);*)
(*   - venues and bookings stay what the rules are about (DayInv), and     *)
(*     then OffersAreExact follows by arithmetic: a slot is free when what *)
(*     is busy, cut off at the ends of the day, leaves it alone; ends that *)
(*     are offered are whole slots away.                                   *)
(***************************************************************************)
EXTENDS ApplyPages, TLAPS

-----------------------------------------------------------------------------
\* A file with a row is stored and nobody is at work on it.
FilesInv ==
  /\ row \in [File -> {"none", "pending", "attached"}]
  /\ doing \in [File -> {"nothing", "put", "insert", "remove"}]
  /\ \A f \in File : /\ row[f] # "none" => f \in stored /\ doing[f] = "nothing"
                     /\ doing[f] = "insert" => f \in stored

\* No step of the files' takes away a file that has a row.
LEMMA FilesStep ==
  ASSUME FilesInv, FilesNext
  PROVE  FilesInv'
<1> USE DEF FilesInv
<1>1. ASSUME NEW f \in File, Upload(f) PROVE FilesInv'
  BY <1>1 DEF Upload, StartUpload, Put, InsertRow
<1>2. ASSUME NEW F \in SUBSET File, \A f \in F : Removable(f), DeleteRow(F) PROVE FilesInv'
  BY <1>2 DEF DeleteRow, Removable
<1>3. ASSUME NEW f \in File, Remove(f) PROVE FilesInv'
  BY <1>3, <1>2 DEF Remove
<1>4. CASE Purge
  BY <1>4, <1>2 DEF Purge
<1>5. ASSUME NEW f \in File, RemoveFile(f) \/ Crash(f) PROVE FilesInv'
  BY <1>5 DEF RemoveFile, Crash
<1>6. CASE ReadFiles \/ Attach \/ SubmitFails \/ DeleteApplication
  BY <1>6 DEF ReadFiles, Attach, SubmitFails, DeleteApplication
<1> QED
  BY <1>1, <1>3, <1>4, <1>5, <1>6 DEF FilesNext

\* Every row of an attachment has its file, for any files and any number of
\* crashes.
THEOREM RowsHaveFiles == Spec => []RowHasFile
<1>1. Init => FilesInv
  BY DEF Init, FileInit, FilesInv
<1>2. FilesInv /\ [Next]_vars => FilesInv'
  <2> SUFFICES ASSUME FilesInv, [Next]_vars PROVE FilesInv'
    OBVIOUS
  <2>1. CASE UNCHANGED fileVars
    BY <2>1 DEF fileVars, FilesInv
  <2>2. CASE FilesNext
    BY <2>2, FilesStep
  <2> QED
    BY <2>1, <2>2 DEF Next, vars, fileVars
<1>3. FilesInv => RowHasFile
  BY DEF FilesInv, RowHasFile
<1> QED
  BY <1>1, <1>2, <1>3, PTL DEF Spec

-----------------------------------------------------------------------------
Codes == [consumed : BOOLEAN, attempts : 0 .. MAX_GUESSES, age : {"fresh", "expired", "old"}]

Tallies == [opened : {0, 1}, guessed : 0 .. MAX_GUESSES]

\* The history of a code is what its row says, and a request goes through rows
\* there are.
CodesInv ==
  /\ otps \in Seq(Codes)
  /\ history \in Seq(Tallies)
  /\ Len(history) = Len(otps)
  /\ \A i \in 1 .. Len(otps) : /\ history[i].guessed = otps[i].attempts
                               /\ history[i].opened = (IF otps[i].consumed THEN 1 ELSE 0)
  /\ visit = [v \in Visitor |-> visit[v]]
  /\ \A v \in Visitor : visit[v].at = "selected" => DOMAIN visit[v].rows \subseteq 1 .. Len(otps)

\* One row changes, and what is remembered of it with it.
LEMMA RowChanges ==
  ASSUME CodesInv, NEW i \in 1 .. Len(otps), NEW o \in Codes, NEW h \in Tallies,
         otps' = [otps EXCEPT ![i] = o], history' = [history EXCEPT ![i] = h],
         h.guessed = o.attempts, h.opened = (IF o.consumed THEN 1 ELSE 0),
         visit' = visit \/ \E v \in Visitor : visit' = [visit EXCEPT ![v] = Away]
  PROVE  CodesInv'
<1>1. otps' \in Seq(Codes) /\ Len(otps') = Len(otps)
  BY DEF CodesInv
<1>2. history' \in Seq(Tallies) /\ Len(history') = Len(history)
  BY DEF CodesInv, Tallies
<1>3. \A j \in 1 .. Len(otps) : /\ otps'[j] = IF j = i THEN o ELSE otps[j]
                                /\ history'[j] = IF j = i THEN h ELSE history[j]
  BY DEF CodesInv
<1>4. \A j \in 1 .. Len(otps') : /\ history'[j].guessed = otps'[j].attempts
                                 /\ history'[j].opened = (IF otps'[j].consumed THEN 1 ELSE 0)
  BY <1>1, <1>3 DEF CodesInv
<1>5. /\ visit' = [v \in Visitor |-> visit'[v]]
      /\ \A v \in Visitor : visit'[v].at = "selected" => DOMAIN visit'[v].rows \subseteq 1 .. Len(otps')
  BY <1>1 DEF CodesInv, Away
<1> QED
  BY <1>1, <1>2, <1>4, <1>5 DEF CodesInv, Tallies

\* A code is looked at as its row is under the lock.
LEMMA VerifyStep ==
  ASSUME CodesInv, NEW v \in Visitor, VerifyCode(v)
  PROVE  CodesInv'
<1> DEFINE q == visit[v]
<1>1. q.at = "selected" /\ visit' = [visit EXCEPT ![v] = Away]
  BY DEF VerifyCode
<1>2. Away.at # "selected"
  BY DEF Away
<1>3. CASE UNCHANGED <<otps, history>>
  BY <1>1, <1>2, <1>3 DEF CodesInv
<1>4. ASSUME NEW i \in NewestCode(q), Rows(q)[i].attempts < MAX_GUESSES,
             RightCode(i) \/ WrongCode(i, Rows(q)[i])
      PROVE  CodesInv'
  <2>1. i \in 1 .. Len(otps) /\ Rows(q)[i] = otps[i] /\ ~otps[i].consumed
    BY <1>1, <1>4 DEF NewestCode, Rows, CodesInv
  <2>2. otps[i] \in Codes /\ history[i] \in Tallies
        /\ history[i].opened = 0 /\ history[i].guessed = otps[i].attempts
        /\ otps[i].attempts < MAX_GUESSES /\ MAX_GUESSES \in Nat
    BY <2>1, <1>4, AccessBounds DEF CodesInv
  <2>3. CASE RightCode(i)
    <3> DEFINE o == [otps[i] EXCEPT !.consumed = TRUE]
               h == [history[i] EXCEPT !.opened = 1]
    <3>1. o \in Codes /\ h \in Tallies /\ h.guessed = o.attempts /\ o.consumed /\ h.opened = 1
      BY <2>2 DEF Codes, Tallies
    <3>2. otps' = [otps EXCEPT ![i] = o] /\ history' = [history EXCEPT ![i] = h]
      BY <2>2, <2>3 DEF RightCode
    <3> HIDE DEF o, h
    <3> QED
      BY <1>1, <2>1, <3>1, <3>2, RowChanges
  <2>4. CASE WrongCode(i, Rows(q)[i])
    <3> DEFINE o == [otps[i] EXCEPT !.attempts = otps[i].attempts + 1]
               h == [history[i] EXCEPT !.guessed = history[i].guessed + 1]
    <3>1. o \in Codes /\ h \in Tallies /\ h.guessed = o.attempts /\ ~o.consumed /\ h.opened = 0
      BY <2>1, <2>2 DEF Codes, Tallies
    <3>2. otps' = [otps EXCEPT ![i] = o] /\ history' = [history EXCEPT ![i] = h]
      BY <2>1, <2>4 DEF WrongCode
    <3> HIDE DEF o, h
    <3> QED
      BY <1>1, <2>1, <3>1, <3>2, RowChanges
  <2> QED
    BY <1>4, <2>3, <2>4
<1> QED
  BY <1>3, <1>4 DEF VerifyCode

\* Nothing else opens a session or counts a guess.
LEMMA CodesStep ==
  ASSUME CodesInv, AccessNext
  PROVE  CodesInv'
<1>1. ASSUME NEW v \in Visitor, CountCodes(v) PROVE CodesInv'
  BY <1>1 DEF CountCodes, CodesInv
<1>2. ASSUME NEW v \in Visitor, StoreCode(v) PROVE CodesInv'
  <2> DEFINE code == [consumed |-> FALSE, attempts |-> 0, age |-> "fresh"]
             past == [opened |-> 0, guessed |-> 0]
  <2>1. code \in Codes /\ past \in Tallies
    BY AccessBounds DEF Codes, Tallies
  <2>2. otps' = Append(otps, code) /\ history' = Append(history, past)
        /\ visit' = [visit EXCEPT ![v] = Away] /\ Away.at # "selected"
    BY <1>2 DEF StoreCode, Away
  <2>3. ~code.consumed /\ code.attempts = 0 /\ past.opened = 0 /\ past.guessed = 0
    OBVIOUS
  <2> HIDE DEF code, past
  <2>4. otps' \in Seq(Codes) /\ history' \in Seq(Tallies)
        /\ Len(otps') = Len(otps) + 1 /\ Len(history') = Len(otps')
    BY <2>1, <2>2 DEF CodesInv
  <2>5. \A i \in 1 .. Len(otps') : /\ otps'[i] = IF i = Len(otps') THEN code ELSE otps[i]
                                   /\ history'[i] = IF i = Len(otps') THEN past ELSE history[i]
    BY <2>1, <2>2, <2>4 DEF CodesInv
  <2>6. \A i \in 1 .. Len(otps') : /\ history'[i].guessed = otps'[i].attempts
                                   /\ history'[i].opened = (IF otps'[i].consumed THEN 1 ELSE 0)
    BY <2>3, <2>4, <2>5 DEF CodesInv
  <2>7. /\ visit' = [w \in Visitor |-> visit'[w]]
        /\ \A w \in Visitor : visit'[w].at = "selected" => DOMAIN visit'[w].rows \subseteq 1 .. Len(otps')
    <3>1. Len(otps) \in Nat
      BY DEF CodesInv
    <3>2. 1 .. Len(otps) \subseteq 1 .. Len(otps')
      BY <2>4, <3>1
    <3>3. \A w \in Visitor : visit'[w].at = "selected" => visit'[w] = visit[w]
      BY <2>2 DEF CodesInv
    <3>4. visit' = [w \in Visitor |-> visit'[w]]
      BY <2>2 DEF CodesInv
    <3>5. \A w \in Visitor : visit[w].at = "selected" => DOMAIN visit[w].rows \subseteq 1 .. Len(otps)
      BY DEF CodesInv
    <3> QED
      BY <3>2, <3>3, <3>4, <3>5
  <2> QED
    BY <2>4, <2>6, <2>7 DEF CodesInv
<1>3. ASSUME NEW v \in Visitor, NEW code, SelectCode(v, code) PROVE CodesInv'
  <2>1. DOMAIN [i \in Counting |-> otps[i]] \subseteq 1 .. Len(otps)
    BY DEF Counting, CodesInv
  <2>2. otps' = otps /\ history' = history
        /\ visit' = [visit EXCEPT ![v] = [at |-> "selected", code |-> code, rows |-> [i \in Counting |-> otps[i]]]]
    BY <1>3 DEF SelectCode
  <2>3. \A w \in Visitor : visit'[w].at = "selected" => DOMAIN visit'[w].rows \subseteq 1 .. Len(otps)
    BY <2>1, <2>2 DEF CodesInv
  <2>4. visit' = [w \in Visitor |-> visit'[w]]
    BY <2>2 DEF CodesInv
  <2> QED
    BY <2>2, <2>3, <2>4 DEF CodesInv
<1>4. ASSUME NEW i \in DOMAIN otps, GrowOld(i) PROVE CodesInv'
  <2>0. PICK b \in {<<"fresh", "expired">>, <<"expired", "old">>} :
          /\ otps' = [otps EXCEPT ![i].age = b[2]] /\ UNCHANGED <<visit, history>>
    BY <1>4 DEF GrowOld
  <2> DEFINE a == b[2]
  <2>1. a \in {"expired", "old"} /\ otps' = [otps EXCEPT ![i].age = a] /\ UNCHANGED <<visit, history>>
    BY <2>0
  <2>2. i \in 1 .. Len(otps) /\ otps[i] \in Codes /\ history[i] \in Tallies
    BY DEF CodesInv
  <2> DEFINE o == [otps[i] EXCEPT !.age = a]
  <2>3. /\ o \in Codes /\ o.attempts = otps[i].attempts /\ o.consumed = otps[i].consumed
        /\ otps' = [otps EXCEPT ![i] = o]
    <3> HIDE DEF a
    <3> QED
      BY <2>1, <2>2 DEF Codes
  <2>4. history' = [history EXCEPT ![i] = history[i]]
    BY <2>1 DEF CodesInv
  <2>5. history[i].guessed = otps[i].attempts /\ history[i].opened = (IF otps[i].consumed THEN 1 ELSE 0)
    BY <2>2 DEF CodesInv
  <2> HIDE DEF o
  <2>6. history[i].guessed = o.attempts /\ history[i].opened = (IF o.consumed THEN 1 ELSE 0)
    BY <2>3, <2>5
  <2>7. visit' = visit /\ i \in 1 .. Len(otps) /\ o \in Codes /\ otps' = [otps EXCEPT ![i] = o]
    BY <2>1, <2>2, <2>3
  <2> DEFINE h == history[i]
  <2>8. h \in Tallies /\ history' = [history EXCEPT ![i] = h]
        /\ h.guessed = o.attempts /\ h.opened = (IF o.consumed THEN 1 ELSE 0)
    BY <2>2, <2>4, <2>6
  <2> HIDE DEF a, h
  <2> QED
    BY <2>7, <2>8, RowChanges
<1> QED
  BY <1>1, <1>2, <1>3, <1>4, VerifyStep DEF AccessNext

\* A code opens one session at most and stands so many wrong guesses, for any
\* number of browsers, codes and guesses.
THEOREM CodesAreSpent == Spec => []CodeIsSpent
<1>1. Init => CodesInv
  BY DEF Init, AccessInit, CodesInv, Away, Tallies, Codes
<1>2. CodesInv /\ [Next]_vars => CodesInv'
  <2> SUFFICES ASSUME CodesInv, [Next]_vars PROVE CodesInv'
    OBVIOUS
  <2>1. CASE UNCHANGED accessVars
    BY <2>1 DEF accessVars, CodesInv
  <2>2. CASE AccessNext
    BY <2>2, CodesStep
  <2> QED
    BY <2>1, <2>2 DEF Next, vars, accessVars
<1>3. CodesInv => CodeIsSpent
  <2> SUFFICES ASSUME CodesInv, NEW i \in DOMAIN history
               PROVE  history[i].opened <= 1 /\ history[i].guessed <= MAX_GUESSES
    BY DEF CodeIsSpent
  <2>1. history[i] \in Tallies
    BY DEF CodesInv
  <2>2. MAX_GUESSES \in Nat
    BY AccessBounds
  <2> QED
    BY <2>1, <2>2 DEF Tallies
<1> QED
  BY <1>1, <1>2, <1>3, PTL DEF Spec

-----------------------------------------------------------------------------
\* An answer is about what was asked, and so is what was stored of it; the
\* form has times.
AsksProperly(r) ==
  /\ r = [kind |-> r.kind, key |-> r.key, answer |-> r.answer]
  /\ r.key # Null
  /\ r.answer # Null => r.answer.of = r.key
  /\ r.kind = "day" /\ r.answer # Null => DOMAIN r.answer.day.slots \subseteq Int

PickerInv ==
  /\ \A r \in flight : AsksProperly(r)
  /\ quoteState # Null => quoteState.key # Null /\ quoteState.data.of = quoteState.key
  /\ dayState # Null => /\ dayState.key # Null /\ dayState.data.of = dayState.key
                        /\ DOMAIN dayState.data.day.slots \subseteq Int
  /\ page = "form" => pick.start \in Int /\ pick.end \in Int

\* The times of a day are numbers.
LEMMA SlotsAreTimes ==
  ASSUME NEW d, NEW c, NEW b
  PROVE  DOMAIN DayAvailability(d, c, b).slots \subseteq Int
  BY DEF DayAvailability, slotStatesFor, slotStarts

\* What the page asks for is asked about properly.
LEMMA EffectsAsk ==
  ASSUME PickerInv, NEW p, NEW ds, NEW r \in Effects(p, ds)
  PROVE  AsksProperly(r)
<1>1. \A kind, key : \A q \in Requests(kind, key) : AsksProperly(q)
  BY DEF Requests, Request, AsksProperly
<1>2. \A kind : \A q \in Asked(kind) : AsksProperly(q)
  BY DEF Asked, PickerInv
<1> QED
  BY <1>1, <1>2 DEF Effects

\* The picker's steps keep it.
LEMMA PickerStep ==
  ASSUME PickerInv, PickerNext
  PROVE  PickerInv'
<1>1. CASE (\E sp : SelectSpace(sp)) \/ (\E d \in world.dates : SelectDate(d)) \/ SelectStart \/ SelectEnd
  <2>1. PICK p : Show(p, dayState) /\ UNCHANGED quoteState /\ page = "picker"
    BY <1>1 DEF SelectSpace, SelectDate, SelectStart, SelectEnd
  <2>2. \A r \in flight' : AsksProperly(r)
    BY <2>1, EffectsAsk DEF Show
  <2> QED
    BY <2>1, <2>2 DEF Show, PickerInv, AsksProperly
<1>2. ASSUME NEW r \in flight, Serve(r) PROVE PickerInv'
  <2>0. PICK b : flight' = (flight \ {r}) \cup
                   {[r EXCEPT !.answer = IF r.kind = "day" THEN DayAnswer(r.key, b) ELSE QuoteOf(r.key, b)]}
    BY <1>2 DEF Serve
  <2> DEFINE x == IF r.kind = "day" THEN DayAnswer(r.key, b) ELSE QuoteOf(r.key, b)
             q == [r EXCEPT !.answer = x]
  <2>1. x.of = r.key /\ (r.kind = "day" => DOMAIN x.day.slots \subseteq Int)
    BY SlotsAreTimes DEF QuoteOf, DayAnswer
  <2>2. AsksProperly(r)
    BY DEF PickerInv
  <2> HIDE DEF x
  <2>3. AsksProperly(q)
    BY <2>1, <2>2 DEF AsksProperly
  <2>4. flight' = (flight \ {r}) \cup {q} /\ UNCHANGED <<pick, dayState, quoteState, page>>
    BY <1>2, <2>0 DEF Serve, x
  <2> HIDE DEF q
  <2> QED
    BY <2>3, <2>4 DEF PickerInv, AsksProperly
<1>3. ASSUME NEW r \in flight, ArriveDay(r) PROVE PickerInv'
  <2>1. \A q \in flight' : AsksProperly(q)
    BY <1>3, EffectsAsk DEF ArriveDay
  <2>2. AsksProperly(r) /\ r.kind = "day" /\ r.answer # Null
    BY <1>3 DEF PickerInv, ArriveDay
  <2>3. /\ dayState'.key # Null /\ dayState'.data.of = dayState'.key
        /\ DOMAIN dayState'.data.day.slots \subseteq Int
    BY <1>3, <2>2 DEF ArriveDay, AsksProperly
  <2> QED
    BY <1>3, <2>1, <2>3 DEF PickerInv, AsksProperly, ArriveDay
<1>4. ASSUME NEW r \in flight, ArriveQuote(r) \/ Forget(r) PROVE PickerInv'
  BY <1>4 DEF ArriveQuote, Forget, Landed, PickerInv, AsksProperly
<1>5. CASE Proceed
  <2> DEFINE day == DayShown(pick, dayState)
  <2>1. Offered(day, pick.start, pick.end) /\ dayState # Null /\ day = dayState.data.day
    BY <1>5 DEF Proceed, canProceed, QuoteShown, QuoteKey, ValidSelection, DayShown, PickerInv
  <2>2. pick.start \in DOMAIN day.slots
    BY <2>1 DEF Offered, StartOptions
  <2>3. pick.end \in Int
    BY <2>1 DEF Offered, EndOptions
  <2>4. pick.start \in Int
    BY <2>1, <2>2 DEF PickerInv
  <2> QED
    BY <1>5, <2>3, <2>4 DEF Proceed, PickerInv, AsksProperly
<1> QED
  BY <1>1, <1>2, <1>3, <1>4, <1>5 DEF PickerNext

\* The picker starts with at most a date to ask for.
LEMMA PickerStart == Init => PickerInv
  BY DEF Init, PickerInv, AsksProperly, Requests, Request

\* Every step keeps the picker's part.
LEMMA PickerKeeps ==
  ASSUME PickerInv, [Next]_vars
  PROVE  PickerInv'
<1>1. CASE UNCHANGED pageVars
  BY <1>1 DEF pageVars, PickerInv, AsksProperly
<1>2. CASE PickerNext
  BY <1>2, PickerStep
<1>3. CASE SendForm
  BY <1>3 DEF SendForm, PickerInv, AsksProperly
<1> QED
  BY <1>1, <1>2, <1>3 DEF Next, vars, pageVars

\* Whoever goes on to the form has a day and a quote for what is chosen, in
\* whatever order answers arrive, for any spaces, dates and changes on the
\* server.
THEOREM ProceedsWithQuote == Spec => []ProceedsAsQuoted
<1>1. PickerInv => ProceedsAsQuoted
  BY DEF PickerInv, ProceedsAsQuoted, canProceed, QuoteShown, QuoteKey, ValidSelection, DayShown
<1> QED
  BY <1>1, PickerStart, PickerKeeps, PTL DEF Spec

-----------------------------------------------------------------------------
(* What is offered is what is accepted.  First, multiples of a slot.         *)
LEMMA SlotSteps ==
  ASSUME NEW m \in Nat \ {0}, NEW x \in Int
  PROVE  /\ x % m = 0 => x = m * (x \div m)
         /\ m * (x \div m) <= x
         /\ x < m * (x \div m) + m
         /\ x \div m \in Int
<1>1. x % m = 0 => x = m * (x \div m)
  BY Z3
<1>2. m * (x \div m) <= x /\ x < m * (x \div m) + m
  BY Z3
<1> QED
  BY <1>1, <1>2

LEMMA Multiple ==
  ASSUME NEW m \in Nat \ {0}, NEW k \in Int
  PROVE  (m * k) % m = 0 /\ m * k \in Int
  OBVIOUS

LEMMA MultiplesDiffer ==
  ASSUME NEW m \in Nat \ {0}, NEW a \in Int, NEW b \in Int
  PROVE  /\ m * a + m * b = m * (a + b)
         /\ m * a - m * b = m * (a - b)
         /\ m * a < m * b => a < b
         /\ a <= b => m * a <= m * b
  OBVIOUS

\* Two multiples: their sum and their difference, and the next one.
LEMMA Aligned ==
  ASSUME NEW m \in Nat \ {0}, NEW x \in Int, NEW y \in Int, x % m = 0, y % m = 0
  PROVE  /\ (x + y) % m = 0 /\ (x - y) % m = 0
         /\ x < y => x + m <= y
<1> DEFINE a == x \div m
           b == y \div m
<1>1. x = m * a /\ y = m * b /\ a \in Int /\ b \in Int
  BY SlotSteps
<1> HIDE DEF a, b
<1>2. (x + y) % m = 0 /\ (x - y) % m = 0
  BY <1>1, Multiple, MultiplesDiffer
<1>3. ASSUME x < y PROVE x + m <= y
  <2>1. a < b
    BY <1>1, <1>3, MultiplesDiffer
  <2>2. m * (a + 1) <= m * b
    BY <1>1, <2>1, MultiplesDiffer
  <2>3. m * (a + 1) = m * a + m
    BY <1>1
  <2> QED
    BY <1>1, <2>2, <2>3
<1> QED
  BY <1>2, <1>3

\* The data of a request: hours and space as they should be, with room.
ContextOK(c) ==
  /\ c.hours \in [dayStart : Nat, dayEnd : Nat, nightEnabled : BOOLEAN, nightEnd : Nat, nightOnWeekends : BOOLEAN]
  /\ c.space.slotMinutes \in Nat \ {0}
  /\ {c.space.minDurationMinutes, c.space.bufferBeforeMinutes, c.space.bufferAfterMinutes} \subseteq Nat
  /\ c.hours.dayStart >= c.space.bufferBeforeMinutes
  /\ c.hours.dayEnd + c.space.bufferAfterMinutes <= Midnight
  /\ c.hours.nightEnabled => c.hours.nightEnd + c.space.bufferAfterMinutes <= Midnight
  /\ c.nowMinutes \in Int

Intervals(busy_) == \A b \in busy_ : {b.from, b.to} \subseteq Int

Closing(d, c) == closingMinutes(hoursForDate(c.hours, d))

LEMMA HoursOfDay ==
  ASSUME NEW d, NEW c, ContextOK(c)
  PROVE  /\ hoursForDate(c.hours, d).dayStart = c.hours.dayStart
         /\ Closing(d, c) \in Nat
         /\ Closing(d, c) + c.space.bufferAfterMinutes <= Midnight
  BY DEF ContextOK, Closing, closingMinutes, hoursForDate

\* What is cut off at the ends of the day does not matter within it.
LEMMA ClippedOverlaps ==
  ASSUME NEW B, Intervals(B), NEW from \in Int, NEW to \in Int, 0 <= from, from < to, to <= Midnight
  PROVE  overlaps({[from |-> Clip(b.from), to |-> Clip(b.to)] : b \in overlaps(B, 0, Midnight)}, from, to) = {}
           <=> overlaps(B, from, to) = {}
<1> DEFINE cut(b) == [from |-> Clip(b.from), to |-> Clip(b.to)]
           C == {cut(b) : b \in overlaps(B, 0, Midnight)}
<1>1. ASSUME NEW b \in B
      PROVE  b \in overlaps(B, from, to) <=>
               b \in overlaps(B, 0, Midnight) /\ cut(b).from < to /\ from < cut(b).to
  <2>1. b.from \in Int /\ b.to \in Int /\ Midnight \in Int
    BY MidnightIsNatural DEF Intervals
  <2>2. b.from < to /\ from < b.to <=>
          b.from < Midnight /\ 0 < b.to /\ Clip(b.from) < to /\ from < Clip(b.to)
    BY <2>1 DEF Clip
  <2> QED
    BY <2>2 DEF overlaps
<1>2. ASSUME overlaps(C, from, to) = {}, NEW b \in overlaps(B, from, to) PROVE FALSE
  <2>1. b \in B /\ b \in overlaps(B, 0, Midnight)
    BY <1>1 DEF overlaps
  <2>2. cut(b) \in C /\ cut(b).from < to /\ from < cut(b).to
    BY <1>1, <2>1
  <2> HIDE DEF C, cut
  <2> QED
    BY <1>2, <2>2 DEF overlaps
<1>3. ASSUME overlaps(B, from, to) = {}, NEW x \in overlaps(C, from, to) PROVE FALSE
  <2>1. PICK b \in overlaps(B, 0, Midnight) : x = cut(b)
    BY DEF overlaps
  <2> QED
    BY <1>1, <1>3, <2>1 DEF overlaps
<1> QED
  BY <1>2, <1>3

\* A start that is offered is one at which a slot is free.
LEMMA StartIsFree ==
  ASSUME NEW d, NEW c, NEW B, ContextOK(c), NEW s
  PROVE  s \in DOMAIN slotStatesFor(d, c, B) /\ slotStatesFor(d, c, B)[s] = "free" <=>
           /\ s \in c.hours.dayStart .. (Closing(d, c) - c.space.slotMinutes)
           /\ (s - c.hours.dayStart) % c.space.slotMinutes = 0
           /\ ~(d = c.today /\ s <= c.nowMinutes)
           /\ overlaps(B, s, s + c.space.slotMinutes) = {}
<1>1. SlotState(d, s, c, B) = "free" <=>
        /\ ~(d = c.today /\ s <= c.nowMinutes)
        /\ overlaps(B, s, s + c.space.slotMinutes) = {}
  BY DEF SlotState
<1>2. DOMAIN slotStatesFor(d, c, B) =
        {t \in c.hours.dayStart .. (Closing(d, c) - c.space.slotMinutes) :
           (t - c.hours.dayStart) % c.space.slotMinutes = 0}
  BY HoursOfDay DEF slotStatesFor, slotStarts, Closing
<1>3. s \in DOMAIN slotStatesFor(d, c, B) => slotStatesFor(d, c, B)[s] = SlotState(d, s, c, B)
  BY DEF slotStatesFor
<1> QED
  BY <1>1, <1>2, <1>3

\* An end that is offered for a start within the hours.
LEMMA EndIsFree ==
  ASSUME NEW d, NEW c, NEW B, ContextOK(c), Intervals(B), NEW s \in Nat, NEW e \in Int,
         s >= c.hours.dayStart
  PROVE  e \in EndOptions(DayAvailability(d, c, B), s) <=>
           /\ e \in (s + c.space.slotMinutes) .. Closing(d, c)
           /\ (e - s) % c.space.slotMinutes = 0
           /\ e - s >= c.space.minDurationMinutes
           /\ overlaps(B, s - c.space.bufferBeforeMinutes, e + c.space.bufferAfterMinutes) = {}
<1> DEFINE day == DayAvailability(d, c, B)
           from == s - c.space.bufferBeforeMinutes
           to == e + c.space.bufferAfterMinutes
<1>1. /\ day.space = c.space /\ day.closing = Closing(d, c)
      /\ day.busy = {[from |-> Clip(b.from), to |-> Clip(b.to)] : b \in overlaps(B, 0, Midnight)}
  BY DEF DayAvailability, Closing
<1>2. /\ c.space.slotMinutes \in Nat \ {0} /\ c.space.bufferBeforeMinutes \in Nat
      /\ c.space.bufferAfterMinutes \in Nat /\ c.space.bufferBeforeMinutes <= s
  BY DEF ContextOK
<1>3. e \in (s + c.space.slotMinutes) .. Closing(d, c) =>
        (overlaps(day.busy, from, to) = {} <=> overlaps(B, from, to) = {})
  <2> SUFFICES ASSUME e \in (s + c.space.slotMinutes) .. Closing(d, c)
               PROVE  overlaps(day.busy, from, to) = {} <=> overlaps(B, from, to) = {}
    OBVIOUS
  <2>1. from \in Int /\ to \in Int /\ 0 <= from /\ from < to /\ to <= Midnight
    BY <1>2, HoursOfDay, MidnightIsNatural
  <2> HIDE DEF from, to, day
  <2> QED
    BY <1>1, <2>1, ClippedOverlaps
<1>4. occupancyRange(day.space, s, e).from = from /\ occupancyRange(day.space, s, e).to = to
  BY <1>1 DEF occupancyRange
<1> HIDE DEF day
<1>5. e \in EndOptions(day, s) <=>
        /\ e \in (s + day.space.slotMinutes) .. day.closing
        /\ (e - s) % day.space.slotMinutes = 0
        /\ e - s >= day.space.minDurationMinutes
        /\ overlaps(day.busy, occupancyRange(day.space, s, e).from, occupancyRange(day.space, s, e).to) = {}
  BY DEF EndOptions
<1>6. e \in EndOptions(day, s) <=>
        /\ e \in (s + c.space.slotMinutes) .. Closing(d, c)
        /\ (e - s) % c.space.slotMinutes = 0
        /\ e - s >= c.space.minDurationMinutes
        /\ overlaps(day.busy, from, to) = {}
  BY <1>1, <1>4, <1>5
<1> QED
  BY <1>3, <1>6 DEF day

\* What is offered, spelled out.
LEMMA OfferedIs ==
  ASSUME NEW d, NEW c, NEW B, ContextOK(c), Intervals(B), NEW s \in Nat, NEW e \in Nat
  PROVE  Offered(DayAvailability(d, c, B), s, e) <=>
           /\ ~DateRefused(d, c)
           /\ s \in c.hours.dayStart .. (Closing(d, c) - c.space.slotMinutes)
           /\ (s - c.hours.dayStart) % c.space.slotMinutes = 0
           /\ ~(d = c.today /\ s <= c.nowMinutes)
           /\ overlaps(B, s, s + c.space.slotMinutes) = {}
           /\ e \in (s + c.space.slotMinutes) .. Closing(d, c)
           /\ (e - s) % c.space.slotMinutes = 0
           /\ e - s >= c.space.minDurationMinutes
           /\ overlaps(B, s - c.space.bufferBeforeMinutes, e + c.space.bufferAfterMinutes) = {}
<1> DEFINE day == DayAvailability(d, c, B)
<1>1. day.dateViolation = DateRefused(d, c) /\ day.slots = slotStatesFor(d, c, B)
  BY DEF DayAvailability
<1>2. Offered(day, s, e) <=>
        /\ ~DateRefused(d, c)
        /\ s \in DOMAIN slotStatesFor(d, c, B) /\ slotStatesFor(d, c, B)[s] = "free"
        /\ e \in EndOptions(day, s)
  <2> HIDE DEF day
  <2> QED
    BY <1>1 DEF Offered, StartOptions
<1>3. s \in c.hours.dayStart .. (Closing(d, c) - c.space.slotMinutes) => s >= c.hours.dayStart
  BY DEF ContextOK
<1>4. s >= c.hours.dayStart =>
        (e \in EndOptions(day, s) <=>
           /\ e \in (s + c.space.slotMinutes) .. Closing(d, c)
           /\ (e - s) % c.space.slotMinutes = 0
           /\ e - s >= c.space.minDurationMinutes
           /\ overlaps(B, s - c.space.bufferBeforeMinutes, e + c.space.bufferAfterMinutes) = {})
  <2> SUFFICES ASSUME s >= c.hours.dayStart
               PROVE  e \in EndOptions(day, s) <=>
                        /\ e \in (s + c.space.slotMinutes) .. Closing(d, c)
                        /\ (e - s) % c.space.slotMinutes = 0
                        /\ e - s >= c.space.minDurationMinutes
                        /\ overlaps(B, s - c.space.bufferBeforeMinutes, e + c.space.bufferAfterMinutes) = {}
    OBVIOUS
  <2>1. e \in Int
    OBVIOUS
  <2> QED
    BY <2>1, EndIsFree
<1>5. s \in DOMAIN slotStatesFor(d, c, B) /\ slotStatesFor(d, c, B)[s] = "free" <=>
        /\ s \in c.hours.dayStart .. (Closing(d, c) - c.space.slotMinutes)
        /\ (s - c.hours.dayStart) % c.space.slotMinutes = 0
        /\ ~(d = c.today /\ s <= c.nowMinutes)
        /\ overlaps(B, s, s + c.space.slotMinutes) = {}
  BY StartIsFree
<1> HIDE DEF day
<1> QED
  BY <1>2, <1>3, <1>4, <1>5, Zenon DEF day

\* The picker and the server agree.
LEMMA OfferedIsAccepted ==
  ASSUME NEW d, NEW c, NEW B, ContextOK(c), Intervals(B), NEW s \in Nat, NEW e \in Nat
  PROVE  Offered(DayAvailability(d, c, B), s, e) <=> ~Refused(d, s, e, c, B)
<1> DEFINE m == c.space.slotMinutes
           ds == c.hours.dayStart
           cl == Closing(d, c)
           r == occupancyRange(c.space, s, e)
<1>1. /\ m \in Nat \ {0} /\ ds \in Nat /\ cl \in Nat /\ c.space.minDurationMinutes \in Nat
      /\ c.space.bufferBeforeMinutes \in Nat /\ c.space.bufferAfterMinutes \in Nat
      /\ ds >= c.space.bufferBeforeMinutes /\ cl + c.space.bufferAfterMinutes <= Midnight
      /\ Midnight \in Nat
  BY HoursOfDay, MidnightIsNatural DEF ContextOK
<1>2. r.from = s - c.space.bufferBeforeMinutes /\ r.to = e + c.space.bufferAfterMinutes
  BY DEF occupancyRange
<1>3. OutOfHours(d, s, e, c) <=>
        \/ s < ds \/ e > cl \/ s >= e \/ (s - ds) % m # 0 \/ (e - s) % m # 0
        \/ e - s < c.space.minDurationMinutes
  BY HoursOfDay DEF OutOfHours, Closing
<1>4. ASSUME ~Refused(d, s, e, c, B) PROVE Offered(DayAvailability(d, c, B), s, e)
  <2>1. ~DateRefused(d, c) /\ ~OutOfHours(d, s, e, c) /\ ~(d = c.today /\ s <= c.nowMinutes)
        /\ overlaps(B, r.from, r.to) = {}
    BY <1>4 DEF Refused, TimeRefused
  <2>2. s >= ds /\ e <= cl /\ s < e /\ (s - ds) % m = 0 /\ (e - s) % m = 0
        /\ e - s >= c.space.minDurationMinutes
    BY <1>1, <1>3, <2>1
  <2>3. s + m <= e
    <3>1. 0 % m = 0 /\ e - s \in Int /\ 0 < e - s
      BY <1>1, <2>2
    <3>2. 0 + m <= e - s
      BY <1>1, <2>2, <3>1, Aligned
    <3> QED
      BY <1>1, <3>2
  <2>4. overlaps(B, s, s + m) = {}
    <3> SUFFICES ASSUME NEW b \in B, b.from < s + m, s < b.to PROVE FALSE
      BY DEF overlaps
    <3>1. b.from \in Int /\ b.to \in Int
      BY DEF Intervals
    <3>2. b.from < r.to /\ r.from < b.to
      BY <1>1, <1>2, <2>3, <3>1
    <3> QED
      BY <2>1, <3>2 DEF overlaps
  <2>5. s \in ds .. (cl - m) /\ e \in (s + m) .. cl
    BY <1>1, <2>2, <2>3
  <2> QED
    BY <1>2, <2>1, <2>2, <2>4, <2>5, OfferedIs
<1>5. ASSUME Offered(DayAvailability(d, c, B), s, e) PROVE ~Refused(d, s, e, c, B)
  <2>1. /\ ~DateRefused(d, c) /\ s \in ds .. (cl - m) /\ (s - ds) % m = 0
        /\ ~(d = c.today /\ s <= c.nowMinutes)
        /\ e \in (s + m) .. cl /\ (e - s) % m = 0 /\ e - s >= c.space.minDurationMinutes
        /\ overlaps(B, r.from, r.to) = {}
    <3>1. overlaps(B, r.from, r.to) =
            overlaps(B, s - c.space.bufferBeforeMinutes, e + c.space.bufferAfterMinutes)
      BY <1>2
    <3> HIDE DEF r
    <3> QED
      BY <3>1, <1>5, OfferedIs
  <2>2. ~OutOfHours(d, s, e, c)
    BY <1>1, <1>3, <2>1
  <2>3. Representable(r)
    BY <1>1, <1>2, <2>1 DEF Representable
  <2> QED
    BY <2>1, <2>2, <2>3 DEF Refused, TimeRefused
<1> QED
  BY <1>4, <1>5

\* The review has nothing against what was accepted, but for an end at 24:00.
LEMMA AcceptedIsNotDoubted ==
  ASSUME NEW d, NEW c, NEW B, ContextOK(c), NEW s \in 0 .. Midnight, NEW e \in 0 .. Midnight,
         ~Refused(d, s, e, c, B)
  PROVE  reviewChecks(d, s, e, c, B) <=> e = Midnight
<1>1. /\ ~DateRefused(d, c) /\ ~OutOfHours(d, s, e, c)
      /\ Representable(occupancyRange(c.space, s, e))
      /\ overlaps(B, occupancyRange(c.space, s, e).from, occupancyRange(c.space, s, e).to) = {}
  BY DEF Refused, TimeRefused
<1>2. Midnight \in Nat \ {0} /\ s \in Nat /\ e \in Nat
  BY MidnightIsNatural
<1>3. CASE e = Midnight
  <2>1. StoredTime(e) = 0
    BY <1>2, <1>3 DEF StoredTime
  <2>2. OutOfHours(d, s, 0, c)
    BY <1>2 DEF OutOfHours
  <2> QED
    BY <1>3, <2>1, <2>2 DEF reviewChecks
<1>4. CASE e # Midnight
  <2>1. StoredTime(e) = e
    BY <1>2, <1>4 DEF StoredTime
  <2>2. ~DateDoubted(d, c)
    BY <1>1 DEF DateRefused, DateDoubted
  <2>3. ~(occupancyRange(c.space, s, e).from > occupancyRange(c.space, s, e).to)
    <3>1. s < e
      BY <1>1, <1>2 DEF OutOfHours
    <3> QED
      BY <1>2, <3>1 DEF occupancyRange, ContextOK
  <2> QED
    BY <1>1, <1>4, <2>1, <2>2, <2>3 DEF reviewChecks
<1> QED
  BY <1>3, <1>4

\* What is offered is long enough for the calendar, too.
LEMMA OfferedIsSelectable ==
  ASSUME NEW d, NEW c, NEW B, ContextOK(c), Intervals(B), StartOptions(DayAvailability(d, c, B)) # {}
  PROVE  DayState(d, c, B) \in Selectable
<1> DEFINE day == DayAvailability(d, c, B)
           m == c.space.slotMinutes
           ds == c.hours.dayStart
           cl == Closing(d, c)
           min == c.space.minDurationMinutes
           need == Need(c.space)
<1>1. m \in Nat \ {0} /\ ds \in Nat /\ cl \in Nat /\ min \in Nat /\ c.nowMinutes \in Int
      /\ c.space.bufferBeforeMinutes \in Nat /\ c.space.bufferAfterMinutes \in Nat
  BY HoursOfDay DEF ContextOK
<1>2. PICK s, e : Offered(day, s, e)
  BY DEF Offered, StartOptions
<1>3. s \in Nat /\ e \in Nat
  <2>1. s \in DOMAIN day.slots /\ day.slots = slotStatesFor(d, c, B) /\ day.slots[s] = "free"
    BY <1>2 DEF Offered, StartOptions, DayAvailability
  <2>2. s \in ds .. (cl - m)
    BY <2>1, StartIsFree
  <2>3. e \in (s + day.space.slotMinutes) .. day.closing /\ day.space = c.space
    BY <1>2 DEF Offered, EndOptions, DayAvailability
  <2> QED
    BY <1>1, <2>2, <2>3
<1>4. /\ ~DateRefused(d, c) /\ s \in ds .. (cl - m) /\ (s - ds) % m = 0
      /\ ~(d = c.today /\ s <= c.nowMinutes)
      /\ e \in (s + m) .. cl /\ (e - s) % m = 0 /\ e - s >= min
      /\ overlaps(B, s - c.space.bufferBeforeMinutes, e + c.space.bufferAfterMinutes) = {}
  <2>1. Offered(DayAvailability(d, c, B), s, e)
    BY <1>2
  <2> HIDE DEF day, m, ds, cl, min
  <2>2. /\ ~DateRefused(d, c)
        /\ s \in c.hours.dayStart .. (Closing(d, c) - c.space.slotMinutes)
        /\ (s - c.hours.dayStart) % c.space.slotMinutes = 0
        /\ ~(d = c.today /\ s <= c.nowMinutes)
        /\ e \in (s + c.space.slotMinutes) .. Closing(d, c)
        /\ (e - s) % c.space.slotMinutes = 0
        /\ e - s >= c.space.minDurationMinutes
        /\ overlaps(B, s - c.space.bufferBeforeMinutes, e + c.space.bufferAfterMinutes) = {}
    BY <1>3, <2>1, OfferedIs
  <2> QED
    BY <2>2 DEF m, ds, cl, min
<1>5. need \in Int /\ m * need <= min + m - 1
  <2>1. need = (min + m - 1) \div m
    BY DEF Need
  <2> HIDE DEF need, m, min
  <2>2. min + m - 1 \in Int
    BY <1>1
  <2> QED
    BY <1>1, <2>1, <2>2, SlotSteps
<1>6. ASSUME NEW i \in 0 .. (need - 1)
      PROVE  s + i * m \in DOMAIN slotStatesFor(d, c, B) /\ slotStatesFor(d, c, B)[s + i * m] = "free"
  <2> DEFINE u == s + i * m
             x == m * i
  <2> HIDE DEF need
  <2>1. i \in Int /\ i <= need - 1 /\ need - 1 \in Int
    BY <1>5
  <2>2. x \in Int /\ x % m = 0 /\ i * m = x /\ x >= 0
    <3>1. i * m = m * i
      BY <1>1, <2>1
    <3>2. m * 0 <= m * i /\ m * 0 = 0
      BY <1>1, <2>1, MultiplesDiffer
    <3> QED
      BY <1>1, <2>1, <3>1, <3>2, Multiple
  <2>3. x < e - s
    <3>1. x <= m * (need - 1) /\ m * (need - 1) = m * need - m
      <4>1. m * (need - 1) = m * need - m * 1
        BY <1>1, <1>5, MultiplesDiffer
      <4> QED
        BY <1>1, <2>1, <4>1, MultiplesDiffer
    <3>2. m * need \in Int
      BY <1>1, <1>5
    <3> HIDE DEF x
    <3> QED
      BY <1>1, <1>3, <1>4, <1>5, <2>2, <3>1, <3>2
  <2>4. x + m <= e - s
    <3>1. e - s \in Int
      BY <1>3
    <3> HIDE DEF x
    <3> QED
      BY <1>1, <1>4, <2>2, <2>3, <3>1, Aligned
  <2> HIDE DEF x
  <2>5. u \in ds .. (cl - m) /\ u >= s /\ u + m <= e /\ u \in Int
    BY <1>1, <1>3, <1>4, <2>2, <2>4
  <2>6. (u - ds) % m = 0
    <3>0. s - ds \in Int /\ (s - ds) % m = 0
      BY <1>1, <1>3, <1>4
    <3>1. ((s - ds) + x) % m = 0
      <4> HIDE DEF m, ds
      <4> QED
        BY <1>1, <2>2, <3>0, Aligned
    <3>2. u - ds = (s - ds) + x
      BY <1>1, <1>3, <2>2
    <3> QED
      BY <3>1, <3>2
  <2> HIDE DEF u
  <2>7. ~(d = c.today /\ u <= c.nowMinutes)
    BY <1>1, <1>3, <1>4, <2>5
  <2>8. overlaps(B, u, u + m) = {}
    <3> SUFFICES ASSUME NEW b \in B, b.from < u + m, u < b.to PROVE FALSE
      BY DEF overlaps
    <3>1. b.from \in Int /\ b.to \in Int
      BY DEF Intervals
    <3>2. b.from < e + c.space.bufferAfterMinutes /\ s - c.space.bufferBeforeMinutes < b.to
      BY <1>1, <1>3, <2>5, <3>1
    <3> QED
      BY <1>4, <3>2 DEF overlaps
  <2>9. u \in DOMAIN slotStatesFor(d, c, B) /\ slotStatesFor(d, c, B)[u] = "free"
    BY <2>5, <2>6, <2>7, <2>8, StartIsFree
  <2> QED
    BY <2>9 DEF u
<1>7. s \in DOMAIN slotStatesFor(d, c, B)
  BY <1>2 DEF Offered, StartOptions, DayAvailability
<1>8. HasRun(slotStatesFor(d, c, B), c.space)
  BY <1>6, <1>7 DEF HasRun
<1> QED
  BY <1>4, <1>8 DEF DayState, Selectable

\* The venue is one there may be, and what is booked is a set of intervals.
DayInv ==
  /\ world \in Worlds
  /\ TypedVenue(venue) /\ LeavesRoom(venue)
  /\ clock.now \in Nat
  /\ busy = [d \in world.dates |-> busy[d]]
  /\ \A d \in world.dates : \A b \in busy[d] : TypedInterval(b)

\* A venue whose window changes is the same in everything else.
LEMMA WindowOnly ==
  ASSUME NEW v, TypedVenue(v), LeavesRoom(v), NEW w
  PROVE  LET x == [v EXCEPT !.window.manual = w] IN TypedVenue(x) /\ LeavesRoom(x)
<1> DEFINE x == [v EXCEPT !.window.manual = w]
<1>1. v = [hours |-> v.hours, space |-> v.space, paidRentalStartDate |-> v.paidRentalStartDate, window |-> v.window]
  BY DEF TypedVenue
<1>2. x = [hours |-> v.hours, space |-> v.space, paidRentalStartDate |-> v.paidRentalStartDate, window |-> x.window]
      /\ x.hours = v.hours /\ x.space = v.space /\ x.paidRentalStartDate = v.paidRentalStartDate
  BY <1>1
<1> HIDE DEF x
<1>3. TypedVenue(x) /\ LeavesRoom(x)
  BY <1>2 DEF TypedVenue, LeavesRoom
<1> QED
  BY <1>3 DEF x

\* Something is occupied, and it is an interval.
LEMMA OccupyTyped ==
  ASSUME DayInv, NEW d, NEW b, TypedInterval(b), Occupy(d, b),
         UNCHANGED <<world, venue, closures, clock>>
  PROVE  DayInv'
  BY DEF DayInv, Occupy

\* A submission occupies an interval.
LEMMA SubmitTyped ==
  ASSUME DayInv, NEW d, NEW s \in Int, NEW e \in Int, Submit(d, s, e)
  PROVE  DayInv'
<1> DEFINE r == occupancyRange(venue.space, s, e)
           b == [from |-> r.from, to |-> r.to, kind |-> "pending_payment"]
<1>1. r.from \in Int /\ r.to \in Int
  BY DEF occupancyRange, DayInv, TypedVenue
<1> HIDE DEF r
<1>2. TypedInterval(b) /\ Occupy(d, b)
  BY <1>1 DEF TypedInterval, Submit, r
<1> QED
  BY <1>2, OccupyTyped DEF Submit

\* Every step of the server keeps it.
LEMMA ServerStep ==
  ASSUME DayInv, VenuesLeaveRoom, ServerNext
  PROVE  DayInv'
<1>1. ASSUME NEW d \in world.dates, NEW s \in 0 .. Midnight, NEW e \in 0 .. Midnight, Submit(d, s, e)
      PROVE  DayInv'
  BY <1>1, SubmitTyped, MidnightIsNatural
<1>2. ASSUME NEW d \in world.dates, Place(d) PROVE DayInv'
  <2>1. PICK b \in world.placed : Occupy(d, b)
    BY <1>2 DEF Place
  <2>2. TypedInterval(b)
    BY <2>1, WorldsAreTyped DEF DayInv
  <2> QED
    BY <1>2, <2>1, <2>2, OccupyTyped DEF Place
<1>3. ASSUME NEW d \in world.dates, NEW b \in busy[d], Confirm(d, b) \/ Release(d, b) PROVE DayInv'
  <2>1. TypedInterval([b EXCEPT !.kind = "confirmed"])
    BY DEF DayInv, TypedInterval
  <2> QED
    BY <1>3, <2>1 DEF Confirm, Release, DayInv
<1>4. CASE SaveVenue
  <2>1. PICK v \in world.venues : venue' = [v EXCEPT !.window.manual = venue.window.manual]
    BY <1>4 DEF SaveVenue
  <2>2. TypedVenue(v) /\ LeavesRoom(v)
    BY <2>1, WorldsAreTyped DEF DayInv, VenuesLeaveRoom
  <2>3. TypedVenue(venue') /\ LeavesRoom(venue')
    BY <2>1, <2>2, WindowOnly
  <2> QED
    BY <1>4, <2>3 DEF SaveVenue, DayInv
<1>5. CASE Windows
  <2>1. PICK w : InsertWindow(w)
    BY <1>5 DEF Windows, ExtendWindow, SetWindow
  <2>2. TypedVenue(venue') /\ LeavesRoom(venue')
    BY <2>1, WindowOnly DEF InsertWindow, DayInv
  <2> QED
    BY <2>1, <2>2 DEF InsertWindow, DayInv
<1>6. CASE SaveClosures
  BY <1>6 DEF SaveClosures, DayInv
<1>7. CASE Tick
  BY <1>7, WorldsAreTyped DEF Tick, DayInv
<1> QED
  BY <1>1, <1>2, <1>3, <1>4, <1>5, <1>6, <1>7 DEF ServerNext

\* In such a state the offers are exact.
LEMMA ExactInState ==
  ASSUME DayInv
  PROVE  OffersAreExact
<1> DEFINE c == loadBookingContext
<1>1. ContextOK(c)
  BY DEF loadBookingContext, ContextOK, DayInv, TypedVenue, LeavesRoom
<1>2. 0 .. Midnight \subseteq Nat
  BY MidnightIsNatural
<1> SUFFICES ASSUME NEW d \in world.dates
             PROVE  /\ \A s \in 0 .. Midnight, e \in 0 .. Midnight : Offered(DayOf(d), s, e) <=> Accepted(d, s, e)
                    /\ \A s \in 0 .. Midnight, e \in 0 .. Midnight :
                         Accepted(d, s, e) => (Doubted(d, s, e) <=> e = Midnight)
                    /\ StartOptions(DayOf(d)) # {} => MonthOf(d) \in Selectable
  BY DEF OffersAreExact
<1>3. Intervals(busy[d])
  BY DEF DayInv, TypedInterval, Intervals
<1> HIDE DEF c
<1>4. \A s \in 0 .. Midnight, e \in 0 .. Midnight : Offered(DayOf(d), s, e) <=> Accepted(d, s, e)
  BY <1>1, <1>2, <1>3, OfferedIsAccepted DEF DayOf, Accepted, loadBusyIntervals, c
<1>5. \A s \in 0 .. Midnight, e \in 0 .. Midnight : Accepted(d, s, e) => (Doubted(d, s, e) <=> e = Midnight)
  BY <1>1, AcceptedIsNotDoubted DEF Doubted, Accepted, loadBusyIntervals, c
<1>6. StartOptions(DayOf(d)) # {} => MonthOf(d) \in Selectable
  BY <1>1, <1>3, OfferedIsSelectable DEF DayOf, MonthOf, loadBusyIntervals, c
<1> QED
  BY <1>4, <1>5, <1>6

\* What the picker offers is what the server accepts, for any hours, slots,
\* durations, closures, bookings and clock, if the settings leave room for the
\* buffers; and what it accepts the review does not doubt, unless it ends at
\* 24:00.
THEOREM OffersExact == VenuesLeaveRoom => (Spec => []OffersAreExact)
<1> SUFFICES ASSUME VenuesLeaveRoom PROVE Spec => []OffersAreExact
  OBVIOUS
<1> DEFINE Inv == DayInv /\ PickerInv
<1>1. Init => Inv
  BY WorldsAreTyped, PickerStart DEF Init, DayInit, DayInv, VenuesLeaveRoom
<1>2. Inv /\ [Next]_vars => Inv'
  <2> SUFFICES ASSUME DayInv, PickerInv, [Next]_vars PROVE DayInv'
    BY PickerKeeps
  <2>1. CASE UNCHANGED dayVars
    BY <2>1 DEF dayVars, DayInv, TypedVenue, LeavesRoom, TypedInterval
  <2>2. CASE ServerNext
    BY <2>2, ServerStep
  <2>3. CASE SendForm
    <3>1. pick.start \in Int /\ pick.end \in Int
      BY <2>3 DEF SendForm, PickerInv
    <3>2. CASE Submit(pick.date, pick.start, pick.end)
      BY <3>1, <3>2, SubmitTyped
    <3> QED
      BY <2>1, <2>3, <3>2 DEF SendForm
  <2> QED
    BY <2>1, <2>2, <2>3 DEF Next, vars, dayVars
<1>3. Inv => OffersAreExact
  BY ExactInState
<1> QED
  BY <1>1, <1>2, <1>3, PTL DEF Spec
=============================================================================
