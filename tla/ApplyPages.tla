----------------------------- MODULE ApplyPages -----------------------------
(***************************************************************************)
(* The customer's way to an application: the picker asks the server for a  *)
(* day of a space and for a quote, answers come when they come, and the    *)
(* form that follows submits with its attachments; later they come back    *)
(* with a code from their mail.  The server changes all the time.  Of      *)
(* world.others, the further spaces the page lists, only what the picker   *)
(* does with them is modelled; the server may answer anything for them.    *)
(*                                                                         *)
(* An effect of the picker that starts a request cancels the one before    *)
(* it, whose answer will be dropped: it leaves flight.  An answer is       *)
(* stored under the key it was asked for, and shown only while that is the *)
(* key of the page.                                                        *)
(***************************************************************************)
EXTENDS BookingDay, Attachments, ApplicantAccess

CONSTANTS
  Null        \* nothing chosen, nothing stored

VARIABLES
  pick,       \* the state of the picker: space, date, start, end
  dayState,   \* the day last stored, with its key
  quoteState, \* the quote last stored, with its key
  flight,     \* requests whose answer has not arrived, and is still wanted
  page        \* "picker" or "form"

pageVars == <<pick, dayState, quoteState, flight, page>>

vars == <<dayVars, fileVars, accessVars, pageVars>>

-----------------------------------------------------------------------------
NoPick == [space |-> Null, date |-> Null, start |-> Null, end |-> Null]

Request(kind, key) == [kind |-> kind, key |-> key, answer |-> Null]

\* What a day is asked for by; no day is, until a date of a space is chosen.
DayKey(p) == IF p.date = Null THEN Null ELSE [space |-> p.space, date |-> p.date]

Requests(kind, key) == IF key = Null THEN {} ELSE {Request(kind, key)}

\* The address may name a space, a date and times; what is not offered does
\* not count.
Init ==
  /\ DayInit
  /\ FileInit
  /\ AccessInit
  /\ pick \in {NoPick} \cup world.addresses
  /\ dayState = Null
  /\ quoteState = Null
  /\ flight = Requests("day", DayKey(pick))
  /\ page = "picker"

\* The day the page shows, if the stored one is of the space and date chosen.
DayShown(p, ds) == IF ds # Null /\ ds.key = DayKey(p) THEN ds.data.day ELSE Null

ValidSelection(p, ds) ==
  LET day == DayShown(p, ds)
  IN /\ day # Null
     /\ p.start # Null /\ p.end # Null
     /\ Offered(day, p.start, p.end)

QuoteKey(p, ds) == IF ValidSelection(p, ds) THEN p ELSE Null

\* Mutant: the key of the quote leaves the space out.
QuoteShown_SpaceFree ==
  IF quoteState # Null /\ [quoteState.key EXCEPT !.space = pick.space] = QuoteKey(pick, dayState)
  THEN quoteState ELSE Null

QuoteShown ==
  IF quoteState # Null /\ quoteState.key = QuoteKey(pick, dayState) THEN quoteState ELSE Null

canProceed == QuoteShown # Null /\ QuoteShown.data.clean

-----------------------------------------------------------------------------
Asked(kind) == {r \in flight : r.kind = kind}

\* The two effects, run when what they depend on changes.
Effects(p, ds) ==
  LET key == QuoteKey(p, ds)
  IN (IF DayKey(p) = DayKey(pick) THEN Asked("day") ELSE Requests("day", DayKey(p)))
     \cup (IF key = QuoteKey(pick, dayState) THEN Asked("quote") ELSE Requests("quote", key))

Show(p, ds) ==
  /\ pick' = p
  /\ dayState' = ds
  /\ flight' = Effects(p, ds)
  /\ UNCHANGED page

\* Another space, or the same again: everything else is to be chosen anew.
SelectSpace(sp) ==
  /\ page = "picker"
  /\ Show([NoPick EXCEPT !.space = sp], dayState)
  /\ UNCHANGED quoteState

SelectDate(d) ==
  /\ page = "picker" /\ pick.space # Null
  /\ Show([NoPick EXCEPT !.space = pick.space, !.date = d], dayState)
  /\ UNCHANGED quoteState

\* A start brings its first end along.
SelectStart ==
  LET day == DayShown(pick, dayState)
  IN /\ page = "picker" /\ day # Null
     /\ \E s \in StartOptions(day) :
          LET ends == EndOptions(day, s)
          IN Show([pick EXCEPT !.start = s, !.end = CHOOSE e \in ends : \A f \in ends : e <= f], dayState)
     /\ UNCHANGED quoteState

SelectEnd ==
  LET day == DayShown(pick, dayState)
  IN /\ page = "picker" /\ day # Null /\ pick.start # Null
     /\ \E e \in EndOptions(day, pick.start) \cup {Null} : Show([pick EXCEPT !.end = e], dayState)
     /\ UNCHANGED quoteState

\* The server answers from what it has at that moment; of another space than
\* the one of the venue, anything may stand.
ContextOf(sp) == [loadBookingContext EXCEPT !.space.id = sp]

Standing(sp, d) == IF sp = venue.space.id THEN {loadBusyIntervals(d)} ELSE SUBSET world.placed

QuoteOf(k, b) == [clean |-> ~Refused(k.date, k.start, k.end, ContextOf(k.space), b), of |-> k]

DayAnswer(k, b) == [day |-> DayAvailability(k.date, ContextOf(k.space), b), of |-> k]

Serve(r) ==
  /\ r.answer = Null
  /\ \E b \in Standing(r.key.space, r.key.date) :
       flight' = (flight \ {r}) \cup
                 {[r EXCEPT !.answer = IF r.kind = "day" THEN DayAnswer(r.key, b) ELSE QuoteOf(r.key, b)]}
  /\ UNCHANGED <<pick, dayState, quoteState, page>>

\* An answer arrives.
Landed(r) == flight \ {r}

ArriveDay(r) ==
  /\ r.kind = "day" /\ r.answer # Null
  /\ LET ds == [key |-> r.key, data |-> r.answer]
     IN /\ dayState' = ds
        /\ flight' = Effects(pick, ds) \ {r}
  /\ UNCHANGED <<pick, quoteState, page>>

ArriveQuote(r) ==
  /\ r.kind = "quote" /\ r.answer # Null
  /\ quoteState' = [key |-> r.key, data |-> r.answer]
  /\ flight' = Landed(r)
  /\ UNCHANGED <<pick, dayState, page>>

\* It fails; nothing asks again.
Forget(r) ==
  /\ flight' = Landed(r)
  /\ UNCHANGED <<pick, dayState, quoteState, page>>

\* The form's page on the server asks for the quote once more.
Proceed ==
  /\ page = "picker" /\ canProceed
  /\ \E b \in Standing(pick.space, pick.date) : QuoteOf(pick, b).clean
  /\ page' = "form"
  /\ flight' = {}
  /\ UNCHANGED <<pick, dayState, quoteState>>

PickerNext ==
  \/ \E sp \in {venue.space.id} \cup world.others : SelectSpace(sp)
  \/ \E d \in world.dates : SelectDate(d)
  \/ SelectStart
  \/ SelectEnd
  \/ \E r \in flight : Serve(r) \/ ArriveDay(r) \/ ArriveQuote(r) \/ Forget(r)
  \/ Proceed

\* The form sends what was picked, and the server checks it like any other.
SendForm ==
  /\ page = "form"
  /\ \/ pick.space = venue.space.id /\ Submit(pick.date, pick.start, pick.end)
     \/ pick.space # venue.space.id /\ UNCHANGED dayVars
  /\ page' = "picker" /\ pick' = NoPick
  /\ UNCHANGED <<dayState, quoteState, flight>>

Next ==
  \/ ServerNext /\ UNCHANGED <<fileVars, accessVars, pageVars>>
  \/ world.pages /\ PickerNext /\ UNCHANGED <<dayVars, fileVars, accessVars>>
  \/ world.pages /\ SendForm /\ UNCHANGED <<fileVars, accessVars>>
  \/ world.files /\ FilesNext /\ UNCHANGED <<dayVars, accessVars, pageVars>>
  \/ world.access /\ AccessNext /\ UNCHANGED <<dayVars, fileVars, pageVars>>

Spec == Init /\ [][Next]_vars

-----------------------------------------------------------------------------
\* Whoever can go on to the form does so on a quote for exactly the space, date
\* and times chosen, and on a day that the server answered for that space and
\* that date, however the answers overtook each other and the choices before.
ProceedsAsQuoted ==
  canProceed => /\ QuoteShown.data.of = pick
                /\ dayState.data.of = DayKey(pick)
=============================================================================
