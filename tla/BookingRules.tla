---------------------------- MODULE BookingRules ----------------------------
(***************************************************************************)
(* When a space can be booked: what the server checks of a date and a time *)
(* (domain/booking/rules.ts), what the calendar and the day view report    *)
(* (server/booking/availability.ts), and what the picker of the apply page *)
(* makes of it (booking-picker.tsx).                                       *)
(*                                                                         *)
(* Dates are numbers, 0 a Sunday; times of day are numbers of units of     *)
(* half an hour, say, from 0 to Midnight.  Where the code collects the     *)
(* broken rules to word a message, only whether there are any is kept.     *)
(***************************************************************************)
EXTENDS Integers, FiniteSets

CONSTANTS
  Midnight,   \* 24:00
  AnySpace,   \* a closure rule for the whole house
  NoLead      \* no lead time: the space has booking windows instead

ASSUME MidnightIsNatural == Midnight \in Nat \ {0}

-----------------------------------------------------------------------------
(* Opening hours.                                                          *)
isWeekend(d) == d % 7 \in {0, 6}

hoursForDate(h, d) == [h EXCEPT !.nightEnabled = @ /\ (h.nightOnWeekends \/ ~isWeekend(d))]

closingMinutes(h) == IF h.nightEnabled THEN h.nightEnd ELSE h.dayEnd

slotStarts(h, slot) ==
  {t \in h.dayStart .. (closingMinutes(h) - slot) : (t - h.dayStart) % slot = 0}

-----------------------------------------------------------------------------
(* Closures.  A rule has a type, a space and the dates it is about.        *)
Priority == [open_exception |-> 4, date_range |-> 3, annual |-> 2, weekly |-> 1]

ruleMatches(r, d, space) == r.space \in {AnySpace, space} /\ d \in r.dates

\* Of two rules of the same type the one for the space alone comes first.
Rank(r) == 2 * Priority[r.type] + (IF r.space = AnySpace THEN 0 ELSE 1)

closed(d, space, rules) ==
  \E r \in rules :
    /\ ruleMatches(r, d, space)
    /\ r.type # "open_exception"
    /\ \A q \in rules : ruleMatches(q, d, space) => Rank(q) <= Rank(r)

-----------------------------------------------------------------------------
(* The rules of a date and of a time.  c is what loadBookingContext reads. *)
effectiveBookingWindow(w, today) ==
  IF w.mode = "auto" THEN today .. (today + w.autoDays) ELSE {d \in w.manual : d >= today}

DateRefused(d, c) ==
  \/ ~c.space.isPublic
  \/ d < c.today
  \/ d < c.paidRentalStartDate
  \/ closed(d, c.space.id, c.closureRules)
  \/ IF c.space.leadDays = NoLead THEN d \notin effectiveBookingWindow(c.window, c.today)
                                  ELSE d < c.today + c.space.leadDays

\* Night hours that are not open are outside the hours, with a message of
\* their own.
OutOfHours(d, s, e, c) ==
  LET h == hoursForDate(c.hours, d)
      slot == c.space.slotMinutes
  IN \/ s < h.dayStart
     \/ e > closingMinutes(h)
     \/ s >= e
     \/ (s - h.dayStart) % slot # 0
     \/ (e - s) % slot # 0
     \/ e - s < c.space.minDurationMinutes

TimeRefused(d, s, e, c) == OutOfHours(d, s, e, c) \/ (d = c.today /\ s <= c.nowMinutes)

overlaps(busy, from, to) == {b \in busy : b.from < to /\ from < b.to}

\* Preparation and clearing up are part of what a booking occupies.
occupancyRange(sp, s, e) == [from |-> s - sp.bufferBeforeMinutes, to |-> e + sp.bufferAfterMinutes]

\* A time before 0:00 or after 24:00 makes an invalid Date, and the request
\* throws.
Representable(r) == r.from >= 0 /\ r.to <= Midnight

Refused(d, s, e, c, busy) ==
  LET r == occupancyRange(c.space, s, e)
  IN \/ ~Representable(r)
     \/ DateRefused(d, c)
     \/ TimeRefused(d, s, e, c)
     \/ overlaps(busy, r.from, r.to) # {}

-----------------------------------------------------------------------------
(* The review of an application looks at the rules again, without those    *)
(* that are about the moment of applying; busy is without the application. *)
(* checkDate stops at the first rule that is broken, so a date that has    *)
(* passed, or lies before paid rental, hides a closure.  Head counts and   *)
(* the counts of organisations are left out, as in the submission here.    *)
\* What is stored is an instant, and 24:00 reads as 00:00.
StoredTime(t) == t % Midnight

DateDoubted(d, c) ==
  \/ ~c.space.isPublic
  \/ /\ d >= c.today /\ d >= c.paidRentalStartDate
     /\ closed(d, c.space.id, c.closureRules)

\* A range that ends before it begins is an error of the database.
reviewChecks(d, s, e, c, busy) ==
  LET until == StoredTime(e)
      r == occupancyRange(c.space, s, until)
  IN \/ ~Representable(r)
     \/ r.from > r.to
     \/ DateDoubted(d, c)
     \/ OutOfHours(d, s, until, c)
     \/ overlaps(busy, r.from, r.to) # {}

-----------------------------------------------------------------------------
(* What the pages are told.                                                *)
SlotState(d, t, c, busy) ==
  LET hit == overlaps(busy, t, t + c.space.slotMinutes)
  IN IF d = c.today /\ t <= c.nowMinutes THEN "past"
     ELSE IF \E b \in hit : b.kind = "block" THEN "blocked"
     ELSE IF \E b \in hit : b.kind = "confirmed" THEN "booked"
     ELSE IF hit # {} THEN "pending"
     ELSE "free"

slotStatesFor(d, c, busy) ==
  [t \in slotStarts(hoursForDate(c.hours, d), c.space.slotMinutes) |-> SlotState(d, t, c, busy)]

\* The length of the shortest booking, in slots, rounded up.
Need(sp) == (sp.minDurationMinutes + sp.slotMinutes - 1) \div sp.slotMinutes

\* Enough free slots in a row.
HasRun(st, sp) ==
  \E t \in DOMAIN st : \A i \in 0 .. (Need(sp) - 1) :
    LET u == t + i * sp.slotMinutes IN u \in DOMAIN st /\ st[u] = "free"

DayState(d, c, busy) ==
  LET st == slotStatesFor(d, c, busy)
      Some(x) == \E t \in DOMAIN st : st[t] = x
  IN IF DateRefused(d, c) THEN "unavailable"
     ELSE IF HasRun(st, c.space) THEN IF \A t \in DOMAIN st : st[t] = "free" THEN "available" ELSE "partial"
     ELSE IF Some("booked") THEN "booked"
     ELSE IF Some("pending") THEN "in_progress"
     ELSE "unavailable"

\* The states of a day that can be clicked.
Selectable == {"available", "partial"}

Clip(t) == IF t < 0 THEN 0 ELSE IF t > Midnight THEN Midnight ELSE t

DayAvailability(d, c, busy) ==
  [dateViolation |-> DateRefused(d, c),
   closing |-> closingMinutes(hoursForDate(c.hours, d)),
   space |-> c.space,
   slots |-> slotStatesFor(d, c, busy),
   busy |-> {[from |-> Clip(b.from), to |-> Clip(b.to)] : b \in overlaps(busy, 0, Midnight)}]

-----------------------------------------------------------------------------
(* What the picker offers.  Its loop stops at the first end whose range is *)
(* taken; later ends only make the range longer.                           *)
\* Mutant: without the time to prepare and to clear up.
EndOptions_Bare(day, s) ==
  {e \in (s + day.space.slotMinutes) .. day.closing :
     /\ (e - s) % day.space.slotMinutes = 0
     /\ e - s >= day.space.minDurationMinutes
     /\ overlaps(day.busy, s, e) = {}}

EndOptions(day, s) ==
  LET Range(e) == occupancyRange(day.space, s, e)
  IN {e \in (s + day.space.slotMinutes) .. day.closing :
        /\ (e - s) % day.space.slotMinutes = 0
        /\ e - s >= day.space.minDurationMinutes
        /\ overlaps(day.busy, Range(e).from, Range(e).to) = {}}

StartOptions(day) ==
  IF day.dateViolation THEN {}
  ELSE {s \in DOMAIN day.slots : day.slots[s] = "free" /\ EndOptions(day, s) # {}}

Offered(day, s, e) == s \in StartOptions(day) /\ e \in EndOptions(day, s)
=============================================================================
