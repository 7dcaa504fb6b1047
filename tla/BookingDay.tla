----------------------------- MODULE BookingDay -----------------------------
(***************************************************************************)
(* The server behind the apply pages: the settings and the space, the      *)
(* closure rules, what is booked, and the clock.  Applications come and    *)
(* go; administrators place what they like where nothing stands, and       *)
(* change hours, space, closures and windows whatever is booked.  Holds that have   *)
(* lapsed count as gone (Reservation says when).                           *)
(***************************************************************************)
EXTENDS BookingRules

CONSTANTS
  Worlds    \* what a run looks at: venues, closures, dates, clocks, bounds

\* Times are numbers, slots have a length, and what takes up time has an end.
TypedVenue(v) ==
  /\ v = [hours |-> v.hours, space |-> v.space, paidRentalStartDate |-> v.paidRentalStartDate, window |-> v.window]
  /\ v.hours \in [dayStart : Nat, dayEnd : Nat, nightEnabled : BOOLEAN, nightEnd : Nat, nightOnWeekends : BOOLEAN]
  /\ v.space.slotMinutes \in Nat \ {0}
  /\ {v.space.minDurationMinutes, v.space.bufferBeforeMinutes, v.space.bufferAfterMinutes} \subseteq Nat

TypedInterval(b) == b = [from |-> b.from, to |-> b.to, kind |-> b.kind] /\ {b.from, b.to} \subseteq Int

ASSUME WorldsAreTyped ==
  \A w \in Worlds : /\ \A v \in w.venues : TypedVenue(v)
                    /\ \A b \in w.placed : TypedInterval(b)
                    /\ \A c \in w.clocks : c.now \in Nat

VARIABLES
  world,     \* the member of Worlds, which stays
  venue,     \* settings and space
  closures,  \* the closure rules that are active
  busy,      \* busy[d]: what is occupied on day d
  clock      \* [today, now]

dayVars == <<world, venue, closures, busy, clock>>

-----------------------------------------------------------------------------
loadBookingContext ==
  [today |-> clock.today, nowMinutes |-> clock.now, paidRentalStartDate |-> venue.paidRentalStartDate,
   hours |-> venue.hours, space |-> venue.space, window |-> venue.window, closureRules |-> closures]

\* What of a day is taken; holds that have lapsed are not in busy.
loadBusyIntervals(d) == busy[d]

Accepted(d, s, e) == ~Refused(d, s, e, loadBookingContext, loadBusyIntervals(d))

DayOf(d) == DayAvailability(d, loadBookingContext, loadBusyIntervals(d))

\* getMonthCalendar, of a day
MonthOf(d) == DayState(d, loadBookingContext, loadBusyIntervals(d))

\* An application that was stored a moment ago, on the review page.
Doubted(d, s, e) == reviewChecks(d, s, e, loadBookingContext, loadBusyIntervals(d))

Later(c) == c.today > clock.today \/ (c.today = clock.today /\ c.now > clock.now)

Booked == UNION {{<<d, b>> : b \in busy[d]} : d \in world.dates}

DayInit ==
  /\ world \in Worlds
  /\ venue \in world.venues
  /\ closures \in world.closures
  /\ busy = [d \in world.dates |-> {}]
  /\ clock \in world.clocks

-----------------------------------------------------------------------------
\* Bound: so much is booked at a time.
MayBook == Cardinality(Booked) < world.maxBusy

Occupy(d, b) ==
  /\ MayBook
  /\ overlaps(busy[d], b.from, b.to) = {}
  /\ busy' = [busy EXCEPT ![d] = @ \cup {b}]

\* submitApplication, with the rules of organisations in OrgLimits.
Submit(d, s, e) ==
  /\ Accepted(d, s, e)
  /\ LET r == occupancyRange(venue.space, s, e)
     IN Occupy(d, [from |-> r.from, to |-> r.to, kind |-> "pending_payment"])
  /\ UNCHANGED <<world, venue, closures, clock>>

\* Blocks, corrections by administrators and imports ask the exclusion
\* constraint only; a block may reach into the next day.
Place(d) ==
  /\ \E b \in world.placed :
       /\ b.kind # "block" => Representable(b)
       /\ Occupy(d, b)
  /\ UNCHANGED <<world, venue, closures, clock>>

Confirm(d, b) ==
  /\ b.kind = "pending_payment"
  /\ busy' = [busy EXCEPT ![d] = (@ \ {b}) \cup {[b EXCEPT !.kind = "confirmed"]}]
  /\ UNCHANGED <<world, venue, closures, clock>>

Release(d, b) ==
  /\ busy' = [busy EXCEPT ![d] = @ \ {b}]
  /\ UNCHANGED <<world, venue, closures, clock>>

\* Saving settings or a space; nothing that is booked moves, and the window an
\* administrator set stays.
SaveVenue ==
  /\ venue' \in {[v EXCEPT !.window.manual = venue.window.manual] : v \in world.venues} \ {venue}
  /\ UNCHANGED <<world, closures, busy, clock>>

\* insertWindow: the newest window of a space counts, and only of a space that
\* has no lead time.
InsertWindow(w) ==
  /\ venue.space.leadDays = NoLead
  /\ w \in world.windows
  /\ venue' = [venue EXCEPT !.window.manual = w]
  /\ UNCHANGED <<world, closures, busy, clock>>

\* setBookingWindow
SetWindow(from, until) == from <= until /\ InsertWindow(from .. until)

\* extendBookingWindow: a window that has not ended is made longer, or one is
\* opened from today.  (Two at a time may have read the same window, and then
\* make it longer once: the second changes nothing.)
ExtendWindow ==
  LET current == venue.window.manual
      days    == venue.window.extendDays
  IN InsertWindow(IF \E d \in current : d >= clock.today
                  THEN current \cup {d + days - i : d \in current, i \in 0 .. (days - 1)}
                  ELSE clock.today .. (clock.today + days))

Windows == ExtendWindow \/ \E from, until \in world.dates : SetWindow(from, until)

\* createClosureRule warns of applications on the dates and stores the rule
\* when told to; deactivateClosureRule takes it away.
SaveClosures ==
  /\ closures' \in world.closures \ {closures}
  /\ UNCHANGED <<world, venue, busy, clock>>

Tick ==
  /\ \E c \in world.clocks : Later(c) /\ clock' = c
  /\ UNCHANGED <<world, venue, closures, busy>>

ServerNext ==
  \/ \E d \in world.dates :
       \/ \E s \in 0 .. Midnight, e \in 0 .. Midnight : Submit(d, s, e)
       \/ Place(d)
       \/ \E b \in busy[d] : Confirm(d, b) \/ Release(d, b)
  \/ SaveVenue
  \/ Windows
  \/ SaveClosures
  \/ Tick

-----------------------------------------------------------------------------
\* What the settings do not make sure of: before the first and after the last
\* booking of a day there is room for its buffers.
LeavesRoom(v) ==
  /\ v.hours.dayStart >= v.space.bufferBeforeMinutes
  /\ v.hours.dayEnd + v.space.bufferAfterMinutes <= Midnight
  /\ v.hours.nightEnabled => v.hours.nightEnd + v.space.bufferAfterMinutes <= Midnight

VenuesLeaveRoom == \A w \in Worlds : \A v \in w.venues : LeavesRoom(v)

\* What the picker offers on the data of a moment is exactly what the server
\* accepts at that moment, whatever hours, slots, bookings, closures and clock,
\* and whatever buffers there is room for: no time is offered and then refused, and none that can be
\* booked is missing.  A day with offers can be clicked in the calendar.  The
\* review of what can be booked finds nothing to object to, unless it ends at
\* 24:00, which it takes for the 00:00 before: then it always objects.
OffersAreExact ==
  \A d \in world.dates :
    LET day == DayOf(d)
    IN /\ \A s \in 0 .. Midnight, e \in 0 .. Midnight : Offered(day, s, e) <=> Accepted(d, s, e)
       /\ \A s \in 0 .. Midnight, e \in 0 .. Midnight :
            Accepted(d, s, e) => (Doubted(d, s, e) <=> e = Midnight)
       /\ StartOptions(day) # {} => MonthOf(d) \in Selectable
=============================================================================
