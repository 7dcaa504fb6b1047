---- MODULE MCApplyPages ----
(* Small worlds: many venues over a day in half hours, and over two days
   with closures, without pages; one venue and a further space with the picker
   and a server that changes; the files alone; the codes alone. *)
EXTENDS ApplyPages, TLC

Hours(start, end, night, nightEnd, weekends) ==
  [dayStart |-> start, dayEnd |-> end, nightEnabled |-> night, nightEnd |-> nightEnd, nightOnWeekends |-> weekends]

Space(slot, min, before, after, lead) ==
  [id |-> "hall", isPublic |-> TRUE, leadDays |-> lead, slotMinutes |-> slot, minDurationMinutes |-> min,
   bufferBeforeMinutes |-> before, bufferAfterMinutes |-> after]

Venue(h, sp) ==
  [hours |-> h, space |-> sp, paidRentalStartDate |-> 0,
   window |-> [mode |-> "manual", autoDays |-> 1, extendDays |-> 1, manual |-> {5}]]

\* Hours that leave room for the buffers before midnight and after it.
Nights == {Hours(1, 3, TRUE, 5, TRUE), Hours(1, 3, TRUE, 5, FALSE), Hours(1, 4, FALSE, 5, FALSE)}
Spaces == {Space(1, 2, 1, 0, 0), Space(2, 2, 0, 1, 1), Space(1, 1, 1, 1, NoLead)}

Closure(t, sp, ds) == [type |-> t, space |-> sp, dates |-> ds]
Mondays == Closure("weekly", AnySpace, {5, 6})
Opening == Closure("open_exception", AnySpace, {6})
Repairs == Closure("date_range", "hall", {5})

\* Open until midnight, with nothing to clear up after.
Late == Venue(Hours(3, 6, FALSE, 6, FALSE), Space(1, 2, 1, 0, 0))

\* What administrators put in, from the evening before to the next morning.
Anything == {[from |-> b[1], to |-> b[2], kind |-> k] :
  b \in {x \in (-1 .. Midnight) \X (0 .. (Midnight + 1)) : x[1] < x[2]}, k \in {"confirmed", "block"}}

Times == [windows |-> {}, venues |-> {Venue(h, sp) : h \in Nights, sp \in Spaces} \cup {Late}, closures |-> {{}},
          dates |-> {6}, clocks |-> {[today |-> 5, now |-> 0], [today |-> 6, now |-> 2]},
          maxBusy |-> 2, placed |-> Anything, pages |-> FALSE, others |-> {}, addresses |-> {}, files |-> FALSE, access |-> FALSE]

Weekdays == {Venue(Hours(1, 3, TRUE, 5, FALSE), sp) : sp \in Spaces}

Calendar == [venues |-> Weekdays \cup {[v EXCEPT !.window.mode = "auto"] : v \in Weekdays},
             windows |-> {a .. b : a, b \in 4 .. 6},
             closures |-> SUBSET {Mondays, Opening, Repairs},
             dates |-> {5, 6}, clocks |-> {[today |-> t, now |-> 0] : t \in 4 .. 6},
             maxBusy |-> 0, placed |-> {}, pages |-> FALSE, others |-> {}, addresses |-> {}, files |-> FALSE, access |-> FALSE]

Pages == [windows |-> {}, venues |-> {Venue(Hours(1, 3, FALSE, 3, FALSE), Space(2, 2, 0, 0, 0))}, closures |-> {{}},
          dates |-> {5, 6}, clocks |-> {[today |-> 4, now |-> 0]},
          maxBusy |-> 1, placed |-> {[from |-> 2, to |-> 3, kind |-> "block"]}, pages |-> TRUE,
          others |-> {"room"}, addresses |-> [space : {"hall"}, date : {5}, start : {1}, end : {2, 3}], files |-> FALSE, access |-> FALSE]

Files == [windows |-> {}, venues |-> {Venue(Hours(1, 3, FALSE, 3, FALSE), Space(1, 1, 0, 0, 0))}, closures |-> {{}},
          dates |-> {5}, clocks |-> {[today |-> 4, now |-> 0]},
          maxBusy |-> 0, placed |-> {}, pages |-> FALSE, others |-> {}, addresses |-> {}, files |-> TRUE, access |-> FALSE]

Access == [Files EXCEPT !.files = FALSE, !.access = TRUE]

MCSymmetry == Permutations(Visitor) \cup Permutations(File)

MCWorlds == {Times, Calendar, Pages, Files, Access}

\* What the theorem about the offers asks for is so here.
ASSUME RoomHere == VenuesLeaveRoom
====
