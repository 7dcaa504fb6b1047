---- MODULE MCOrgLimits ----
(* Two applications of one organisation on three days, the last of them
   in the next half year; the settings take three values.  Two pages of
   Notion with two halls, whose bookings overlap at two of the times. *)
EXTENDS NotionImport, TLC

MCRules ==
  {[oneDay |-> TRUE, half |-> TRUE, count |-> 1, method |-> "rolling", target |-> "confirmed"],
   [oneDay |-> FALSE, half |-> TRUE, count |-> 1, method |-> "rolling", target |-> "submitted"],
   [oneDay |-> FALSE, half |-> TRUE, count |-> 1, method |-> "calendarHalf", target |-> "submitted"]}

Symmetry == Permutations(App) \cup Permutations(Page) \cup Permutations(Hall) \cup Permutations(Console)
====
