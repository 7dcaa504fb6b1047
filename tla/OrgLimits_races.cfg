SPECIFICATION IntakeSpec
CONSTANTS
  App = {a1, a2}
  Org = {o1}
  NoOrg = none
  Day = {2, 3, 4}
  Half = 2
  Rules <- MCRules
  Page = {p1, p2}
  Hall = {h1, h2}
  Start = {1, 2}
  Length = 2
  Console = {c1, c2}
  MaxEdits = 2
SYMMETRY Symmetry
CHECK_DEADLOCK FALSE
INVARIANTS
  LimitsKept
  ImportKept
