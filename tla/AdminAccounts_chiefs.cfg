\* Two chief administrators, a third account, two requests that overlap; one
\* account with two browsers, two secrets, two links, three time steps.
SPECIFICATION MCSpec
CONSTANTS
  u1 = u1
  u2 = u2
  u3 = u3
  User = {u1, u2, u3}
  Founders = {u1, u2}
  Grade = {g}
  Super = super
  None = none
  System = system
  Request = {r1, r2}
  MaxRequests = 5
  Browser = {b1, b2}
  Link = {l1, l2}
  MaxStep = 2
  MaxSecrets = 2
  MaxLogins = 3
SYMMETRY Symmetry
CHECK_DEADLOCK FALSE
INVARIANTS
  SuperRemains
  GradeExists
  CodeOnce
  LinkOnce
