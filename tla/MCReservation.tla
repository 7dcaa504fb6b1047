--------------------------- MODULE MCReservation ---------------------------
(***************************************************************************)
(* Instances of Reservation for TLC.                                       *)
(***************************************************************************)
EXTENDS Reservation, TLC

CONSTANTS c1, c2

\* One cell alone, and a request over both.
NestedRanges == {{c1}, {c1, c2}}

\* Applications are interchangeable.
Symmetry == Permutations(App)
=============================================================================
