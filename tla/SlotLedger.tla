----------------------------- MODULE SlotLedger -----------------------------
(***************************************************************************)
(* What the venue promises about its time slots, before any detail of      *)
(* applications, payments or jobs.  An owner (an application or a schedule *)
(* block) claims a set of cells, a cell being one bookable unit of time of *)
(* one space.  A claim is firm, or it is soft: an unpaid hold whose time   *)
(* has run out and that nobody has cleaned up yet.                         *)
(*                                                                         *)
(* The promise: claims never overlap, and a cell passes from one owner     *)
(* straight to another only when the loser's claim was soft.               *)
(***************************************************************************)
CONSTANTS Owner, Cell

VARIABLES claim,  \* claim[o]: the cells o holds, {} when it holds none
          soft    \* the owners whose claim has lapsed

vars == <<claim, soft>>

TypeOK ==
  /\ claim \in [Owner -> SUBSET Cell]
  /\ soft \subseteq Owner

\* No two owners hold the same cell.
Exclusive ==
  \A o, p \in Owner : o # p => claim[o] \cap claim[p] = {}

Init ==
  /\ claim = [o \in Owner |-> {}]
  /\ soft = {}

\* The owners in E lose their lapsed claims, and o ends up holding exactly S.
\* With E empty and S empty this is a plain release; with o already holding
\* cells it is a move.  A hold granted by a slow request may have lapsed
\* already.
Assign(o, S, E) ==
  /\ E \subseteq soft \ {o}
  /\ \A p \in Owner \ (E \cup {o}) : claim[p] \cap S = {}
  /\ claim' = [p \in Owner |-> IF p = o THEN S ELSE IF p \in E THEN {} ELSE claim[p]]
  /\ soft' \subseteq (soft \ E) \cup {o}

\* Lapsed claims are cleaned up and nobody takes their cells yet.
Sweep(E) ==
  /\ E \subseteq soft
  /\ claim' = [p \in Owner |-> IF p \in E THEN {} ELSE claim[p]]
  /\ soft' = soft \ E

\* Time passes: more claims lapse, none moves.
Lapse ==
  /\ soft \subseteq soft'
  /\ soft' \subseteq Owner
  /\ UNCHANGED claim

\* A lapsed claim is made good, by a payment that arrives before the clean-up.
Firm(o) ==
  /\ soft' = soft \ {o}
  /\ UNCHANGED claim

Next ==
  \/ \E o \in Owner, S \in SUBSET Cell, E \in SUBSET Owner : Assign(o, S, E)
  \/ \E E \in SUBSET Owner : Sweep(E)
  \/ Lapse
  \/ \E o \in Owner : Firm(o)

Spec == Init /\ [][Next]_vars
=============================================================================
