-------------------------- MODULE ReservationProofs --------------------------
(***************************************************************************)
(* Proofs about Reservation, for any number of applications, blocks and    *)
(* cells, and any hold times: that no slot is sold twice and slots agree   *)
(* with what applications are (IInv), what the races of submissions, jobs  *)
(* and payments may not do (SInv), and that Reservation implements         *)
(* SlotLedger.                                                             *)
(***************************************************************************)
EXTENDS Reservation, TLAPS

USE DEF Time, NoTime

-----------------------------------------------------------------------------
(* Lemmas about the operators the actions are built from.                  *)

\* Expiring a set of applications yields well-typed tables.
LEMMA ExpireType ==
  ASSUME TypeOK, NEW E
  PROVE  /\ ExpireStatus(E) \in [App -> Status]
         /\ ExpireOcc(E) \in [App -> Occupancy]
         /\ ExpirePay(E) \in [App -> {"none", "ready", "paid", "cancelled"}]
<1>1. ExpireStatus(E) \in [App -> Status]
  BY DEF TypeOK, ExpireStatus, Status
<1>2. ExpireOcc(E) \in [App -> Occupancy]
  <2>1. NoOcc \in Occupancy
    BY DEF NoOcc, Occupancy, Kind
  <2>. QED
    BY <2>1 DEF TypeOK, ExpireOcc
<1>3. ExpirePay(E) \in [App -> {"none", "ready", "paid", "cancelled"}]
  BY DEF TypeOK, ExpirePay
<1>. QED
  BY <1>1, <1>2, <1>3

\* The transition table, read backwards: where a status can be entered from.
LEMMA EnteredFrom ==
  ASSUME NEW s \in Status
  PROVE  /\ CanTransition(s, "submitted") => s = "pending_payment"
         /\ CanTransition(s, "reviewing") => s \in UnderReview
         /\ CanTransition(s, "revision_requested") => s \in UnderReview
         /\ CanTransition(s, "completed") => s \in Managed
  BY DEF CanTransition, Status, UnderReview, Managed

\* An unoccupied row is a row.
LEMMA NoOccType == NoOcc \in Occupancy /\ NoTx \in Tx
  BY DEF NoOcc, Occupancy, Kind, NoTx, Tx

\* The deadline of a new hold is a time.
LEMMA HoldUntilType ==
  ASSUME NEW m, NEW t \in Time
  PROVE  HoldUntil(m, t) \in Time
  BY ConstantsAssumption DEF HoldUntil

-----------------------------------------------------------------------------
(* Type correctness.                                                       *)

\* Submissions and imports keep the types.
LEMMA SubmissionType ==
  ASSUME TypeOK, Submission
  PROVE  TypeOK'
<1>. USE ConstantsAssumption
<1>1. ASSUME NEW a \in App, NEW S \in Ranges, NEW t \in RecentTimes, SubmitCheck(a, S, t)
      PROVE  TypeOK'
  <2>1. [open |-> TRUE, cells |-> S, at |-> t, lapsed |-> Lapsed(S, t)] \in Tx
    BY DEF Tx, RecentTimes, Lapsed
  <2>. QED
    BY <1>1, <2>1 DEF TypeOK, SubmitCheck, jobVars
<1>2. ASSUME NEW S \in Ranges, NEW t \in RecentTimes, SubmitRefused(S, t)
      PROVE  TypeOK'
  BY <1>2, ExpireType DEF TypeOK, SubmitRefused, jobVars
<1>3. ASSUME NEW a \in App, NEW m \in {"pg", "bank_transfer", "free"}, SubmitInsert(a, m)
      PROVE  TypeOK'
  <2>. DEFINE E == tx[a].lapsed
              new == IF m = "free"
                     THEN [kind |-> "held", cells |-> tx[a].cells, expires |-> NoTime]
                     ELSE [kind |-> "pending_payment", cells |-> tx[a].cells,
                           expires |-> HoldUntil(m, tx[a].at)]
  <2>1. tx[a] \in Tx /\ NoTx \in Tx
    BY NoOccType DEF TypeOK
  <2>2. tx[a].cells \in SUBSET Cell /\ tx[a].at \in Time
    BY <2>1 DEF Tx
  <2>3. new \in Occupancy
    BY <2>2, HoldUntilType DEF Occupancy, Kind
  <2>4. occ' = [ExpireOcc(E) EXCEPT ![a] = new]
    BY <1>3 DEF SubmitInsert
  <2>5. occ' \in [App -> Occupancy]
    BY <2>3, <2>4, ExpireType
  <2>6. status' \in [App -> Status]
    BY <1>3, ExpireType DEF SubmitInsert, Status
  <2>7. pay' \in [App -> {"none", "ready", "paid", "cancelled"}]
    BY <1>3, ExpireType DEF SubmitInsert
  <2>. QED
    BY <1>3, <2>1, <2>5, <2>6, <2>7 DEF TypeOK, SubmitInsert, jobVars
<1>4. ASSUME NEW a \in App, SubmitConflict(a)
      PROVE  TypeOK'
  BY <1>4, NoOccType DEF TypeOK, SubmitConflict, jobVars
<1>5. ASSUME NEW a \in App, NEW S \in Ranges, NEW e \in 0..MaxTime, ImportNotion(a, S, e)
      PROVE  TypeOK'
  <2>1. [kind |-> "pending_payment", cells |-> S, expires |-> e] \in Occupancy
    BY DEF Occupancy, Kind
  <2>. QED
    BY <1>5, <2>1 DEF TypeOK, ImportNotion, jobVars, Status
<1>. QED
  BY <1>1, <1>2, <1>3, <1>4, <1>5 DEF Submission

\* So does everything the desk, the applicant and the administrator do.
LEMMA DeskType ==
  ASSUME TypeOK, NEW a \in App, Desk(a)
  PROVE  TypeOK'
<1>. USE ConstantsAssumption DEF jobVars
<1>1. ASSUME NEW k \in Kind
      PROVE  Keep(a, k) \in [App -> Occupancy]
  BY DEF TypeOK, Occupancy, Keep
<1>2. CASE ConfirmPayment(a)
  BY <1>1, <1>2 DEF TypeOK, ConfirmPayment, Status, Kind
<1>3. ASSUME NEW approve \in BOOLEAN, ConfirmDeposit(a, approve)
      PROVE  TypeOK'
  BY <1>1, <1>3 DEF TypeOK, ConfirmDeposit, Status, Kind
<1>4. ASSUME NEW t \in Status, Move(a, t)
      PROVE  status' \in [App -> Status]
  BY <1>4 DEF TypeOK, Move
<1>5. CASE StartReview(a)
  BY <1>4, <1>5 DEF TypeOK, StartReview, Status
<1>6. CASE RequestRevision(a)
  BY <1>4, <1>6 DEF TypeOK, RequestRevision, Status
<1>7. CASE RejectApplication(a)
  BY <1>4, <1>7, NoOccType DEF TypeOK, RejectApplication, Release, Status
<1>8. CASE ApproveApplication(a)
  <2>1. [occ EXCEPT ![a].kind = "confirmed"] \in [App -> Occupancy]
    BY DEF TypeOK, Occupancy, Kind
  <2>. QED
    BY <1>4, <1>8, <2>1 DEF TypeOK, ApproveApplication, Status
<1>9. CASE CancelConfirmed(a)
  BY <1>4, <1>9, NoOccType DEF TypeOK, CancelConfirmed, Release, Status
<1>10. ASSUME NEW completed \in BOOLEAN, SetCompleted(a, completed)
       PROVE  TypeOK'
  BY <1>4, <1>10 DEF TypeOK, SetCompleted, Status
<1>11. CASE Withdraw(a)
  BY <1>4, <1>11, NoOccType DEF TypeOK, Withdraw, Release, Status
<1>12. CASE SubmitRevision(a)
  BY <1>4, <1>12 DEF TypeOK, SubmitRevision, Status
<1>13. ASSUME NEW S \in Ranges, AdminMove(a, S)
       PROVE  TypeOK'
  <2>1. [ExpireOcc(Lapsed(S, now)) EXCEPT ![a].cells = S] \in [App -> Occupancy]
    BY ExpireType DEF Occupancy
  <2>. QED
    BY <1>13, <2>1, ExpireType DEF TypeOK, AdminMove
<1>14. CASE DeleteApplication(a)
  BY <1>14, NoOccType DEF TypeOK, DeleteApplication, Status
<1>. QED
  BY <1>2, <1>3, <1>5, <1>6, <1>7, <1>8, <1>9, <1>10, <1>11, <1>12, <1>13, <1>14 DEF Desk, Applicant

\* And the blocks, the jobs and the clock.
LEMMA WorkerType ==
  ASSUME TypeOK, Blocks \/ Worker \/ Tick
  PROVE  TypeOK'
<1>. USE ConstantsAssumption DEF jobVars
<1>1. CASE Blocks
  BY <1>1 DEF TypeOK, Blocks, CreateBlock, DeleteBlock
<1>2. CASE Tick
  BY <1>2 DEF TypeOK, Tick
<1>3. CASE SelectDue \/ SelectOverdue
  BY <1>3 DEF TypeOK, SelectDue, SelectOverdue
<1>4. ASSUME NEW a \in App, ExpireDue(a) \/ SkipLocked(a)
      PROVE  TypeOK'
  BY <1>4, ExpireType DEF TypeOK, ExpireDue, SkipLocked
<1>5. ASSUME NEW a \in App, ExpireRevision(a)
      PROVE  TypeOK'
  BY <1>5, NoOccType DEF TypeOK, ExpireRevision, Status
<1>. QED
  BY <1>1, <1>2, <1>3, <1>4, <1>5 DEF Worker

\* Every variable keeps its type.
THEOREM TypeCorrect == Spec => []TypeOK
<1>1. Init => TypeOK
  BY NoOccType DEF Init, TypeOK, Status
<1>2. TypeOK /\ [Next]_vars => TypeOK'
  <2>. SUFFICES ASSUME TypeOK, [Next]_vars PROVE TypeOK'
    OBVIOUS
  <2>1. CASE UNCHANGED vars
    BY <2>1 DEF TypeOK, vars
  <2>. QED
    BY <2>1, SubmissionType, DeskType, WorkerType DEF Next
<1>. QED
  BY <1>1, <1>2, PTL DEF Spec
-----------------------------------------------------------------------------
(* Status, slot and exclusion.  NoDoubleBooking and SlotMatchesStatus are   *)
(* inductive together with the types and with what an open submission is.  *)

IInv == TypeOK /\ OpenTxIsNew /\ NoDoubleBooking /\ SlotMatchesStatus

\* Expiring a set of applications keeps each status in step with its slot and
\* adds no cell to anybody.
LEMMA ExpireKeeps ==
  ASSUME TypeOK, SlotMatchesStatus, NEW E, NEW b \in App
  PROVE  /\ Matches(ExpireStatus(E)[b], ExpireOcc(E)[b])
         /\ ExpireOcc(E)[b].cells \subseteq occ[b].cells
<1>1. Matches(status[b], occ[b])
  BY DEF SlotMatchesStatus
<1>2. Matches("payment_expired", NoOcc)
  BY DEF Matches, NoOcc, UnderReview, Managed
<1>3. ExpireStatus(E)[b] = IF b \in E /\ status[b] = "pending_payment" THEN "payment_expired" ELSE status[b]
  BY DEF ExpireStatus
<1>4. ExpireOcc(E)[b] = IF b \in E /\ occ[b].kind = "pending_payment" THEN NoOcc ELSE occ[b]
  BY DEF ExpireOcc
<1>5. status[b] = "pending_payment" <=> occ[b].kind = "pending_payment"
  BY <1>1 DEF Matches
<1>6. NoOcc.cells = {}
  BY DEF NoOcc
<1>. QED
  BY <1>1, <1>2, <1>3, <1>4, <1>5, <1>6

\* Giving cells up keeps all claims disjoint.
LEMMA ShrinkDisjoint ==
  ASSUME NoDoubleBooking,
         \A b \in App : occ'[b].cells \subseteq occ[b].cells,
         \A b \in Block : block'[b] \subseteq block[b]
  PROVE  NoDoubleBooking'
  BY DEF NoDoubleBooking

\* So does taking cells that the exclusion constraint admits.
LEMMA GrowDisjoint ==
  ASSUME NoDoubleBooking, NEW a \in App, NEW S, NEW o,
         \A b \in App : o[b].cells \subseteq occ[b].cells,
         NoOverlap(a, S, o),
         \A b \in App : occ'[b].cells = IF b = a THEN S ELSE o[b].cells,
         block' = block
  PROVE  NoDoubleBooking'
  BY DEF NoDoubleBooking, NoOverlap

\* A status entered, and the slot left by it.
LEMMA MatchesAfter ==
  ASSUME NEW s, NEW o \in Occupancy, Matches(s, o)
  PROVE  /\ s \in UnderReview => \A t \in UnderReview : Matches(t, o)
         /\ s \in Managed => \A t \in Managed : Matches(t, o)
         /\ \A t \in Final \cup {"none", "deleted"} : Matches(t, NoOcc)
         /\ s = "pending_payment" =>
              /\ Matches("submitted", [kind |-> "held", cells |-> o.cells, expires |-> NoTime])
              /\ Matches("confirmed", [kind |-> "confirmed", cells |-> o.cells, expires |-> NoTime])
         /\ s \in UnderReview =>
              Matches("confirmed", [o EXCEPT !.kind = "confirmed"])
         /\ \A S \in SUBSET Cell : S # {} /\ o.kind # "none" => Matches(s, [o EXCEPT !.cells = S])
<1>. USE DEF Matches, UnderReview, Managed
<1>1. \A t \in Final \cup {"none", "deleted"} : Matches(t, NoOcc)
  BY DEF Final, NoOcc
<1>. QED
  BY <1>1 DEF Occupancy, Kind
\* A transaction on one application that takes no cell.
LEMMA OneApplication ==
  ASSUME IInv, TypeOK', NEW a \in App,
         \A b \in App \ {a} : status'[b] = status[b] /\ occ'[b] = occ[b],
         Matches(status'[a], occ'[a]),
         occ'[a].cells \subseteq occ[a].cells,
         status[a] = "none" => status'[a] = "none",
         block' = block, tx' = tx
  PROVE  IInv'
<1>1. OpenTxIsNew'
  BY DEF IInv, OpenTxIsNew
<1>2. NoDoubleBooking'
  BY ShrinkDisjoint DEF IInv
<1>3. SlotMatchesStatus'
  BY DEF IInv, SlotMatchesStatus
<1>. QED
  BY <1>1, <1>2, <1>3 DEF IInv

\* A transaction that only expires unpaid holds.
LEMMA OnlyExpires ==
  ASSUME IInv, TypeOK', NEW E,
         status' = ExpireStatus(E), occ' = ExpireOcc(E), block' = block, tx' = tx
  PROVE  IInv'
<1>1. OpenTxIsNew'
  BY DEF IInv, OpenTxIsNew, ExpireStatus
<1>2. NoDoubleBooking'
  BY ShrinkDisjoint, ExpireKeeps DEF IInv
<1>3. SlotMatchesStatus'
  BY ExpireKeeps DEF IInv, SlotMatchesStatus
<1>. QED
  BY <1>1, <1>2, <1>3 DEF IInv

\* A transaction that touches neither status, slot nor block.
LEMMA TouchesNoSlot ==
  ASSUME IInv, TypeOK', UNCHANGED <<status, occ, block, tx>>
  PROVE  IInv'
  BY DEF IInv, TypeOK, OpenTxIsNew, NoDoubleBooking, SlotMatchesStatus, Matches

\* Submissions and imports preserve the invariant.
LEMMA SubmissionInv ==
  ASSUME IInv, Submission
  PROVE  IInv'
<1>. USE ConstantsAssumption
<1>1. TypeOK'
  BY SubmissionType DEF IInv
<1>2. ASSUME NEW a \in App, NEW S \in Ranges, NEW t \in RecentTimes, SubmitCheck(a, S, t)
      PROVE  IInv'
  <2>1. OpenTxIsNew'
    BY <1>2 DEF IInv, TypeOK, OpenTxIsNew, SubmitCheck
  <2>2. NoDoubleBooking' /\ SlotMatchesStatus'
    BY <1>2 DEF IInv, NoDoubleBooking, SlotMatchesStatus, Matches, SubmitCheck
  <2>. QED
    BY <1>1, <2>1, <2>2 DEF IInv
<1>3. ASSUME NEW S \in Ranges, NEW t \in RecentTimes, SubmitRefused(S, t)
      PROVE  IInv'
  BY <1>1, <1>3, OnlyExpires DEF SubmitRefused
<1>4. ASSUME NEW a \in App, NEW m \in {"pg", "bank_transfer", "free"}, SubmitInsert(a, m)
      PROVE  IInv'
  <2>. DEFINE E == tx[a].lapsed
              S == tx[a].cells
              new == IF m = "free"
                     THEN [kind |-> "held", cells |-> S, expires |-> NoTime]
                     ELSE [kind |-> "pending_payment", cells |-> S,
                           expires |-> HoldUntil(m, tx[a].at)]
  <2>1. tx[a].open /\ S \in Ranges /\ S # {} /\ tx[a].at \in Time
    BY <1>4 DEF IInv, TypeOK, OpenTxIsNew, SubmitInsert, Tx
  <2>2. /\ occ' = [ExpireOcc(E) EXCEPT ![a] = new]
        /\ status' = [ExpireStatus(E) EXCEPT ![a] = IF m = "free" THEN "submitted" ELSE "pending_payment"]
    BY <1>4 DEF SubmitInsert
  <2>3. ExpireOcc(E) \in [App -> Occupancy] /\ ExpireStatus(E) \in [App -> Status]
    BY ExpireType DEF IInv
  <2>4. Matches(status'[a], occ'[a])
    <3>1. HoldUntil(m, tx[a].at) \in Nat
      BY <2>1, HoldUntilType
    <3>. QED
      BY <2>1, <2>2, <2>3, <3>1 DEF Matches, UnderReview, Managed
  <2>5. SlotMatchesStatus'
    BY <2>2, <2>3, <2>4, ExpireKeeps DEF IInv, SlotMatchesStatus
  <2>6. NoDoubleBooking'
    <3>1. \A b \in App : occ'[b].cells = IF b = a THEN S ELSE ExpireOcc(E)[b].cells
      BY <2>2, <2>3
    <3>2. NoOverlap(a, S, ExpireOcc(E)) /\ block' = block
      BY <1>4 DEF SubmitInsert
    <3>3. \A b \in App : ExpireOcc(E)[b].cells \subseteq occ[b].cells
      BY ExpireKeeps DEF IInv
    <3>. QED
      BY <3>1, <3>2, <3>3, GrowDisjoint DEF IInv
  <2>7. OpenTxIsNew'
    <3>1. tx' = [tx EXCEPT ![a] = NoTx] /\ tx \in [App -> Tx]
      BY <1>4 DEF SubmitInsert, IInv, TypeOK
    <3>. QED
      BY <2>2, <2>3, <3>1 DEF IInv, OpenTxIsNew, NoTx, ExpireStatus
  <2>. QED
    BY <1>1, <2>5, <2>6, <2>7 DEF IInv
<1>5. ASSUME NEW a \in App, SubmitConflict(a)
      PROVE  IInv'
  <2>1. OpenTxIsNew'
    BY <1>5 DEF IInv, TypeOK, OpenTxIsNew, SubmitConflict, NoTx
  <2>2. NoDoubleBooking' /\ SlotMatchesStatus'
    BY <1>5 DEF IInv, NoDoubleBooking, SlotMatchesStatus, Matches, SubmitConflict
  <2>. QED
    BY <1>1, <2>1, <2>2 DEF IInv
<1>6. ASSUME NEW a \in App, NEW S \in Ranges, NEW e \in 0..MaxTime, ImportNotion(a, S, e)
      PROVE  IInv'
  <2>. DEFINE new == [kind |-> "pending_payment", cells |-> S, expires |-> e]
  <2>1. occ' = [occ EXCEPT ![a] = new] /\ status' = [status EXCEPT ![a] = "pending_payment"]
    BY <1>6 DEF ImportNotion
  <2>2. occ \in [App -> Occupancy] /\ status \in [App -> Status]
    BY DEF IInv, TypeOK
  <2>3. Matches("pending_payment", new)
    BY DEF Matches, UnderReview, Managed
  <2>4. SlotMatchesStatus'
    BY <2>1, <2>2, <2>3 DEF IInv, SlotMatchesStatus
  <2>5. NoDoubleBooking'
    <3>1. \A b \in App : occ'[b].cells = IF b = a THEN S ELSE occ[b].cells
      BY <2>1, <2>2
    <3>2. NoOverlap(a, S, occ) /\ block' = block
      BY <1>6 DEF ImportNotion
    <3>. QED
      BY <3>1, <3>2, GrowDisjoint DEF IInv
  <2>6. OpenTxIsNew'
    BY <1>6, <2>1, <2>2 DEF IInv, OpenTxIsNew, ImportNotion
  <2>. QED
    BY <1>1, <2>4, <2>5, <2>6 DEF IInv
<1>. QED
  BY <1>2, <1>3, <1>4, <1>5, <1>6 DEF Submission

\* Whatever the desk, the applicant or the administrator does preserves it.
LEMMA DeskInv ==
  ASSUME IInv, NEW a \in App, Desk(a)
  PROVE  IInv'
<1>. USE ConstantsAssumption
<1>1. TypeOK'
  BY DeskType DEF IInv
<1>2. /\ occ \in [App -> Occupancy] /\ status \in [App -> Status]
      /\ Matches(status[a], occ[a]) /\ occ[a] \in Occupancy /\ status[a] \in Status
  BY DEF IInv, TypeOK, SlotMatchesStatus
<1>. DEFINE kept(k) == [kind |-> k, cells |-> occ[a].cells, expires |-> NoTime]
<1>3. CASE ConfirmPayment(a)
  <2>1. CASE status[a] = "pending_payment" /\ occ[a].kind = "pending_payment"
    <3>1. /\ status' = [status EXCEPT ![a] = "submitted"]
          /\ occ' = [occ EXCEPT ![a] = kept("held")]
          /\ block' = block /\ tx' = tx
      BY <1>3, <2>1 DEF ConfirmPayment, Keep
    <3>2. Matches(status'[a], occ'[a])
      BY <1>2, <2>1, <3>1, MatchesAfter
    <3>. QED
      BY <1>1, <1>2, <2>1, <3>1, <3>2, OneApplication
  <2>2. CASE ~(status[a] = "pending_payment" /\ occ[a].kind = "pending_payment")
    BY <1>1, <1>3, <2>2, TouchesNoSlot DEF ConfirmPayment
  <2>. QED
    BY <2>1, <2>2
<1>4. ASSUME NEW approve \in BOOLEAN, ConfirmDeposit(a, approve)
      PROVE  IInv'
  <2>1. /\ status[a] = "pending_payment"
        /\ status' = [status EXCEPT ![a] = IF approve THEN "confirmed" ELSE "submitted"]
        /\ occ' = [occ EXCEPT ![a] = kept(IF approve THEN "confirmed" ELSE "held")]
        /\ block' = block /\ tx' = tx
    BY <1>2, <1>4, EnteredFrom DEF ConfirmDeposit, Keep
  <2>2. Matches(status'[a], occ'[a])
    BY <1>2, <2>1, MatchesAfter
  <2>. QED
    BY <1>1, <1>2, <2>1, <2>2, OneApplication
\* A transition that leaves the slot alone.
<1>5. ASSUME NEW t, Move(a, t), occ' = occ, block' = block, tx' = tx,
             \/ status[a] \in UnderReview /\ t \in UnderReview
             \/ status[a] \in Managed /\ t \in Managed
      PROVE  IInv'
  <2>1. status' = [status EXCEPT ![a] = t]
    BY <1>5 DEF Move
  <2>2. Matches(status'[a], occ'[a])
    BY <1>2, <1>5, <2>1, MatchesAfter
  <2>3. status[a] # "none"
    BY <1>5 DEF UnderReview, Managed
  <2>. QED
    BY <1>1, <1>2, <1>5, <2>1, <2>2, <2>3, OneApplication
\* A transition to a final status that gives the slot up.
<1>6. ASSUME NEW t \in Final \cup {"deleted"}, status[a] # "none",
             status' = [status EXCEPT ![a] = t], occ' = [occ EXCEPT ![a] = NoOcc],
             block' = block, tx' = tx
      PROVE  IInv'
  <2>1. Matches(status'[a], occ'[a])
    BY <1>2, <1>6, MatchesAfter
  <2>2. occ'[a].cells \subseteq occ[a].cells
    BY <1>2, <1>6 DEF NoOcc
  <2>. QED
    BY <1>1, <1>2, <1>6, <2>1, <2>2, OneApplication
<1>7. \A t \in Status : CanTransition(status[a], t) => status[a] # "none"
  BY DEF CanTransition
<1>8. CASE StartReview(a)
  <2>1. Move(a, "reviewing") /\ status[a] \in UnderReview
    BY <1>2, <1>8, EnteredFrom DEF StartReview, Move
  <2>2. "reviewing" \in UnderReview
    BY DEF UnderReview
  <2>3. occ' = occ /\ block' = block /\ tx' = tx
    BY <1>8 DEF StartReview
  <2>. QED
    BY <1>5, <2>1, <2>2, <2>3
<1>9. CASE RequestRevision(a)
  <2>1. Move(a, "revision_requested") /\ status[a] \in UnderReview
    BY <1>2, <1>9, EnteredFrom DEF RequestRevision, Move
  <2>2. "revision_requested" \in UnderReview
    BY DEF UnderReview
  <2>3. occ' = occ /\ block' = block /\ tx' = tx
    BY <1>9 DEF RequestRevision
  <2>. QED
    BY <1>5, <2>1, <2>2, <2>3
<1>10. CASE RejectApplication(a)
  BY <1>6, <1>7, <1>10 DEF RejectApplication, Release, Move, Final, Status
<1>11. CASE ApproveApplication(a)
  <2>1. /\ status' = [status EXCEPT ![a] = "confirmed"]
        /\ occ' = [occ EXCEPT ![a] = [occ[a] EXCEPT !.kind = "confirmed"]]
        /\ block' = block /\ tx' = tx
        /\ status[a] \in UnderReview
    BY <1>2, <1>11 DEF ApproveApplication, Move, Matches
  <2>2. Matches(status'[a], occ'[a])
    BY <1>2, <2>1, MatchesAfter
  <2>3. occ'[a].cells = occ[a].cells /\ status[a] # "none"
    BY <1>2, <2>1 DEF UnderReview, Occupancy
  <2>. QED
    BY <1>1, <1>2, <2>1, <2>2, <2>3, OneApplication
<1>12. CASE CancelConfirmed(a)
  BY <1>6, <1>12 DEF CancelConfirmed, Release, Move, Final
<1>13. ASSUME NEW completed \in BOOLEAN, SetCompleted(a, completed)
       PROVE  IInv'
  <2>. DEFINE t == IF completed THEN "completed" ELSE "confirmed"
  <2>1. status[a] \in Managed /\ t \in Managed
    BY <1>13 DEF SetCompleted, Managed
  <2>2. Move(a, t) /\ occ' = occ /\ block' = block /\ tx' = tx
    BY <1>13 DEF SetCompleted
  <2>. HIDE DEF t
  <2>. QED
    BY <1>5, <2>1, <2>2
<1>14. CASE Withdraw(a)
  BY <1>6, <1>7, <1>14 DEF Withdraw, Release, Move, Final, Status
<1>15. CASE SubmitRevision(a)
  <2>1. status[a] \in UnderReview /\ "reviewing" \in UnderReview
    BY <1>15 DEF SubmitRevision, UnderReview
  <2>2. Move(a, "reviewing") /\ occ' = occ /\ block' = block /\ tx' = tx
    BY <1>15 DEF SubmitRevision
  <2>. QED
    BY <1>5, <2>1, <2>2
<1>16. ASSUME NEW S \in Ranges, AdminMove(a, S)
       PROVE  IInv'
  <2>. DEFINE E == Lapsed(S, now)
              o == ExpireOcc(E)
  <2>1. /\ o[a].kind # "none" /\ NoOverlap(a, S, o)
        /\ status' = ExpireStatus(E) /\ occ' = [o EXCEPT ![a].cells = S]
        /\ block' = block /\ tx' = tx
    BY <1>16 DEF AdminMove
  <2>2. o \in [App -> Occupancy] /\ status' \in [App -> Status]
    BY <2>1, ExpireType DEF IInv
  <2>3. /\ \A b \in App : Matches(status'[b], o[b])
        /\ \A b \in App : o[b].cells \subseteq occ[b].cells
    BY <2>1, ExpireKeeps DEF IInv
  <2>4. Matches(status'[a], [o[a] EXCEPT !.cells = S])
    BY <2>1, <2>2, <2>3, MatchesAfter
  <2>5. occ' = [o EXCEPT ![a] = [o[a] EXCEPT !.cells = S]]
    BY <2>1
  <2>6. SlotMatchesStatus'
    BY <2>2, <2>3, <2>4, <2>5 DEF SlotMatchesStatus
  <2>7. NoDoubleBooking'
    <3>1. \A b \in App : occ'[b].cells = IF b = a THEN S ELSE o[b].cells
      BY <2>2, <2>5 DEF Occupancy
    <3>. QED
      BY <2>1, <2>3, <3>1, GrowDisjoint DEF IInv
  <2>8. OpenTxIsNew'
    BY <2>1 DEF IInv, OpenTxIsNew, ExpireStatus
  <2>. QED
    BY <1>1, <2>6, <2>7, <2>8 DEF IInv
<1>17. CASE DeleteApplication(a)
  BY <1>6, <1>17 DEF DeleteApplication, Exists
<1>. QED
  BY <1>3, <1>4, <1>8, <1>9, <1>10, <1>11, <1>12, <1>13, <1>14, <1>15, <1>16, <1>17 DEF Desk, Applicant

\* Blocks, jobs and the clock preserve it too.
LEMMA WorkerInv ==
  ASSUME IInv, Blocks \/ Worker \/ Tick
  PROVE  IInv'
<1>. USE ConstantsAssumption DEF jobVars
<1>1. TypeOK'
  BY WorkerType DEF IInv
<1>2. ASSUME NEW b \in Block, NEW S \in Ranges, CreateBlock(b, S)
      PROVE  IInv'
  <2>1. NoDoubleBooking'
    BY <1>2 DEF IInv, TypeOK, NoDoubleBooking, CreateBlock, NoOverlap
  <2>2. OpenTxIsNew' /\ SlotMatchesStatus'
    BY <1>2 DEF IInv, OpenTxIsNew, SlotMatchesStatus, Matches, CreateBlock
  <2>. QED
    BY <1>1, <2>1, <2>2 DEF IInv
<1>3. ASSUME NEW b \in Block, DeleteBlock(b)
      PROVE  IInv'
  <2>1. NoDoubleBooking'
    <3>1. \A c \in Block : block'[c] \subseteq block[c]
      BY <1>3 DEF IInv, TypeOK, DeleteBlock
    <3>. QED
      BY <1>3, <3>1, ShrinkDisjoint DEF IInv, DeleteBlock
  <2>2. OpenTxIsNew' /\ SlotMatchesStatus'
    BY <1>3 DEF IInv, OpenTxIsNew, SlotMatchesStatus, Matches, DeleteBlock
  <2>. QED
    BY <1>1, <2>1, <2>2 DEF IInv
<1>4. CASE Tick \/ SelectDue \/ SelectOverdue
  BY <1>1, <1>4, TouchesNoSlot DEF Tick, SelectDue, SelectOverdue
<1>5. ASSUME NEW a \in App, ExpireDue(a)
      PROVE  IInv'
  BY <1>1, <1>5, OnlyExpires DEF ExpireDue
<1>6. ASSUME NEW a \in App, SkipLocked(a)
      PROVE  IInv'
  BY <1>1, <1>6, TouchesNoSlot DEF SkipLocked
<1>7. ASSUME NEW a \in App, ExpireRevision(a)
      PROVE  IInv'
  <2>1. CASE Overdue(a, revAt)
    <3>1. /\ status[a] # "none"
          /\ status' = [status EXCEPT ![a] = "closed_revision_expired"]
          /\ occ' = [occ EXCEPT ![a] = NoOcc]
          /\ block' = block /\ tx' = tx
      BY <1>7, <2>1 DEF ExpireRevision, Overdue
    <3>2. /\ occ \in [App -> Occupancy] /\ status \in [App -> Status]
          /\ Matches(status[a], occ[a])
      BY DEF IInv, TypeOK, SlotMatchesStatus
    <3>3. Matches(status'[a], occ'[a])
      BY <3>1, <3>2, MatchesAfter DEF Final
    <3>4. occ'[a].cells \subseteq occ[a].cells
      BY <3>1, <3>2 DEF NoOcc
    <3>. QED
      BY <1>1, <3>1, <3>2, <3>3, <3>4, OneApplication
  <2>2. CASE ~Overdue(a, revAt)
    BY <1>1, <1>7, <2>2, TouchesNoSlot DEF ExpireRevision
  <2>. QED
    BY <2>1, <2>2
<1>. QED
  BY <1>2, <1>3, <1>4, <1>5, <1>6, <1>7 DEF Blocks, Worker

\* The invariant holds at first and every step preserves it.
THEOREM Invariance == Spec => []IInv
<1>1. Init => IInv
  <2>. SUFFICES ASSUME Init PROVE IInv
    OBVIOUS
  <2>1. TypeOK
    BY NoOccType DEF Init, TypeOK, Status
  <2>2. SlotMatchesStatus
    BY DEF Init, SlotMatchesStatus, Matches, NoOcc, UnderReview, Managed
  <2>3. OpenTxIsNew /\ NoDoubleBooking
    BY DEF Init, OpenTxIsNew, NoDoubleBooking, NoOcc, NoTx
  <2>. QED
    BY <2>1, <2>2, <2>3 DEF IInv
<1>2. IInv /\ [Next]_vars => IInv'
  <2>. SUFFICES ASSUME IInv, [Next]_vars PROVE IInv'
    OBVIOUS
  <2>1. CASE UNCHANGED vars
    BY <2>1 DEF vars, IInv, TypeOK, OpenTxIsNew, NoDoubleBooking, SlotMatchesStatus, Matches
  <2>. QED
    BY <2>1, SubmissionInv, DeskInv, WorkerInv DEF Next
<1>. QED
  BY <1>1, <1>2, PTL DEF Spec

\* No cell is ever booked twice.
THEOREM Exclusion == Spec => []NoDoubleBooking
<1>1. IInv => NoDoubleBooking
  BY DEF IInv
<1>. QED
  BY <1>1, Invariance, PTL

\* Status and slot never get out of step.
THEOREM Agreement == Spec => []SlotMatchesStatus
<1>1. IInv => SlotMatchesStatus
  BY DEF IInv
<1>. QED
  BY <1>1, Invariance, PTL

-----------------------------------------------------------------------------
(* Who may expire a hold, close a revision or bring an application back:   *)
(* what happens to one application in one step, and from it the safety     *)
(* properties that are about money and time.                               *)

-----------------------------------------------------------------------------
(* The inductive invariant.                                                *)

\* Before an unpaid hold is settled its payment is ready, and an imported one
\* waits for a bank transfer.
HoldIsUnpaid ==
  \A a \in App :
    status[a] = "pending_payment" =>
      /\ pay[a] = "ready"
      /\ method[a] \in {"pg", "bank_transfer"}
      /\ imported[a] => method[a] = "bank_transfer"

\* Only what exists can have been imported.
NewIsNotImported == \A a \in App : status[a] = "none" => ~imported[a]

\* No two submissions expire the same hold.
OneHolder == \A a, b \in App : a # b => tx[a].lapsed \cap tx[b].lapsed = {}

\* What the expiry job has on its list is due, or was dealt with meanwhile; and
\* the time the revision job took is not ahead of the clock.
ListsAreDue ==
  /\ \A a \in due :
       /\ status[a] # "none"
       /\ status[a] = "pending_payment" => Expired(a, now)
  /\ revAt <= now

SInv ==
  /\ IInv
  /\ HoldIsUnpaid
  /\ NewIsNotImported
  /\ MoneyBeforeReview
  /\ OneHolder
  /\ LapsedStaysLapsed
  /\ ListsAreDue

-----------------------------------------------------------------------------
(* The five things that can happen to an application.                      *)

\* Nothing but time, a late payment or a move.
Stays(b) ==
  /\ status'[b] = status[b]
  /\ occ'[b].kind = occ[b].kind /\ occ'[b].expires = occ[b].expires
  /\ method'[b] = method[b] /\ imported'[b] = imported[b]
  /\ pay'[b] = pay[b] \/ (pay'[b] = "paid" /\ status[b] # "pending_payment")

\* It is submitted or imported.
Appears(b) ==
  /\ status[b] = "none"
  /\ \/ /\ status'[b] = "pending_payment" /\ pay'[b] = "ready"
        /\ method'[b] \in {"pg", "bank_transfer"}
        /\ imported'[b] => method'[b] = "bank_transfer"
     \/ status'[b] = "submitted" /\ pay'[b] = "paid"

\* Its unpaid hold expires, and no submission goes on relying on it.
Expires(b) ==
  /\ status[b] = "pending_payment" /\ Expired(b, now)
  /\ status'[b] = "payment_expired"
  /\ \A a \in App : b \notin tx'[a].lapsed

\* It takes a step of its life, which ends or goes on with the money there.
Proceeds(b) ==
  /\ b \notin Locked
  /\ status[b] \in {"pending_payment"} \cup UnderReview \cup Managed
  /\ \/ status'[b] \in UnderReview \cup Managed /\ pay'[b] = "paid"
     \/ status'[b] \in {"rejected", "withdrawn", "cancelled"}
     \/ status'[b] = "closed_revision_expired" /\ Overdue(b, now)

Vanishes(b) == b \notin Locked /\ status[b] # "none" /\ status'[b] = "deleted"

Evolves(b) == Stays(b) \/ Appears(b) \/ Expires(b) \/ Proceeds(b) \/ Vanishes(b)

\* A transaction that leaves status, slot, payment and origin alone.
LEMMA NothingHappens ==
  ASSUME NEW b \in App, UNCHANGED <<status, occ, method, pay, imported>>
  PROVE  Stays(b)
  BY DEF Stays

\* A hold that had lapsed by an earlier time has lapsed now.
LEMMA LapsedForGood ==
  ASSUME TypeOK, NEW b \in App, NEW t \in Time, t <= now, Expired(b, t)
  PROVE  Expired(b, now)
<1>1. occ[b].expires \in Nat \cup {-1} /\ now \in Nat
  BY DEF TypeOK, Occupancy
<1>. QED
  BY <1>1 DEF Expired

\* Expiring a set of lapsed, unpaid applications that nobody else relies on.
LEMMA ExpiredOrNot ==
  ASSUME SInv, NEW b \in App, NEW E,
         b \in E => Expired(b, now) /\ \A a \in App : b \notin tx'[a].lapsed
  PROVE  \/ /\ b \in E /\ status[b] = "pending_payment"
            /\ ExpireStatus(E)[b] = "payment_expired" /\ Expired(b, now)
            /\ \A a \in App : b \notin tx'[a].lapsed
         \/ /\ ExpireStatus(E)[b] = status[b]
            /\ ExpireOcc(E)[b] = occ[b]
            /\ ExpirePay(E)[b] = pay[b]
<1>1. status[b] = "pending_payment" <=> occ[b].kind = "pending_payment"
  BY DEF SInv, IInv, SlotMatchesStatus, Matches
<1>2. /\ ExpireStatus(E)[b] = IF b \in E /\ status[b] = "pending_payment" THEN "payment_expired" ELSE status[b]
      /\ ExpireOcc(E)[b] = IF b \in E /\ occ[b].kind = "pending_payment" THEN NoOcc ELSE occ[b]
      /\ ExpirePay(E)[b] = IF b \in E /\ status[b] = "pending_payment" /\ pay[b] = "ready" THEN "cancelled" ELSE pay[b]
  BY DEF ExpireStatus, ExpireOcc, ExpirePay
<1>. QED
  BY <1>1, <1>2

\* The parts of the invariant, for one application.
LEMMA Parts ==
  ASSUME SInv, NEW b \in App
  PROVE  /\ TypeOK
         /\ status[b] \in Status /\ occ[b] \in Occupancy /\ now \in Nat
         /\ Matches(status[b], occ[b])
         /\ status[b] = "pending_payment" => pay[b] = "ready"
         /\ status[b] \in UnderReview \cup Managed => pay[b] = "paid"
  BY DEF SInv, IInv, TypeOK, SlotMatchesStatus, HoldIsUnpaid, MoneyBeforeReview

-----------------------------------------------------------------------------
(* Submissions and imports.                                                *)

LEMMA SubmissionEvolves ==
  ASSUME SInv, Submission, NEW b \in App
  PROVE  Evolves(b)
<1>. USE ConstantsAssumption DEF Evolves
<1>1. TypeOK /\ now \in Nat
  BY Parts
<1>2. ASSUME NEW a \in App, NEW S \in Ranges, NEW t \in RecentTimes, SubmitCheck(a, S, t)
      PROVE  Evolves(b)
  BY <1>2, NothingHappens DEF SubmitCheck
<1>3. ASSUME NEW S \in Ranges, NEW t \in RecentTimes, SubmitRefused(S, t)
      PROVE  Evolves(b)
  <2>. DEFINE E == Lapsed(S, t)
  <2>1. b \in E => Expired(b, now) /\ \A a \in App : b \notin tx'[a].lapsed
    <3>1. t \in Nat /\ t <= now
      BY <1>1 DEF RecentTimes
    <3>2. E \cap Locked = {} /\ tx' = tx
      BY <1>3 DEF SubmitRefused
    <3>. QED
      BY <1>1, <3>1, <3>2, LapsedForGood DEF Lapsed, Locked
  <2>2. /\ status' = ExpireStatus(E) /\ occ' = ExpireOcc(E) /\ pay' = ExpirePay(E)
        /\ method' = method /\ imported' = imported
    BY <1>3 DEF SubmitRefused
  <2>. HIDE DEF E
  <2>. QED
    BY <2>1, <2>2, ExpiredOrNot DEF Stays, Expires
<1>4. ASSUME NEW a \in App, NEW m \in {"pg", "bank_transfer", "free"}, SubmitInsert(a, m)
      PROVE  Evolves(b)
  <2>. DEFINE E == tx[a].lapsed
  <2>1. /\ status[a] = "none" /\ tx[a] \in Tx /\ tx' = [tx EXCEPT ![a] = NoTx] /\ tx \in [App -> Tx]
    BY <1>1, <1>4 DEF SInv, IInv, OpenTxIsNew, SubmitInsert, TypeOK
  <2>2. b \in E => Expired(b, now) /\ \A c \in App : b \notin tx'[c].lapsed
    BY <2>1 DEF SInv, LapsedStaysLapsed, OneHolder, NoTx
  <2>3. CASE b = a
    <3>1. ~imported[a] /\ imported' = imported
      BY <1>4, <2>1 DEF SInv, NewIsNotImported, SubmitInsert
    <3>2. /\ status'[b] = IF m = "free" THEN "submitted" ELSE "pending_payment"
          /\ pay'[b] = IF m = "free" THEN "paid" ELSE "ready"
          /\ method'[b] = m
      BY <1>1, <1>4, <2>3, ExpireType DEF SubmitInsert, TypeOK
    <3>. QED
      BY <2>1, <2>3, <3>1, <3>2 DEF Appears
  <2>4. CASE b # a
    <3>1. /\ status'[b] = ExpireStatus(E)[b] /\ occ'[b] = ExpireOcc(E)[b] /\ pay'[b] = ExpirePay(E)[b]
          /\ method'[b] = method[b] /\ imported' = imported
      BY <1>1, <1>4, <2>4, ExpireType DEF SubmitInsert, TypeOK
    <3>. HIDE DEF E
    <3>. QED
      BY <2>2, <3>1, ExpiredOrNot DEF Stays, Expires
  <2>. QED
    BY <2>3, <2>4
<1>5. ASSUME NEW a \in App, SubmitConflict(a)
      PROVE  Evolves(b)
  BY <1>5, NothingHappens DEF SubmitConflict
<1>6. ASSUME NEW a \in App, NEW S \in Ranges, NEW e \in 0..MaxTime, ImportNotion(a, S, e)
      PROVE  Evolves(b)
  BY <1>1, <1>6 DEF ImportNotion, TypeOK, Appears, Stays
<1>. QED
  BY <1>2, <1>3, <1>4, <1>5, <1>6 DEF Submission

-----------------------------------------------------------------------------
(* The desk, the applicant and the administrator.                          *)

LEMMA DeskEvolves ==
  ASSUME SInv, NEW a \in App, Desk(a), NEW b \in App
  PROVE  Evolves(b)
<1>. USE DEF Evolves
<1>1. /\ TypeOK /\ status[a] \in Status
      /\ status[a] = "pending_payment" <=> occ[a].kind = "pending_payment"
      /\ status[a] \in UnderReview \cup Managed => pay[a] = "paid"
  BY Parts DEF Matches
<1>2. Free(a) => a \notin Locked
  BY DEF Free
\* Transactions that write the rows of a alone.
<1>3. ASSUME \A c \in App \ {a} :
               /\ status'[c] = status[c] /\ occ'[c] = occ[c] /\ pay'[c] = pay[c]
               /\ method'[c] = method[c] /\ imported'[c] = imported[c],
             Stays(a) \/ Proceeds(a) \/ Vanishes(a)
      PROVE  Evolves(b)
  BY <1>3 DEF Stays
<1>4. CASE ConfirmPayment(a)
  <2>1. CASE status[a] = "pending_payment"
    <3>1. Proceeds(a)
      BY <1>1, <1>2, <1>4, <2>1 DEF ConfirmPayment, Proceeds, TypeOK, UnderReview
    <3>. QED
      BY <1>1, <1>3, <1>4, <2>1, <3>1 DEF ConfirmPayment, Keep, TypeOK
  <2>2. CASE status[a] # "pending_payment"
    <3>1. Stays(a)
      BY <1>1, <1>4, <2>2 DEF ConfirmPayment, Stays, TypeOK
    <3>. QED
      BY <1>1, <1>3, <1>4, <2>2, <3>1 DEF ConfirmPayment, TypeOK
  <2>. QED
    BY <2>1, <2>2
<1>5. ASSUME NEW approve \in BOOLEAN, ConfirmDeposit(a, approve)
      PROVE  Evolves(b)
  <2>1. Proceeds(a)
    BY <1>1, <1>2, <1>5 DEF ConfirmDeposit, Proceeds, TypeOK, UnderReview, Managed
  <2>. QED
    BY <1>1, <1>3, <1>5, <2>1 DEF ConfirmDeposit, Keep, TypeOK
\* A transition within the review or within what is confirmed.
<1>6. ASSUME NEW t \in UnderReview \cup Managed, Move(a, t), t # "submitted",
             occ' = occ \/ occ' = [occ EXCEPT ![a].kind = "confirmed"],
             UNCHANGED <<method, pay, imported>>
      PROVE  Evolves(b)
  <2>1. status[a] \in UnderReview \cup Managed
    BY <1>1, <1>6 DEF Move, CanTransition, UnderReview, Managed
  <2>2. Proceeds(a)
    BY <1>1, <1>2, <1>6, <2>1 DEF Move, Proceeds, TypeOK
  <2>. QED
    BY <1>1, <1>3, <1>6, <2>2 DEF Move, TypeOK
\* A transition that ends the application.
<1>7. ASSUME NEW t \in {"rejected", "withdrawn", "cancelled"}, Release(a, t),
             \A c \in App \ {a} : pay'[c] = pay[c],
             UNCHANGED <<method, imported>>
      PROVE  Evolves(b)
  <2>1. status[a] \in {"pending_payment"} \cup UnderReview \cup Managed
    BY <1>1, <1>7 DEF Release, Move, CanTransition, UnderReview, Managed
  <2>2. Proceeds(a)
    BY <1>1, <1>2, <1>7, <2>1 DEF Release, Move, Proceeds, TypeOK
  <2>. QED
    BY <1>1, <1>3, <1>7, <2>2 DEF Release, Move, TypeOK
<1>8. CASE StartReview(a)
  BY <1>6, <1>8 DEF StartReview, UnderReview
<1>9. CASE RequestRevision(a)
  BY <1>6, <1>9 DEF RequestRevision, UnderReview
<1>10. CASE RejectApplication(a)
  BY <1>7, <1>10 DEF RejectApplication
<1>11. CASE ApproveApplication(a)
  BY <1>6, <1>11 DEF ApproveApplication, Managed
<1>12. CASE CancelConfirmed(a)
  BY <1>7, <1>12 DEF CancelConfirmed
<1>13. ASSUME NEW completed \in BOOLEAN, SetCompleted(a, completed)
       PROVE  Evolves(b)
  BY <1>6, <1>13 DEF SetCompleted, Managed
<1>14. CASE Withdraw(a)
  <2>1. \A c \in App \ {a} : pay'[c] = pay[c]
    BY <1>1, <1>14 DEF Withdraw, TypeOK
  <2>. QED
    BY <1>7, <1>14, <2>1 DEF Withdraw
<1>15. CASE SubmitRevision(a)
  BY <1>6, <1>15 DEF SubmitRevision, UnderReview
<1>16. ASSUME NEW S \in Ranges, AdminMove(a, S)
       PROVE  Evolves(b)
  <2>. DEFINE E == Lapsed(S, now)
  <2>1. E \cap Locked = {} /\ tx' = tx /\ ExpireOcc(E)[a].kind # "none"
    BY <1>16 DEF AdminMove
  <2>2. b \in E => Expired(b, now) /\ \A c \in App : b \notin tx'[c].lapsed
    BY <2>1 DEF Lapsed, Locked
  <2>3. /\ status' = ExpireStatus(E) /\ pay' = ExpirePay(E)
        /\ occ' = [ExpireOcc(E) EXCEPT ![a].cells = S]
        /\ method' = method /\ imported' = imported
    BY <1>16 DEF AdminMove
  <2>4. ExpireOcc(E) \in [App -> Occupancy]
    BY <1>1, ExpireType
  <2>5. occ'[b].kind = ExpireOcc(E)[b].kind /\ occ'[b].expires = ExpireOcc(E)[b].expires
    <3>1. occ' = [ExpireOcc(E) EXCEPT ![a] = [ExpireOcc(E)[a] EXCEPT !.cells = S]]
      BY <2>3
    <3>. HIDE DEF E
    <3>. QED
      BY <2>4, <3>1 DEF Occupancy
  <2>. HIDE DEF E
  <2>. QED
    BY <2>2, <2>3, <2>5, ExpiredOrNot DEF Stays, Expires
<1>17. CASE DeleteApplication(a)
  <2>1. Vanishes(a)
    BY <1>1, <1>2, <1>17 DEF DeleteApplication, Vanishes, Exists, TypeOK
  <2>. QED
    BY <1>1, <1>3, <1>17, <2>1 DEF DeleteApplication, TypeOK
<1>. QED
  BY <1>4, <1>5, <1>8, <1>9, <1>10, <1>11, <1>12, <1>13, <1>14, <1>15, <1>16, <1>17 DEF Desk, Applicant

-----------------------------------------------------------------------------
(* Blocks, jobs and the clock.                                             *)

LEMMA WorkerEvolves ==
  ASSUME SInv, Blocks \/ Worker \/ Tick, NEW b \in App
  PROVE  Evolves(b)
<1>. USE DEF Evolves
<1>1. CASE Blocks \/ Tick \/ SelectDue \/ SelectOverdue
  BY <1>1, NothingHappens DEF Blocks, CreateBlock, DeleteBlock, Tick, SelectDue, SelectOverdue
<1>2. ASSUME NEW a \in App, SkipLocked(a)
      PROVE  Evolves(b)
  BY <1>2, NothingHappens DEF SkipLocked
<1>3. ASSUME NEW a \in App, ExpireDue(a)
      PROVE  Evolves(b)
  <2>1. /\ a \in due /\ a \notin Locked
        /\ status' = ExpireStatus({a}) /\ occ' = ExpireOcc({a}) /\ pay' = ExpirePay({a})
        /\ UNCHANGED <<method, imported, tx>>
    BY <1>3 DEF ExpireDue, Free
  <2>2. CASE status[a] = "pending_payment"
    <3>1. b \in {a} => Expired(b, now) /\ \A c \in App : b \notin tx'[c].lapsed
      BY <2>1, <2>2 DEF SInv, ListsAreDue, Locked
    <3>. QED
      BY <2>1, <3>1, ExpiredOrNot DEF Stays, Expires
  <2>3. CASE status[a] # "pending_payment"
    <3>1. occ[a].kind # "pending_payment"
      BY <2>3, Parts DEF Matches
    <3>2. status'[b] = status[b] /\ occ'[b] = occ[b] /\ pay'[b] = pay[b]
      BY <2>1, <2>3, <3>1 DEF ExpireStatus, ExpireOcc, ExpirePay
    <3>. QED
      BY <2>1, <3>2 DEF Stays
  <2>. QED
    BY <2>2, <2>3
<1>4. ASSUME NEW a \in App, ExpireRevision(a)
      PROVE  Evolves(b)
  <2>1. CASE Overdue(a, revAt)
    <3>1. /\ status[a] = "revision_requested" /\ Overdue(a, now)
          /\ a \notin Locked
      <4>1. /\ deadline[a] \in Nat \cup {-1} /\ revAt \in Nat \cup {-1}
            /\ now \in Nat /\ revAt <= now
        BY DEF SInv, IInv, TypeOK, ListsAreDue
      <4>. QED
        BY <1>4, <2>1, <4>1 DEF Overdue, ExpireRevision, Free
    <3>2. /\ status' = [status EXCEPT ![a] = "closed_revision_expired"]
          /\ occ' = [occ EXCEPT ![a] = NoOcc]
          /\ UNCHANGED <<pay, method, imported>>
      BY <1>4, <2>1 DEF ExpireRevision
    <3>3. b = a => Proceeds(b)
      BY <3>1, <3>2, Parts DEF Proceeds, UnderReview, TypeOK
    <3>4. b # a => Stays(b)
      BY <3>2, Parts DEF Stays, TypeOK
    <3>. QED
      BY <3>3, <3>4
  <2>2. CASE ~Overdue(a, revAt)
    BY <1>4, <2>2, NothingHappens DEF ExpireRevision
  <2>. QED
    BY <2>1, <2>2
<1>. QED
  BY <1>1, <1>2, <1>3, <1>4 DEF Worker

\* Whatever the step, each application does one of the five.
LEMMA Evolution ==
  ASSUME SInv, Next, NEW b \in App
  PROVE  Evolves(b)
  BY SubmissionEvolves, DeskEvolves, WorkerEvolves DEF Next

-----------------------------------------------------------------------------
(* The invariant is inductive.                                             *)

\* Status and slot, from the proofs of ReservationProofs.
LEMMA StepIInv ==
  ASSUME IInv, [Next]_vars
  PROVE  IInv'
<1>1. CASE UNCHANGED vars
  BY <1>1 DEF vars, IInv, TypeOK, OpenTxIsNew, NoDoubleBooking, SlotMatchesStatus, Matches
<1>. QED
  BY <1>1, SubmissionInv, DeskInv, WorkerInv DEF Next

\* The clock never goes back.
LEMMA ClockIsMonotone ==
  ASSUME IInv, Next
  PROVE  now <= now'
<1>. USE DEF jobVars
<1>1. now \in Nat
  BY DEF IInv, TypeOK
<1>2. Submission => now' = now
  BY DEF Submission, SubmitCheck, SubmitRefused, SubmitInsert, SubmitConflict, ImportNotion
<1>3. ASSUME NEW a \in App, Desk(a)
      PROVE  now' = now
  BY <1>3 DEF Desk, Applicant, ConfirmPayment, ConfirmDeposit, StartReview, RequestRevision, RejectApplication,
       ApproveApplication, CancelConfirmed, SetCompleted, Withdraw, SubmitRevision, AdminMove, DeleteApplication
<1>4. Blocks \/ Worker => now' = now
  BY DEF Blocks, CreateBlock, DeleteBlock, Worker, SelectDue, SelectOverdue, ExpireDue, SkipLocked, ExpireRevision
<1>5. Tick => now' = now + 1
  BY DEF Tick
<1>. QED
  BY <1>1, <1>2, <1>3, <1>4, <1>5 DEF Next

\* A submission takes rows at its check, and nobody else does at any time.
LEMMA WhoLocks ==
  ASSUME IInv, Next
  PROVE  \/ \A a \in App : tx'[a].lapsed \subseteq tx[a].lapsed
         \/ \E a \in App, S \in Ranges, t \in RecentTimes : SubmitCheck(a, S, t)
<1>. USE DEF jobVars
<1>1. tx \in [App -> Tx]
  BY DEF IInv, TypeOK
<1>2. ASSUME NEW a \in App, tx' = [tx EXCEPT ![a] = NoTx]
      PROVE  \A b \in App : tx'[b].lapsed \subseteq tx[b].lapsed
  BY <1>1, <1>2 DEF NoTx
<1>3. CASE Submission
  BY <1>2, <1>3 DEF Submission, SubmitRefused, SubmitInsert, SubmitConflict, ImportNotion
<1>4. ASSUME NEW a \in App, Desk(a)
      PROVE  tx' = tx
  BY <1>4 DEF Desk, Applicant, ConfirmPayment, ConfirmDeposit, StartReview, RequestRevision, RejectApplication,
       ApproveApplication, CancelConfirmed, SetCompleted, Withdraw, SubmitRevision, AdminMove, DeleteApplication
<1>5. Blocks \/ Worker \/ Tick => tx' = tx
  BY DEF Blocks, CreateBlock, DeleteBlock, Worker, SelectDue, SelectOverdue, ExpireDue, SkipLocked,
       ExpireRevision, Tick
<1>. QED
  BY <1>3, <1>4, <1>5 DEF Next

\* The lists of the two jobs grow only when a job selects.
LEMMA WhoLists ==
  ASSUME Next
  PROVE  /\ due' \subseteq due \/ SelectDue
         /\ revAt' = revAt \/ (revAt' = now /\ now' = now)
<1>. USE DEF jobVars
<1>1. Submission => due' = due /\ revAt' = revAt
  BY DEF Submission, SubmitCheck, SubmitRefused, SubmitInsert, SubmitConflict, ImportNotion
<1>2. ASSUME NEW a \in App, Desk(a)
      PROVE  due' = due /\ revAt' = revAt
  BY <1>2 DEF Desk, Applicant, ConfirmPayment, ConfirmDeposit, StartReview, RequestRevision, RejectApplication,
       ApproveApplication, CancelConfirmed, SetCompleted, Withdraw, SubmitRevision, AdminMove, DeleteApplication
<1>3. Blocks \/ Tick => due' = due /\ revAt' = revAt
  BY DEF Blocks, CreateBlock, DeleteBlock, Tick
<1>4. CASE Worker
  BY <1>4 DEF Worker, SelectDue, SelectOverdue, ExpireDue, SkipLocked, ExpireRevision
<1>. QED
  BY <1>1, <1>2, <1>3, <1>4 DEF Next

\* An application that only stays has still lapsed, if it had.
LEMMA StillLapsed ==
  ASSUME IInv, NEW b \in App, Stays(b), Expired(b, now), now <= now', now' \in Nat
  PROVE  Expired(b, now)'
<1>1. occ[b].expires \in Nat \cup {-1} /\ now \in Nat
  BY DEF IInv, TypeOK, Occupancy
<1>. QED
  BY <1>1 DEF Stays, Expired

\* Every step keeps the whole invariant.
LEMMA StepSInv ==
  ASSUME SInv, Next
  PROVE  SInv'
<1>1. IInv /\ IInv' /\ now <= now' /\ now' \in Nat
  BY StepIInv, ClockIsMonotone DEF SInv, IInv, TypeOK
<1>2. \A b \in App : Evolves(b)
  BY Evolution
<1>3. HoldIsUnpaid'
  BY <1>2 DEF SInv, HoldIsUnpaid, Evolves, Stays, Appears, Expires, Proceeds, Vanishes, UnderReview, Managed
<1>4. NewIsNotImported'
  BY <1>2 DEF SInv, NewIsNotImported, Evolves, Stays, Appears, Expires, Proceeds, Vanishes, UnderReview, Managed
<1>5. MoneyBeforeReview'
  BY <1>2 DEF SInv, MoneyBeforeReview, Evolves, Stays, Appears, Expires, Proceeds, Vanishes, UnderReview, Managed
<1>6. OneHolder' /\ LapsedStaysLapsed'
  <2>1. CASE \A a \in App : tx'[a].lapsed \subseteq tx[a].lapsed
    <3>1. OneHolder'
      BY <2>1 DEF SInv, OneHolder
    <3>2. ASSUME NEW a \in App, NEW b \in App, b \in tx'[a].lapsed
          PROVE  Expired(b, now)' /\ status'[b] = "pending_payment" /\ pay'[b] # "paid"
      <4>1. b \in Locked /\ status[b] = "pending_payment" /\ pay[b] # "paid" /\ Expired(b, now)
        BY <2>1, <3>2 DEF SInv, LapsedStaysLapsed, Locked
      <4>2. Stays(b)
        BY <1>2, <3>2, <4>1 DEF Evolves, Appears, Expires, Proceeds, Vanishes
      <4>. QED
        BY <1>1, <4>1, <4>2, StillLapsed DEF Stays
    <3>. QED
      BY <3>1, <3>2 DEF LapsedStaysLapsed
  <2>2. ASSUME NEW a \in App, NEW S \in Ranges, NEW t \in RecentTimes, SubmitCheck(a, S, t)
        PROVE  OneHolder' /\ LapsedStaysLapsed'
    <3>1. /\ tx \in [App -> Tx] /\ now \in Nat /\ now' = now /\ status' = status /\ pay' = pay
          /\ occ' = occ /\ method' = method /\ imported' = imported
          /\ Lapsed(S, t) \cap Locked = {}
          /\ tx' = [tx EXCEPT ![a] = [open |-> TRUE, cells |-> S, at |-> t, lapsed |-> Lapsed(S, t)]]
      BY <1>1, <2>2 DEF SubmitCheck, IInv, TypeOK
    <3>2. \A b \in App : tx'[b].lapsed = IF b = a THEN Lapsed(S, t) ELSE tx[b].lapsed
      BY <3>1
    <3>3. OneHolder'
      BY <3>1, <3>2 DEF SInv, OneHolder, Locked
    <3>4. ASSUME NEW b \in Lapsed(S, t)
          PROVE  Expired(b, now) /\ status[b] = "pending_payment" /\ pay[b] # "paid"
      <4>1. b \in App /\ Expired(b, t)
        BY <3>4 DEF Lapsed
      <4>2. t \in Nat /\ t <= now
        BY ConstantsAssumption, <3>1 DEF RecentTimes
      <4>3. Expired(b, now)
        BY <1>1, <4>1, <4>2, LapsedForGood DEF IInv
      <4>. QED
        BY <4>1, <4>3, Parts DEF Expired, Matches
    <3>5. LapsedStaysLapsed'
      BY <3>1, <3>2, <3>4 DEF SInv, LapsedStaysLapsed, Expired
    <3>. QED
      BY <3>3, <3>5
  <2>. QED
    BY <1>1, <2>1, <2>2, WhoLocks
<1>7. ListsAreDue'
  <2>1. revAt' <= now'
    <3>1. revAt <= now /\ revAt \in Nat \cup {-1} /\ now \in Nat
      BY DEF SInv, ListsAreDue, IInv, TypeOK
    <3>. QED
      BY <1>1, <3>1, WhoLists
  <2>2. ASSUME NEW b \in App, b \in due'
        PROVE  status'[b] # "none" /\ (status'[b] = "pending_payment" => Expired(b, now)')
    <3>1. CASE b \in due
      <4>1. status[b] # "none" /\ (status[b] = "pending_payment" => Expired(b, now))
        BY <3>1 DEF SInv, ListsAreDue
      <4>2. CASE Stays(b)
        BY <1>1, <4>1, <4>2, StillLapsed DEF Stays
      <4>3. CASE ~Stays(b)
        BY <1>2, <4>1, <4>3 DEF Evolves, Appears, Expires, Proceeds, Vanishes, UnderReview, Managed
      <4>. QED
        BY <4>2, <4>3
    <3>2. CASE SelectDue
      <4>1. Expired(b, now) /\ status'[b] = status[b] /\ (Expired(b, now)' <=> Expired(b, now))
        BY <2>2, <3>2 DEF SelectDue, Expired
      <4>. QED
        BY <4>1, Parts DEF Expired, Matches
    <3>. QED
      BY <2>2, <3>1, <3>2, WhoLists
  <2>. QED
    BY <1>1, <2>1, <2>2 DEF ListsAreDue, IInv, TypeOK
<1>. QED
  BY <1>1, <1>3, <1>4, <1>5, <1>6, <1>7 DEF SInv

-----------------------------------------------------------------------------
(* The theorems.                                                           *)

\* The strengthened invariant holds in every reachable state.
THEOREM SafetyInvariance == Spec => []SInv
<1>1. Init => SInv
  <2>. SUFFICES ASSUME Init PROVE SInv
    OBVIOUS
  <2>1. IInv
    <3>1. TypeOK
      BY NoOccType DEF Init, TypeOK, Status
    <3>2. SlotMatchesStatus
      BY DEF Init, SlotMatchesStatus, Matches, NoOcc, UnderReview, Managed
    <3>. QED
      BY <3>1, <3>2 DEF IInv, Init, OpenTxIsNew, NoDoubleBooking, NoOcc, NoTx
  <2>2. HoldIsUnpaid /\ NewIsNotImported /\ MoneyBeforeReview
    BY DEF Init, HoldIsUnpaid, NewIsNotImported, MoneyBeforeReview, UnderReview, Managed
  <2>3. OneHolder /\ LapsedStaysLapsed /\ ListsAreDue
    BY DEF Init, OneHolder, LapsedStaysLapsed, ListsAreDue, NoTx
  <2>. QED
    BY <2>1, <2>2, <2>3 DEF SInv
<1>2. SInv /\ [Next]_vars => SInv'
  <2>. SUFFICES ASSUME SInv, [Next]_vars PROVE SInv'
    OBVIOUS
  <2>1. CASE UNCHANGED vars
    <3>1. IInv'
      BY StepIInv DEF SInv
    <3>. QED
      BY <2>1, <3>1 DEF vars, SInv, HoldIsUnpaid, NewIsNotImported, MoneyBeforeReview, OneHolder,
           LapsedStaysLapsed, ListsAreDue, Expired
  <2>. QED
    BY <2>1, StepSInv
<1>. QED
  BY <1>1, <1>2, PTL DEF Spec

\* Nobody is under review or confirmed without having paid.
THEOREM PaidBeforeReview == Spec => []MoneyBeforeReview
<1>1. SInv => MoneyBeforeReview
  BY DEF SInv
<1>. QED
  BY <1>1, SafetyInvariance, PTL

\* A submission's commit takes slots only from holds that have lapsed.
THEOREM LapsedUntilCommit == Spec => []LapsedStaysLapsed
<1>1. SInv => LapsedStaysLapsed
  BY DEF SInv
<1>. QED
  BY <1>1, SafetyInvariance, PTL

\* What the calendar shows as free, the next submission can take.
THEOREM FreeIsBookable == Spec => []ShownFreeIsBookable
<1>1. SInv => ShownFreeIsBookable
  <2>. SUFFICES ASSUME SInv, NEW a \in App, occ[a].kind # "none", ~Busy(a, now)
                PROVE  Expired(a, now)
    BY DEF ShownFreeIsBookable
  <2>1. /\ occ[a].expires # -1 /\ ~(occ[a].expires > now) /\ method[a] # "bank_transfer"
    BY DEF Busy
  <2>2. occ[a].expires \in Nat \cup {-1} /\ now \in Nat /\ imported[a] \in BOOLEAN
    BY DEF SInv, IInv, TypeOK, Occupancy
  <2>3. occ[a].kind = "pending_payment" /\ status[a] = "pending_payment"
    BY <2>1, Parts DEF Matches
  <2>4. ~imported[a]
    BY <2>1, <2>3 DEF SInv, HoldIsUnpaid
  <2>. QED
    BY <2>1, <2>2, <2>3, <2>4 DEF Expired
<1>. QED
  BY <1>1, SafetyInvariance, PTL

\* Only an unpaid PG hold whose time is over is expired automatically.
THEOREM ExpiryDeserved == Spec => ExpiryIsDeserved
<1>. DEFINE Step == \A a \in App :
       status'[a] = "payment_expired" /\ status[a] # "payment_expired"
         => /\ status[a] = "pending_payment" /\ method[a] = "pg"
            /\ ~imported[a] /\ pay[a] # "paid"
            /\ occ[a].expires <= now
<1>1. SInv /\ [Next]_vars => [Step]_vars
  <2>. SUFFICES ASSUME SInv, Next, NEW a \in App,
                       status'[a] = "payment_expired", status[a] # "payment_expired"
                PROVE  /\ status[a] = "pending_payment" /\ method[a] = "pg"
                       /\ ~imported[a] /\ pay[a] # "paid"
                       /\ occ[a].expires <= now
    OBVIOUS
  <2>1. Expires(a)
    BY Evolution DEF Evolves, Stays, Appears, Proceeds, Vanishes, UnderReview, Managed
  <2>. QED
    BY <2>1 DEF Expires, Expired, SInv, HoldIsUnpaid
<1>. QED
  BY <1>1, SafetyInvariance, PTL DEF Spec, ExpiryIsDeserved

\* The revision job closes only what is, at that moment, an overdue revision.
THEOREM ClosureDeserved == Spec => ClosureIsDeserved
<1>. DEFINE Step == \A a \in App :
       status'[a] = "closed_revision_expired" /\ status[a] # "closed_revision_expired"
         => status[a] = "revision_requested" /\ deadline[a] <= now
<1>1. SInv /\ [Next]_vars => [Step]_vars
  <2>. SUFFICES ASSUME SInv, Next, NEW a \in App,
                       status'[a] = "closed_revision_expired", status[a] # "closed_revision_expired"
                PROVE  status[a] = "revision_requested" /\ deadline[a] <= now
    OBVIOUS
  <2>1. Overdue(a, now)
    BY Evolution DEF Evolves, Stays, Appears, Expires, Proceeds, Vanishes, UnderReview, Managed
  <2>. QED
    BY <2>1 DEF Overdue
<1>. QED
  BY <1>1, SafetyInvariance, PTL DEF Spec, ClosureIsDeserved

\* An application that ended never comes back and never holds a slot again.
THEOREM FinalStaysFinal == Spec => FinalIsFinal
<1>. DEFINE Step == \A a \in App :
       status[a] \in Final => status'[a] \in {status[a], "deleted"} /\ occ'[a].cells = {}
<1>1. SInv /\ [Next]_vars => [Step]_vars
  <2>. SUFFICES ASSUME SInv, Next, NEW a \in App, status[a] \in Final
                PROVE  status'[a] \in {status[a], "deleted"} /\ occ'[a].cells = {}
    OBVIOUS
  <2>1. status'[a] \in {status[a], "deleted"}
    BY Evolution DEF Final, Evolves, Stays, Appears, Expires, Proceeds, Vanishes, UnderReview, Managed
  <2>2. Matches(status'[a], occ'[a]) /\ occ'[a] \in Occupancy
    BY StepIInv DEF SInv, IInv, TypeOK, SlotMatchesStatus
  <2>. QED
    BY <2>1, <2>2 DEF Final, Matches, Occupancy, Kind, UnderReview, Managed
<1>. QED
  BY <1>1, SafetyInvariance, PTL DEF Spec, FinalIsFinal

-----------------------------------------------------------------------------
(* Reservation implements SlotLedger: whatever its transactions do to the  *)
(* tables, the slots change hands only as the ledger allows.               *)

-----------------------------------------------------------------------------
(* The abstract steps, in terms of the tables.                             *)

\* The ledger's step, or none.
LedgerStep == Ledger!Next \/ UNCHANGED Ledger!vars

\* An application not touched has lapsed if it had.
SameHold(b) ==
  /\ occ'[b].kind = occ[b].kind /\ occ'[b].expires = occ[b].expires
  /\ method'[b] = method[b] /\ imported'[b] = imported[b]

\* No slot moves and no hold lapses or is made good.
LEMMA NoStep ==
  ASSUME \A b \in App : SameHold(b) /\ occ'[b].cells = occ[b].cells,
         block' = block, now' = now
  PROVE  LedgerStep
<1>1. \A b \in App : Expired(b, now)' <=> Expired(b, now)
  BY DEF SameHold, Expired
<1>. QED
  BY <1>1 DEF LedgerStep, Ledger!vars

\* An application takes cells, or gives its own up, and E is expired.
LEMMA AssignStep ==
  ASSUME NEW a \in App, NEW S \in SUBSET Cell, NEW E \in SUBSET App,
         a \notin E, \A b \in E : Expired(b, now),
         NoOverlap(a, S, ExpireOcc(E)),
         \A b \in App \ {a} : /\ occ'[b] = ExpireOcc(E)[b]
                              /\ method'[b] = method[b] /\ imported'[b] = imported[b],
         occ'[a].cells = S, block' = block, now' = now
  PROVE  LedgerStep
<1>1. \A b \in App : ExpireOcc(E)[b] = IF b \in E /\ occ[b].kind = "pending_payment" THEN NoOcc ELSE occ[b]
  BY DEF ExpireOcc
<1>2. \A b \in E : ExpireOcc(E)[b] = NoOcc
  BY <1>1 DEF Expired
<1>3. \A b \in App \ E : ExpireOcc(E)[b] = occ[b]
  BY <1>1
<1>4. \A b \in App \ {a} : Expired(b, now)' => Expired(b, now) /\ b \notin E
  BY <1>2, <1>3 DEF Expired, NoOcc
<1>5. Ledger!Assign(a, S, E)
  <2>1. \A p \in (App \cup Block) \ (E \cup {a}) : (IF p \in App THEN occ[p].cells ELSE block[p]) \cap S = {}
    BY <1>3 DEF NoOverlap
  <2>2. \A p \in App \cup Block :
          (IF p \in App THEN occ'[p].cells ELSE block'[p])
            = IF p = a THEN S ELSE IF p \in E THEN {} ELSE IF p \in App THEN occ[p].cells ELSE block[p]
    BY <1>2, <1>3 DEF NoOcc
  <2>3. {b \in App : Expired(b, now)'} \subseteq ({b \in App : Expired(b, now)} \ E) \cup {a}
    BY <1>4
  <2>4. E \subseteq {b \in App : Expired(b, now)} \ {a}
    OBVIOUS
  <2>. QED
    BY <2>1, <2>2, <2>3, <2>4 DEF Ledger!Assign
<1>. QED
  BY <1>5 DEF LedgerStep, Ledger!Next

\* The application gives its slot up.
LEMMA ReleaseStep ==
  ASSUME TypeOK, NEW a \in App, occ' = [occ EXCEPT ![a] = NoOcc],
         \A b \in App \ {a} : method'[b] = method[b] /\ imported'[b] = imported[b],
         block' = block, now' = now
  PROVE  LedgerStep
<1>1. \A b \in App \ {a} : occ'[b] = ExpireOcc({})[b]
  BY DEF TypeOK, ExpireOcc
<1>2. NoOverlap(a, {}, ExpireOcc({}))
  BY DEF NoOverlap
<1>3. occ'[a].cells = {}
  BY DEF TypeOK, NoOcc
<1>. QED
  BY <1>1, <1>2, <1>3, AssignStep

\* Lapsed holds are cleared away.
LEMMA SweepStep ==
  ASSUME NEW E \in SUBSET App, \A b \in E : Expired(b, now),
         occ' = ExpireOcc(E), UNCHANGED <<method, imported, block, now>>
  PROVE  LedgerStep
<1>1. \A b \in E : occ'[b] = NoOcc
  BY DEF ExpireOcc, Expired
<1>2. \A b \in App \ E : occ'[b] = occ[b]
  BY DEF ExpireOcc
<1>3. \A b \in App : Expired(b, now)' <=> Expired(b, now) /\ b \notin E
  BY <1>1, <1>2 DEF Expired, NoOcc
<1>4. Ledger!Sweep(E)
  <2>1. \A p \in App \cup Block :
          (IF p \in App THEN occ'[p].cells ELSE block'[p])
            = IF p \in E THEN {} ELSE IF p \in App THEN occ[p].cells ELSE block[p]
    BY <1>1, <1>2 DEF NoOcc
  <2>. QED
    BY <1>3, <2>1 DEF Ledger!Sweep
<1>. QED
  BY <1>4 DEF LedgerStep, Ledger!Next

\* A hold is made good.
LEMMA FirmStep ==
  ASSUME TypeOK, NEW a \in App, NEW k, occ' = Keep(a, k), UNCHANGED <<method, imported, block, now>>
  PROVE  LedgerStep
<1>1. /\ occ'[a].cells = occ[a].cells /\ occ'[a].expires = NoTime
      /\ \A b \in App \ {a} : occ'[b] = occ[b]
  BY DEF TypeOK, Keep
<1>2. \A b \in App : Expired(b, now)' <=> Expired(b, now) /\ b # a
  BY <1>1 DEF Expired
<1>3. Ledger!Firm(a)
  BY <1>1, <1>2 DEF Ledger!Firm
<1>. QED
  BY <1>3 DEF LedgerStep, Ledger!Next

-----------------------------------------------------------------------------
(* Every step of Reservation is one of them.                               *)

LEMMA SubmissionStep ==
  ASSUME SInv, Submission
  PROVE  LedgerStep
<1>. USE ConstantsAssumption
<1>1. TypeOK /\ now \in Nat
  BY DEF SInv, IInv, TypeOK
<1>2. ASSUME NEW a \in App, NEW S \in Ranges, NEW t \in RecentTimes, SubmitCheck(a, S, t)
      PROVE  LedgerStep
  BY <1>2, NoStep DEF SubmitCheck, SameHold
<1>3. ASSUME NEW S \in Ranges, NEW t \in RecentTimes, SubmitRefused(S, t)
      PROVE  LedgerStep
  <2>1. \A b \in Lapsed(S, t) : Expired(b, now)
    BY <1>1, LapsedForGood DEF Lapsed, RecentTimes
  <2>2. Lapsed(S, t) \in SUBSET App
    BY DEF Lapsed
  <2>. QED
    BY <1>3, <2>1, <2>2, SweepStep DEF SubmitRefused
<1>4. ASSUME NEW a \in App, NEW m \in {"pg", "bank_transfer", "free"}, SubmitInsert(a, m)
      PROVE  LedgerStep
  <2>. DEFINE E == tx[a].lapsed
              S == tx[a].cells
  <2>1. /\ tx[a].open /\ tx[a] \in Tx /\ NoOverlap(a, S, ExpireOcc(E))
        /\ method' = [method EXCEPT ![a] = m]
        /\ imported' = imported /\ block' = block /\ now' = now
    BY <1>1, <1>4 DEF SubmitInsert, TypeOK
  <2>2. S \in SUBSET Cell /\ E \in SUBSET App
    BY <2>1 DEF Tx
  <2>3. a \notin E /\ \A b \in E : Expired(b, now)
    BY <2>1, <2>2 DEF SInv, IInv, OpenTxIsNew, LapsedStaysLapsed
  <2>4. /\ \A b \in App \ {a} : occ'[b] = ExpireOcc(E)[b]
        /\ occ'[a].cells = S
    BY <1>1, <1>4, ExpireType DEF SubmitInsert
  <2>5. \A b \in App \ {a} : method'[b] = method[b] /\ imported'[b] = imported[b]
    BY <1>1, <2>1 DEF TypeOK
  <2>. HIDE DEF E, S
  <2>. QED
    BY <2>1, <2>2, <2>3, <2>4, <2>5, AssignStep
<1>5. ASSUME NEW a \in App, SubmitConflict(a)
      PROVE  LedgerStep
  BY <1>5, NoStep DEF SubmitConflict, SameHold
<1>6. ASSUME NEW a \in App, NEW S \in Ranges, NEW e \in 0..MaxTime, ImportNotion(a, S, e)
      PROVE  LedgerStep
  <2>1. ExpireOcc({}) = occ
    BY <1>1 DEF ExpireOcc, TypeOK
  <2>2. /\ NoOverlap(a, S, ExpireOcc({})) /\ S \in SUBSET Cell
        /\ \A b \in App \ {a} : /\ occ'[b] = ExpireOcc({})[b]
                                /\ method'[b] = method[b] /\ imported'[b] = imported[b]
        /\ occ'[a].cells = S /\ block' = block /\ now' = now
    BY <1>1, <1>6, <2>1 DEF ImportNotion, TypeOK
  <2>. QED
    BY <2>2, AssignStep
<1>. QED
  BY <1>2, <1>3, <1>4, <1>5, <1>6 DEF Submission

LEMMA DeskStep ==
  ASSUME SInv, NEW a \in App, Desk(a)
  PROVE  LedgerStep
<1>1. TypeOK
  BY DEF SInv, IInv
<1>2. CASE ConfirmPayment(a)
  BY <1>1, <1>2, FirmStep, NoStep DEF ConfirmPayment, SameHold
<1>3. ASSUME NEW approve \in BOOLEAN, ConfirmDeposit(a, approve)
      PROVE  LedgerStep
  BY <1>1, <1>3, FirmStep DEF ConfirmDeposit
<1>4. StartReview(a) \/ RequestRevision(a) \/ SubmitRevision(a) => LedgerStep
  BY NoStep DEF StartReview, RequestRevision, SubmitRevision, SameHold
<1>5. ASSUME NEW completed \in BOOLEAN, SetCompleted(a, completed)
      PROVE  LedgerStep
  BY <1>5, NoStep DEF SetCompleted, SameHold
<1>6. RejectApplication(a) \/ CancelConfirmed(a) \/ Withdraw(a) => LedgerStep
  BY <1>1, ReleaseStep DEF RejectApplication, CancelConfirmed, Withdraw, Release
<1>7. CASE ApproveApplication(a)
  <2>1. /\ occ' = [occ EXCEPT ![a] = [occ[a] EXCEPT !.kind = "confirmed"]]
        /\ occ[a].kind = "held" /\ occ[a] \in Occupancy
        /\ UNCHANGED <<method, imported, block, now>>
    BY <1>1, <1>7 DEF ApproveApplication, TypeOK
  <2>2. \A b \in App : /\ occ'[b].cells = occ[b].cells
                       /\ Expired(b, now)' <=> Expired(b, now)
    BY <1>1, <2>1 DEF TypeOK, Expired, Occupancy
  <2>. QED
    BY <2>1, <2>2 DEF LedgerStep, Ledger!vars
<1>8. ASSUME NEW S \in Ranges, AdminMove(a, S)
      PROVE  LedgerStep
  <2>. DEFINE E == Lapsed(S, now)
  <2>1. /\ ExpireOcc(E)[a].kind # "none" /\ NoOverlap(a, S, ExpireOcc(E))
        /\ occ' = [ExpireOcc(E) EXCEPT ![a] = [ExpireOcc(E)[a] EXCEPT !.cells = S]]
        /\ UNCHANGED <<method, imported, block, now>>
    BY <1>8 DEF AdminMove
  <2>2. S \in SUBSET Cell /\ E \in SUBSET App /\ \A b \in E : Expired(b, now)
    BY ConstantsAssumption DEF Lapsed
  <2>3. ExpireOcc(E) \in [App -> Occupancy]
    BY <1>1, ExpireType
  <2>. HIDE DEF E
  <2>4. a \notin E
    BY <2>1, <2>2 DEF Expired, ExpireOcc, NoOcc
  <2>5. /\ \A b \in App \ {a} : occ'[b] = ExpireOcc(E)[b]
        /\ occ'[a].cells = S
    BY <2>1, <2>3 DEF Occupancy
  <2>. QED
    BY <2>1, <2>2, <2>4, <2>5, AssignStep
<1>9. CASE DeleteApplication(a)
  <2>1. \A b \in App \ {a} : method'[b] = method[b] /\ imported'[b] = imported[b]
    BY <1>1, <1>9 DEF DeleteApplication, TypeOK
  <2>. QED
    BY <1>1, <1>9, <2>1, ReleaseStep DEF DeleteApplication
<1>. QED
  BY <1>2, <1>3, <1>4, <1>5, <1>6, <1>7, <1>8, <1>9 DEF Desk, Applicant

LEMMA WorkerStep ==
  ASSUME SInv, Blocks \/ Worker \/ Tick
  PROVE  LedgerStep
<1>. USE ConstantsAssumption
<1>1. TypeOK
  BY DEF SInv, IInv
\* A block comes or goes.
<1>2. ASSUME NEW b \in Block, NEW S \in SUBSET Cell, block' = [block EXCEPT ![b] = S],
             S = {} \/ NoOverlap(b, S, occ), UNCHANGED <<occ, method, imported, now>>
      PROVE  LedgerStep
  <2>1. \A a \in App : a # b /\ (Expired(a, now)' <=> Expired(a, now))
    BY <1>2 DEF Expired
  <2>2. \A p \in (App \cup Block) \ ({} \cup {b}) : (IF p \in App THEN occ[p].cells ELSE block[p]) \cap S = {}
    BY <1>2, <2>1 DEF NoOverlap
  <2>3. \A p \in App \cup Block :
          (IF p \in App THEN occ'[p].cells ELSE block'[p])
            = IF p = b THEN S ELSE IF p \in {} THEN {} ELSE IF p \in App THEN occ[p].cells ELSE block[p]
    BY <1>1, <1>2, <2>1 DEF TypeOK
  <2>4. Ledger!Assign(b, S, {})
    BY <2>1, <2>2, <2>3 DEF Ledger!Assign
  <2>. QED
    BY <2>4 DEF LedgerStep, Ledger!Next
<1>3. CASE Blocks
  BY <1>2, <1>3 DEF Blocks, CreateBlock, DeleteBlock
<1>4. CASE Tick
  <2>1. /\ now \in Nat /\ now' = now + 1
        /\ UNCHANGED <<occ, method, imported, block>>
    BY <1>1, <1>4 DEF Tick, TypeOK
  <2>2. \A a \in App : Expired(a, now) => Expired(a, now)'
    BY <1>1, <2>1 DEF TypeOK, Expired, Occupancy
  <2>3. Ledger!Lapse
    BY <2>1, <2>2 DEF Ledger!Lapse
  <2>. QED
    BY <2>3 DEF LedgerStep, Ledger!Next
<1>5. SelectDue \/ SelectOverdue => LedgerStep
  BY NoStep DEF SelectDue, SelectOverdue, SameHold
<1>6. ASSUME NEW a \in App, SkipLocked(a)
      PROVE  LedgerStep
  BY <1>6, NoStep DEF SkipLocked, SameHold
<1>7. ASSUME NEW a \in App, ExpireDue(a)
      PROVE  LedgerStep
  <2>1. a \in due /\ occ' = ExpireOcc({a}) /\ UNCHANGED <<method, imported, block, now>>
    BY <1>7 DEF ExpireDue
  <2>2. CASE status[a] = "pending_payment"
    BY <2>1, <2>2, SweepStep DEF SInv, ListsAreDue
  <2>3. CASE status[a] # "pending_payment"
    <3>1. occ' = occ
      BY <1>1, <2>1, <2>3, Parts DEF ExpireOcc, Matches, TypeOK
    <3>. QED
      BY <2>1, <3>1, NoStep DEF SameHold
  <2>. QED
    BY <2>2, <2>3
<1>8. ASSUME NEW a \in App, ExpireRevision(a)
      PROVE  LedgerStep
  BY <1>1, <1>8, ReleaseStep, NoStep DEF ExpireRevision, SameHold
<1>. QED
  BY <1>3, <1>4, <1>5, <1>6, <1>7, <1>8 DEF Worker

\* Reservation implements the ledger: claims never overlap, and a slot changes
\* hands only by a release or from a lapsed unpaid hold.
THEOREM Refinement == Spec => LedgerSpec
<1>1. Init => Ledger!Init
  <2>. SUFFICES ASSUME Init PROVE Ledger!Init
    OBVIOUS
  <2>1. \A o \in App \cup Block : (IF o \in App THEN occ[o].cells ELSE block[o]) = {}
    BY DEF Init, NoOcc
  <2>2. \A a \in App : ~Expired(a, now)
    BY DEF Init, NoOcc, Expired
  <2>. QED
    BY <2>1, <2>2 DEF Ledger!Init
<1>2. SInv /\ [Next]_vars => [Ledger!Next]_(Ledger!vars)
  <2>. SUFFICES ASSUME SInv, [Next]_vars PROVE LedgerStep
    BY DEF LedgerStep
  <2>1. CASE UNCHANGED vars
    BY <2>1, NoStep DEF vars, SameHold
  <2>. QED
    BY <2>1, SubmissionStep, DeskStep, WorkerStep DEF Next
<1>. QED
  BY <1>1, <1>2, SafetyInvariance, PTL DEF Spec, LedgerSpec, Ledger!Spec
=============================================================================
