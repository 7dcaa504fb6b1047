---------------------------- MODULE NotionImport ----------------------------
(***************************************************************************)
(* The import of the applications kept in Notion (scripts/import-notion.ts,*)
(* server/import/notion.ts), run again and again, sometimes from two       *)
(* consoles, while staff correct the pages and work on what was imported.  *)
(*                                                                         *)
(* A run reads the pages and then works in one transaction: it looks up    *)
(* which references exist, and inserts the others one after the other,     *)
(* approved pages first.  Inserting takes the row of the month's counter   *)
(* until the transaction ends; a row whose slot is taken is rolled back    *)
(* alone; a reference that came into being meanwhile ends the whole run.   *)
(***************************************************************************)
EXTENDS OrgLimits

CONSTANTS
  Page,      \* pages in Notion
  Hall,      \* spaces
  Start,     \* starting times, in slots
  Length,    \* slots that a booking occupies
  Console,   \* imports running at the same time
  MaxEdits   \* bound: corrections, of pages and of what was imported

ASSUME ImportBounds == Start \subseteq Nat /\ Length \in Nat \ {0} /\ MaxEdits \in Nat

ASSUME HallsAreFinite == IsFiniteSet(Hall)

\* A row of nobody's is committed.
ASSUME NobodyIsNoConsole == "nobody" \notin Console

VARIABLES
  importing,  \* which of the two parts of a run is at work: this one, or OrgLimits
  notion,     \* notion[p]: the page as it is now
  edits,      \* corrections of staff so far
  shapes,     \* history: whether a page has named one hall, several, or both
  rows,       \* the imported applications, uncommitted ones included
  run         \* run[c]: the import at console c

importVars == <<importing, notion, edits, shapes, rows, run>>

allVars == <<vars, importVars>>

-----------------------------------------------------------------------------
\* A page that cannot be mapped names no hall that is known, or has no times.
Versions == [status : {"approved", "waiting", "refused"}, at : Start, halls : SUBSET Hall]

Shape(v) == CASE Cardinality(v.halls) = 0 -> {} [] Cardinality(v.halls) = 1 -> {"one"} [] OTHER -> {"several"}

NoRun == [pc |-> "none"]

ImportInit ==
  /\ importing \in BOOLEAN
  /\ notion \in IF importing THEN [Page -> {v \in Versions : v.halls # {} /\ v.status = "waiting"}] ELSE {<<>>}
  /\ edits = 0
  /\ shapes = [p \in DOMAIN notion |-> Shape(notion[p])]
  /\ rows = {}
  /\ run = [c \in Console |-> NoRun]

-----------------------------------------------------------------------------
\* Staff correct a page: its state, its time, or its halls.
EditPage(p) ==
  /\ edits < MaxEdits
  /\ \E v \in Versions :
       /\ Cardinality({f \in DOMAIN v : v[f] # notion[p][f]}) = 1
       /\ notion' = [notion EXCEPT ![p] = v]
       /\ shapes' = [shapes EXCEPT ![p] = @ \cup Shape(v)]
  /\ edits' = edits + 1
  /\ UNCHANGED <<importing, rows, run>>

\* Mutant: a reference that moves with the booking.
RefOf_Moved(p, v, h) == <<p, h, v.at>>

\* notion:id, and notion:id#hall when the page names several.
RefOf(p, v, h) == IF Shape(v) = {"one"} THEN <<p>> ELSE <<p, h>>

\* mapNotionPage: what becomes of a page, one candidate for each of its halls.
Candidates(p, v) ==
  IF v.status = "refused" THEN {}
  ELSE {[ref |-> RefOf(p, v, h), page |-> p, hall |-> h, at |-> v.at, approved |-> v.status = "approved"] : h \in v.halls}

\* The pages are read, all before the transaction begins.
FetchPages(c) ==
  /\ run[c] = NoRun
  /\ run' = [run EXCEPT ![c] = [pc |-> "fetched", todo |-> UNION {Candidates(p, notion[p]) : p \in Page}]]
  /\ UNCHANGED <<importing, notion, edits, shapes, rows>>

Committed == {r \in rows : r.by = "nobody"}

OfRun(c) == {r \in rows : r.by = c}

\* Which references exist: those are left alone.
LookUp(c) ==
  /\ run[c].pc = "fetched"
  /\ LET known == {r.ref : r \in Committed}
     IN run' = [run EXCEPT ![c] = [pc |-> "inserting", lost |-> {},
                                   todo |-> {x \in run[c].todo : x.ref \notin known}]]
  /\ UNCHANGED <<importing, notion, edits, shapes, rows>>

\* Approved pages first, then by time.
Precedes(x, y) == (x.approved /\ ~y.approved) \/ (x.approved = y.approved /\ x.at < y.at)

Overlapping(x) == {r \in rows : r.held /\ r.hall = x.hall /\ r.at < x.at + Length /\ x.at < r.at + Length}

\* One row of another run that is not committed holds the counter: wait.
CounterFree(c) == \A r \in rows : r.by \in {"nobody", c}

\* The next candidate: its application and its slot, or, if the slot is taken,
\* nothing of it but a line in the report.
InsertOrSkip(c, x) ==
  \/ /\ Overlapping(x) = {}
     /\ rows' = rows \cup {[ref |-> x.ref, page |-> x.page, of |-> x.hall, hall |-> x.hall, at |-> x.at,
                            approved |-> x.approved, held |-> TRUE, by |-> c]}
     /\ run' = [run EXCEPT ![c].todo = @ \ {x}]
  \/ /\ Overlapping(x) # {}
     /\ run' = [run EXCEPT ![c].todo = @ \ {x},
                           ![c].lost = @ \cup {[approved |-> x.approved, to |-> r.approved] : r \in Overlapping(x) \cap OfRun(c)}]
     /\ UNCHANGED rows

InsertNext(c) ==
  /\ run[c].pc = "inserting" /\ CounterFree(c)
  /\ \E x \in run[c].todo :
       /\ \A y \in run[c].todo : ~Precedes(y, x)
       /\ x.ref \notin {r.ref : r \in rows}
       /\ InsertOrSkip(c, x)
  /\ UNCHANGED <<importing, notion, edits, shapes>>

\* The reference has been taken since, the run was the victim of a deadlock with
\* a submission, the console was closed, or all this was a preview without
\* --apply: nothing remains.
Abort(c) ==
  /\ run[c].pc = "inserting"
  /\ rows' = rows \ OfRun(c)
  /\ run' = [run EXCEPT ![c] = NoRun]
  /\ UNCHANGED <<importing, notion, edits, shapes>>

\* The transaction commits.
Finish(c) ==
  /\ run[c].pc = "inserting" /\ run[c].todo = {}
  /\ rows' = (rows \ OfRun(c)) \cup {[r EXCEPT !.by = "nobody"] : r \in OfRun(c)}
  /\ run' = [run EXCEPT ![c] = NoRun]
  /\ UNCHANGED <<importing, notion, edits, shapes>>

-----------------------------------------------------------------------------
\* An imported application is rejected or withdrawn and lets go of its slot.
CloseRow(r) ==
  /\ r.held
  /\ rows' = (rows \ {r}) \cup {[r EXCEPT !.held = FALSE]}

\* It moves to another hall or time.
MoveRow(r) ==
  /\ r.held
  /\ \E h \in Hall, t \in Start :
       LET m == [r EXCEPT !.hall = h, !.at = t]
       IN /\ m # r
          /\ Overlapping(m) \subseteq {r}
          /\ rows' = (rows \ {r}) \cup {m}

\* It is deleted; the next run brings it again.
DeleteRow(r) == rows' = rows \ {r}

ImportNext ==
  \/ \E p \in Page : EditPage(p)
  \/ \E c \in Console : FetchPages(c) \/ LookUp(c) \/ InsertNext(c) \/ Abort(c) \/ Finish(c)
  \/ \E r \in Committed :
       /\ edits < MaxEdits /\ edits' = edits + 1
       /\ CloseRow(r) \/ MoveRow(r) \/ DeleteRow(r)
       /\ UNCHANGED <<importing, notion, shapes, run>>

\* Both parts side by side; only one of them is looked at in a run.
IntakeInit == Init /\ ImportInit /\ (importing => rule = CHOOSE s \in Rules : TRUE)

IntakeNext ==
  \/ ~importing /\ Next /\ UNCHANGED importVars
  \/ importing /\ ImportNext /\ UNCHANGED vars

IntakeSpec == IntakeInit /\ [][IntakeNext]_allVars

-----------------------------------------------------------------------------
\* However often it runs and whatever is corrected in between, a page is one
\* application, or one for each of its halls: for pages that have not gone from
\* one hall to several or back, which changes their references.
ImportedOnce ==
  \A r, q \in rows :
    r.page = q.page /\ r # q => \/ shapes[r.page] = {"one", "several"}
                                \/ shapes[r.page] = {"several"} /\ r.of # q.of

\* No approved page loses its slot to one of the same run that is not.
ApprovedFirst ==
  \A c \in Console : run[c].pc = "inserting" =>
    \A l \in run[c].lost : l.approved => l.to

ImportKept == ImportedOnce /\ ApprovedFirst
=============================================================================
