--------------------------- MODULE AdminAccounts ---------------------------
(***************************************************************************)
(* Administrator accounts and grades.                                      *)
(*                                                                         *)
(* A request reads who its administrator is, and what the grade of that    *)
(* administrator permits, when it begins (requireAdmin); by the time its   *)
(* transaction commits all of it may have changed.  The transactions that  *)
(* change an account take an advisory lock, check, and write: Check and    *)
(* the writes below.  Creating an account and editing grades do not take   *)
(* that lock; foreign keys and unique names are what orders them.          *)
(***************************************************************************)
EXTENDS Naturals

CONSTANTS
  User,        \* accounts that may exist
  Grade,       \* grades an administrator may create, change and delete
  Super,       \* the grade of the system's chief administrators
  None,        \* no grade: the account does not exist
  System,      \* stands for the command line, where there is no administrator
  Request,     \* requests under way together
  Founders,    \* the chief administrators there are at first
  MaxRequests  \* bound: requests that begin

ASSUME NamesDiffer == Super # None /\ Super \notin Grade /\ None \notin Grade /\ System \notin User

ASSUME ChiefsAtFirst == Founders \subseteq User /\ Founders # {}

ASSUME MaxRequestsIsNatural == MaxRequests \in Nat

VARIABLES
  grade,    \* grade[u]: the grade of account u
  active,   \* active[u]: admin_users.is_active
  perms,    \* perms[g]: "absent", or whether grade g has accounts.manage
  req,      \* the requests
  begun     \* requests begun so far

vars == <<grade, active, perms, req, begun>>

-----------------------------------------------------------------------------
Operation == {"grade", "deactivate", "activate", "reset"}

\* What a request has read and decided so far.
Held == [at : {"idle", "open", "checked"}, who : User \cup {System}, super : BOOLEAN, manage : BOOLEAN,
         op : Operation, user : User \cup {System}, to : Grade \cup {Super, None}]

Idle == [at |-> "idle", who |-> System, super |-> FALSE, manage |-> FALSE,
         op |-> "reset", user |-> System, to |-> None]

Exists(u) == grade[u] # None

Init ==
  /\ grade = [u \in User |-> IF u \in Founders THEN Super ELSE None]
  /\ active = [u \in User |-> u \in Founders]
  /\ perms \in [Grade -> {"plain", "manage"}]
  /\ req = [r \in Request |-> Idle]
  /\ begun = 0

Begin(r, holder) ==
  /\ req[r] = Idle /\ begun < MaxRequests
  /\ req' = [req EXCEPT ![r] = holder]
  /\ begun' = begun + 1
  /\ UNCHANGED <<grade, active, perms>>

Manages(u) == grade[u] = Super \/ (grade[u] \in Grade /\ perms[grade[u]] = "manage")

\* requireAdmin("accounts.manage"): an active account, and what its grade
\* permits now.  Any active account may be logged in (see AdminLogin).
RequireAdmin(r, u) ==
  /\ active[u]
  /\ Begin(r, [Idle EXCEPT !.at = "open", !.who = u, !.super = grade[u] = Super, !.manage = Manages(u)])

\* pnpm admin:manage: no administrator, every right.
Command(r) == Begin(r, [Idle EXCEPT !.at = "open", !.super = TRUE, !.manage = TRUE])

-----------------------------------------------------------------------------
\* Mutant: the checks of two requests may overlap.
AccountsFree_Always == TRUE

\* pg_advisory_xact_lock('admin_accounts')
AccountsFree == \A r \in Request : req[r].at # "checked"

OtherActiveSupers(u) == {v \in User \ {u} : grade[v] = Super /\ active[v]}

\* Mutant: the foreign key from accounts to grades is missing.
GradeKey_None(g) == TRUE

\* admin_users.grade_id references admin_grades: a grade deleted meanwhile
\* refuses the write.
GradeKey(g) == g \in Grade => perms[g] # "absent"

\* findGrade
GradeFound(g) == g \in Grade => perms[g] # "absent"

\* updateAdminAccount
MayUpdate(q, u, g) ==
  /\ q.who # System
  /\ grade[u] = Super /\ u # q.who => q.super
  /\ g # grade[u] =>
       /\ GradeFound(g)
       /\ u # q.who
       /\ g = Super => q.super
       /\ grade[u] = Super /\ active[u] => OtherActiveSupers(u) # {}

\* applyAccountAction
MayApply(q, u, op) ==
  /\ u # q.who
  /\ grade[u] = Super => q.super
  /\ op = "deactivate" /\ grade[u] = Super /\ active[u] => OtherActiveSupers(u) # {}

\* The lock is taken, the account is read, the conditions hold.
Check(r, op, u, g) ==
  LET q == req[r] IN
  /\ q.at = "open" /\ q.manage
  /\ AccountsFree /\ Exists(u)
  /\ IF op = "grade" THEN MayUpdate(q, u, g) ELSE MayApply(q, u, op) /\ g = grade[u]
  /\ req' = [req EXCEPT ![r] = [q EXCEPT !.at = "checked", !.op = op, !.user = u, !.to = g]]
  /\ UNCHANGED <<grade, active, perms, begun>>

\* A condition does not hold, or a constraint of the database refuses.
Refuse(r) ==
  /\ req[r] # Idle
  /\ req' = [req EXCEPT ![r] = Idle]
  /\ UNCHANGED <<grade, active, perms, begun>>

\* updateAdminAccount writes.
UpdateAdminAccount(r) ==
  LET q == req[r] IN
  /\ q.at = "checked" /\ q.op = "grade" /\ GradeKey(q.to)
  /\ grade' = [grade EXCEPT ![q.user] = q.to]
  /\ req' = [req EXCEPT ![r] = Idle]
  /\ UNCHANGED <<active, perms, begun>>

\* applyAccountAction writes; what it resets is in AdminLogin.
ApplyAccountAction(r) ==
  LET q == req[r] IN
  /\ q.at = "checked" /\ q.op # "grade"
  /\ active' = [active EXCEPT ![q.user] = (@ \/ q.op = "activate") /\ q.op # "deactivate"]
  /\ req' = [req EXCEPT ![r] = Idle]
  /\ UNCHANGED <<grade, perms, begun>>

\* createAdminAccount: no lock, and the login id must be new.
CreateAdminAccount(r, u, g) ==
  LET q == req[r] IN
  /\ q.at = "open" /\ q.manage /\ ~Exists(u)
  /\ g = Super => q.super
  /\ GradeFound(g)
  /\ grade' = [grade EXCEPT ![u] = g]
  /\ active' = [active EXCEPT ![u] = TRUE]
  /\ req' = [req EXCEPT ![r] = Idle]
  /\ UNCHANGED <<perms, begun>>

\* createGrade, updateGrade, deleteGrade: for chief administrators.  A grade
\* that accounts have, disabled ones included, is not deleted.
EditGrade(r, g, p) ==
  /\ req[r].at = "open" /\ req[r].super
  /\ perms[g] # p
  /\ p = "absent" => \A u \in User : grade[u] # g
  /\ perms' = [perms EXCEPT ![g] = p]
  /\ req' = [req EXCEPT ![r] = Idle]
  /\ UNCHANGED <<grade, active, begun>>

-----------------------------------------------------------------------------
Grades(r) == \E g \in Grade, p \in {"absent", "plain", "manage"} : EditGrade(r, g, p)

Administration(r) ==
  \/ Command(r) \/ Refuse(r) \/ UpdateAdminAccount(r) \/ ApplyAccountAction(r)
  \/ \E u \in User : RequireAdmin(r, u)
  \/ \E u \in User, g \in Grade \cup {Super}, op \in Operation : Check(r, op, u, g)
  \/ \E u \in User, g \in Grade \cup {Super} : CreateAdminAccount(r, u, g)
  \/ Grades(r)

Next == \E r \in Request : Administration(r)

Spec == Init /\ [][Next]_vars

-----------------------------------------------------------------------------
(* Properties.                                                             *)

\* Every variable has its type.
TypeOK ==
  /\ grade \in [User -> Grade \cup {Super, None}]
  /\ active \in [User -> BOOLEAN]
  /\ perms \in [Grade -> {"absent", "plain", "manage"}]
  /\ req \in [Request -> Held]
  /\ begun \in Nat

\* However many administrators demote and disable each other at once, each
\* acting on what was true when its request began, one active chief
\* administrator remains (accounts.ts, LAST_SUPER).
SuperRemains == \E u \in User : grade[u] = Super /\ active[u]

\* No account is left with a grade that is gone, although grades are deleted
\* without the lock that the changes of accounts take.
GradeExists == \A u \in User : grade[u] \in Grade => perms[grade[u]] # "absent"
=============================================================================
