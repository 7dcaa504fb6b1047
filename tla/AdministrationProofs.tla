------------------------ MODULE AdministrationProofs ------------------------
(***************************************************************************)
(* What administrators do to themselves and to the settings.               *)
(*                                                                         *)
(* AdminAccounts: the chief administrators never lock themselves out:      *)
(* SuperRemains, and GradeExists, for any number of accounts, grades and   *)
(* overlapping requests.  SuperRemains is not inductive: what a checked    *)
(* request is about to write was found harmless when it was checked.  That *)
(* it still is needs the advisory lock (OneChecked): while it is held the  *)
(* others only add accounts and edit grades, and neither takes away a      *)
(* chief.                                                                  *)
(*                                                                         *)
(* AdminLogin: no code and no reset link works twice.                      *)
(*                                                                         *)
(* Policies: versions stay what they were (VInv: ids grow, requests hold   *)
(* an old clock and what they read then), and repricing works on what is   *)
(* still to be paid (RunsTyped).                                           *)
(***************************************************************************)
EXTENDS AdminAccounts, AdminLogin, Policies, TLAPS

\* Request r is about to take away the last rights of an active chief.
Demotes(r) ==
  /\ req[r].at = "checked"
  /\ grade[req[r].user] = Super /\ active[req[r].user]
  /\ \/ req[r].op = "grade" /\ req[r].to # Super
     \/ req[r].op = "deactivate"

OneChecked == \A r, s \in Request : req[r].at = "checked" /\ req[s].at = "checked" => r = s

\* A checked request is about an account there is, and leaves a chief.
CheckedSafe ==
  \A r \in Request :
    /\ req[r].at = "checked" => /\ req[r].user \in User /\ Exists(req[r].user)
                                /\ req[r].to # None
    /\ Demotes(r) => \E v \in User : v # req[r].user /\ grade[v] = Super /\ active[v]

SInv == TypeOK /\ SuperRemains /\ OneChecked /\ CheckedSafe

-----------------------------------------------------------------------------
\* What the requests hold has its type, whatever they just read.
LEMMA HeldType ==
  /\ Idle \in Held
  /\ \A w \in User \cup {System}, x, y \in BOOLEAN :
       [Idle EXCEPT !.at = "open", !.who = w, !.super = x, !.manage = y] \in Held
  /\ \A q \in Held, op \in Operation, u \in User, g \in Grade \cup {Super} :
       [q EXCEPT !.at = "checked", !.op = op, !.user = u, !.to = g] \in Held
  /\ [Idle EXCEPT !.at = "open", !.super = TRUE, !.manage = TRUE] \in Held
  BY DEF Idle, Held, Operation

\* The first state is typed.
LEMMA InitTyped == Init => TypeOK
<1> SUFFICES ASSUME Init PROVE TypeOK
  OBVIOUS
<1>1. grade \in [User -> Grade \cup {Super, None}]
  BY DEF Init
<1>2. active \in [User -> BOOLEAN]
  BY DEF Init
<1>3. req \in [Request -> Held] /\ begun \in Nat
  BY HeldType DEF Init
<1>4. perms \in [Grade -> {"absent", "plain", "manage"}]
  BY DEF Init
<1> QED
  BY <1>1, <1>2, <1>3, <1>4 DEF TypeOK

\* A request that begins keeps the types.
LEMMA BeginTyped ==
  ASSUME TypeOK, NEW r \in Request, NEW h \in Held, Begin(r, h)
  PROVE  TypeOK'
<1>1. req' \in [Request -> Held]
  BY DEF Begin, TypeOK
<1>2. begun' \in Nat
  BY DEF Begin, TypeOK
<1> QED
  BY <1>1, <1>2 DEF Begin, TypeOK

\* Every variable keeps its type.
THEOREM AccountsTyped == Spec => []TypeOK
<1>1. Init => TypeOK
  BY InitTyped
<1>2. TypeOK /\ [Next]_vars => TypeOK'
  <2> SUFFICES ASSUME TypeOK, [Next]_vars PROVE TypeOK'
    OBVIOUS
  <2> USE HeldType DEF TypeOK
  <2>1. CASE UNCHANGED vars
    BY <2>1 DEF vars
  <2>2. ASSUME NEW r \in Request, Administration(r) PROVE TypeOK'
    <3>1. CASE Command(r)
      BY <3>1, BeginTyped, HeldType DEF Command
    <3>2. CASE Refuse(r)
      BY <3>2 DEF Refuse
    <3>3. CASE UpdateAdminAccount(r)
      <4>a. req[r] \in Held
        OBVIOUS
      <4>1. req[r].user \in User \cup {System} /\ req[r].to \in Grade \cup {Super, None}
        BY <4>a DEF Held
      <4>2. grade' \in [User -> Grade \cup {Super, None}]
        BY <3>3, <4>1 DEF UpdateAdminAccount
      <4> QED
        BY <3>3, <4>2 DEF UpdateAdminAccount
    <3>4. CASE ApplyAccountAction(r)
      <4>1. active' \in [User -> BOOLEAN]
        BY <3>4 DEF ApplyAccountAction
      <4> QED
        BY <3>4, <4>1 DEF ApplyAccountAction
    <3>5. ASSUME NEW u \in User, RequireAdmin(r, u) PROVE TypeOK'
      <4>1. (grade[u] = Super) \in BOOLEAN /\ Manages(u) \in BOOLEAN
        BY DEF Manages
      <4> QED
        BY <3>5, <4>1, BeginTyped, HeldType DEF RequireAdmin
    <3>6. ASSUME NEW u \in User, NEW g \in Grade \cup {Super}, NEW op \in Operation, Check(r, op, u, g)
          PROVE TypeOK'
      BY <3>6 DEF Check
    <3>7. ASSUME NEW u \in User, NEW g \in Grade \cup {Super}, CreateAdminAccount(r, u, g) PROVE TypeOK'
      BY <3>7 DEF CreateAdminAccount
    <3>8. ASSUME NEW g \in Grade, NEW p \in {"absent", "plain", "manage"}, EditGrade(r, g, p) PROVE TypeOK'
      BY <3>8 DEF EditGrade
    <3> QED
      BY <2>2, <3>1, <3>2, <3>3, <3>4, <3>5, <3>6, <3>7, <3>8 DEF Administration, Grades
  <2> QED
    BY <2>1, <2>2 DEF Next
<1> QED
  BY <1>1, <1>2, PTL DEF Spec

\* While a request is checked, what the others may do keeps it harmless.
LEMMA OthersKeepSafe ==
  ASSUME TypeOK, CheckedSafe, OneChecked,
         NEW r \in Request,
         req' = [req EXCEPT ![r] = Idle],
         \A u \in User : Exists(u) => grade'[u] = grade[u] /\ active'[u] = active[u],
         \A u \in User : Exists(u) => grade'[u] # None
  PROVE  CheckedSafe' /\ OneChecked'
<1>1. OneChecked'
  BY DEF OneChecked, TypeOK, Idle
<1>2. ASSUME NEW s \in Request, req'[s].at = "checked" PROVE s # r /\ req'[s] = req[s] /\ req[s].at = "checked"
  BY <1>2 DEF Idle, TypeOK
<1>3. ASSUME NEW s \in Request
      PROVE /\ req'[s].at = "checked" => /\ req'[s].user \in User /\ grade'[req'[s].user] # None
                                         /\ req'[s].to # None
            /\ Demotes(s)' => \E v \in User : v # req'[s].user /\ grade'[v] = Super /\ active'[v]
  <2>1. CASE req'[s].at = "checked"
    <3>1. req'[s] = req[s] /\ req[s].at = "checked"
      BY <1>2, <2>1
    <3>2. req[s].user \in User /\ Exists(req[s].user) /\ req[s].to # None
      BY <3>1 DEF CheckedSafe
    <3>3. Demotes(s)' => Demotes(s)
      BY <3>1, <3>2 DEF Demotes
    <3>4. Demotes(s) => \E v \in User : v # req[s].user /\ grade'[v] = Super /\ active'[v]
      BY NamesDiffer DEF CheckedSafe, Exists
    <3> QED
      BY <3>1, <3>2, <3>3, <3>4 DEF Exists
  <2> QED
    BY <2>1 DEF Demotes
<1> QED
  BY <1>1, <1>3 DEF CheckedSafe, Exists

\* One active chief administrator remains, however requests overlap
\* (accounts.ts: lockAccounts, otherActiveSuperAdmins).
THEOREM ChiefRemains == Spec => []SuperRemains
<1> USE NamesDiffer
<1>1. Init => SInv
  <2> SUFFICES ASSUME Init PROVE SInv
    OBVIOUS
  <2>1. TypeOK
    BY InitTyped
  <2>2. SuperRemains
    BY ChiefsAtFirst DEF Init, SuperRemains
  <2> QED
    BY <2>1, <2>2 DEF Init, SInv, OneChecked, CheckedSafe, Demotes, Idle
<1>2. SInv /\ TypeOK' /\ [Next]_vars => SInv'
  <2> SUFFICES ASSUME SInv, TypeOK', [Next]_vars PROVE SuperRemains' /\ OneChecked' /\ CheckedSafe'
    BY DEF SInv
  <2>0. TypeOK /\ SuperRemains /\ OneChecked /\ CheckedSafe
    BY DEF SInv
  <2>1. CASE UNCHANGED vars
    BY <2>0, <2>1 DEF vars, SuperRemains, OneChecked, CheckedSafe, Demotes, Exists
  <2>2. ASSUME NEW r \in Request, Administration(r) PROVE SuperRemains' /\ OneChecked' /\ CheckedSafe'
    <3>a. ASSUME UNCHANGED <<grade, active>>, req' = [req EXCEPT ![r] = Idle]
          PROVE SuperRemains' /\ OneChecked' /\ CheckedSafe'
      <4>1. CheckedSafe' /\ OneChecked'
        BY <2>0, <3>a, OthersKeepSafe DEF Exists
      <4> QED
        BY <2>0, <3>a, <4>1 DEF SuperRemains
    <3>b. ASSUME UNCHANGED <<grade, active>>, NEW h, h.at = "open", req[r] = Idle, req' = [req EXCEPT ![r] = h]
          PROVE SuperRemains' /\ OneChecked' /\ CheckedSafe'
      <4>1. \A s \in Request : req'[s].at = "checked" => s # r /\ req'[s] = req[s]
        BY <2>0, <3>b DEF TypeOK
      <4> QED
        BY <2>0, <3>b, <4>1 DEF SuperRemains, OneChecked, CheckedSafe, Demotes, Exists
    <3>1. CASE Command(r)
      BY <3>b, <3>1 DEF Command, Begin, Idle
    <3>2. CASE Refuse(r)
      BY <3>a, <3>2 DEF Refuse
    <3>3. CASE UpdateAdminAccount(r)
      <4> DEFINE w == req[r].user
      <4>1. req[r].at = "checked" /\ req[r].op = "grade" /\ w \in User /\ Exists(w)
        BY <2>0, <3>3 DEF UpdateAdminAccount, CheckedSafe
      <4>2. grade' = [grade EXCEPT ![w] = req[r].to] /\ active' = active /\ req' = [req EXCEPT ![r] = Idle]
        BY <3>3 DEF UpdateAdminAccount
      <4>3. \A s \in Request : req'[s].at # "checked"
        BY <2>0, <4>1, <4>2 DEF OneChecked, TypeOK, Idle
      <4>4. SuperRemains'
        <5>1. CASE Demotes(r)
          <6>1. PICK v \in User : v # w /\ grade[v] = Super /\ active[v]
            BY <2>0, <5>1 DEF CheckedSafe
          <6> QED
            BY <2>0, <4>2, <6>1 DEF SuperRemains, TypeOK
        <5>2. CASE ~Demotes(r)
          <6>1. PICK v \in User : grade[v] = Super /\ active[v]
            BY <2>0 DEF SuperRemains
          <6>2. v = w => req[r].to = Super
            BY <4>1, <5>2, <6>1 DEF Demotes
          <6> QED
            BY <2>0, <4>2, <6>1, <6>2 DEF SuperRemains, TypeOK
        <5> QED
          BY <5>1, <5>2
      <4> QED
        BY <4>3, <4>4 DEF OneChecked, CheckedSafe, Demotes
    <3>4. CASE ApplyAccountAction(r)
      <4> DEFINE w == req[r].user
      <4>1. req[r].at = "checked" /\ req[r].op # "grade" /\ w \in User /\ Exists(w)
        BY <2>0, <3>4 DEF ApplyAccountAction, CheckedSafe
      <4>2. active' = [active EXCEPT ![w] = (@ \/ req[r].op = "activate") /\ req[r].op # "deactivate"]
            /\ grade' = grade /\ req' = [req EXCEPT ![r] = Idle]
        BY <3>4 DEF ApplyAccountAction
      <4>3. \A s \in Request : req'[s].at # "checked"
        BY <2>0, <4>1, <4>2 DEF OneChecked, TypeOK, Idle
      <4>4. SuperRemains'
        <5>1. CASE Demotes(r)
          <6>1. PICK v \in User : v # w /\ grade[v] = Super /\ active[v]
            BY <2>0, <5>1 DEF CheckedSafe
          <6> QED
            BY <2>0, <4>2, <6>1 DEF SuperRemains, TypeOK
        <5>2. CASE ~Demotes(r)
          <6>1. PICK v \in User : grade[v] = Super /\ active[v]
            BY <2>0 DEF SuperRemains
          <6>2. v = w => req[r].op # "deactivate"
            BY <4>1, <5>2, <6>1 DEF Demotes
          <6>3. active'[v]
            BY <2>0, <4>2, <6>1, <6>2 DEF TypeOK
          <6> QED
            BY <4>2, <6>1, <6>3 DEF SuperRemains
        <5> QED
          BY <5>1, <5>2
      <4> QED
        BY <4>3, <4>4 DEF OneChecked, CheckedSafe, Demotes
    <3>5. ASSUME NEW u \in User, RequireAdmin(r, u) PROVE SuperRemains' /\ OneChecked' /\ CheckedSafe'
      <4> DEFINE h == [Idle EXCEPT !.at = "open", !.who = u, !.super = grade[u] = Super, !.manage = Manages(u)]
      <4>1. h.at = "open"
        BY DEF Idle
      <4>2. UNCHANGED <<grade, active>> /\ req[r] = Idle /\ req' = [req EXCEPT ![r] = h]
        BY <3>5 DEF RequireAdmin, Begin
      <4> QED
        BY <3>b, <4>1, <4>2
    <3>6. ASSUME NEW u \in User, NEW g \in Grade \cup {Super}, NEW op \in Operation, Check(r, op, u, g)
          PROVE SuperRemains' /\ OneChecked' /\ CheckedSafe'
      <4>1. Exists(u) /\ AccountsFree /\ UNCHANGED <<grade, active>> /\ g # None
        BY <3>6 DEF Check
      <4>2. req' = [req EXCEPT ![r] = [req[r] EXCEPT !.at = "checked", !.op = op, !.user = u, !.to = g]]
        BY <3>6 DEF Check
      <4>3. /\ req'[r].user = u /\ req'[r].op = op /\ req'[r].to = g
            /\ \A s \in Request : s # r => req'[s] = req[s] /\ req'[s].at # "checked"
        BY <2>0, <4>1, <4>2 DEF TypeOK, AccountsFree
      <4>4. Demotes(r)' => OtherActiveSupers(u) # {}
        BY <3>6, <4>1, <4>3 DEF Demotes, Check, MayUpdate, MayApply, Operation
      <4>5. CheckedSafe'
        BY <4>1, <4>3, <4>4 DEF CheckedSafe, OtherActiveSupers, Exists, Demotes
      <4> QED
        BY <2>0, <4>1, <4>3, <4>5 DEF SuperRemains, OneChecked
    <3>7. ASSUME NEW u \in User, NEW g \in Grade \cup {Super}, CreateAdminAccount(r, u, g)
          PROVE SuperRemains' /\ OneChecked' /\ CheckedSafe'
      <4>1. grade' = [grade EXCEPT ![u] = g] /\ active' = [active EXCEPT ![u] = TRUE]
            /\ req' = [req EXCEPT ![r] = Idle] /\ ~Exists(u)
        BY <3>7 DEF CreateAdminAccount
      <4>2. \A v \in User : Exists(v) => v # u /\ grade'[v] = grade[v] /\ active'[v] = active[v] /\ grade'[v] # None
        BY <2>0, <4>1 DEF TypeOK, Exists
      <4>3. CheckedSafe' /\ OneChecked'
        BY <2>0, <4>1, <4>2, OthersKeepSafe
      <4>4. SuperRemains'
        BY <2>0, <4>2 DEF SuperRemains, Exists
      <4> QED
        BY <4>3, <4>4
    <3>8. ASSUME NEW g \in Grade, NEW p \in {"absent", "plain", "manage"}, EditGrade(r, g, p)
          PROVE SuperRemains' /\ OneChecked' /\ CheckedSafe'
      BY <3>a, <3>8 DEF EditGrade
    <3> QED
      BY <2>2, <3>1, <3>2, <3>3, <3>4, <3>5, <3>6, <3>7, <3>8 DEF Administration, Grades
  <2> QED
    BY <2>1, <2>2 DEF Next
<1>3. SInv => SuperRemains
  BY DEF SInv
<1> QED
  BY <1>1, <1>2, <1>3, AccountsTyped, PTL DEF Spec

\* No account has a grade that was deleted (schema.ts, the foreign key
\* grade_id; grades.ts, deleteGrade).
THEOREM GradeOfAccountExists == Spec => []GradeExists
<1> USE NamesDiffer
<1>1. Init => GradeExists
  BY DEF Init, GradeExists
<1>2. TypeOK /\ GradeExists /\ [Next]_vars => GradeExists'
  <2> SUFFICES ASSUME TypeOK, GradeExists, [Next]_vars PROVE GradeExists'
    OBVIOUS
  <2>1. CASE UNCHANGED vars
    BY <2>1 DEF vars, GradeExists
  <2>2. ASSUME NEW r \in Request, Administration(r) PROVE GradeExists'
    <3>1. CASE UNCHANGED <<grade, perms>>
      BY <3>1 DEF GradeExists
    <3>2. CASE UpdateAdminAccount(r)
      BY <3>2 DEF UpdateAdminAccount, GradeKey, GradeExists, TypeOK
    <3>3. ASSUME NEW u \in User, NEW g \in Grade \cup {Super}, CreateAdminAccount(r, u, g) PROVE GradeExists'
      BY <3>3 DEF CreateAdminAccount, GradeFound, GradeExists, TypeOK
    <3>4. ASSUME NEW g \in Grade, NEW p \in {"absent", "plain", "manage"}, EditGrade(r, g, p) PROVE GradeExists'
      BY <3>4 DEF EditGrade, GradeExists, TypeOK
    <3> QED
      BY <2>2, <3>1, <3>2, <3>3, <3>4
         DEF Administration, Grades, Command, Refuse, ApplyAccountAction, RequireAdmin, Begin, Check
  <2> QED
    BY <2>1, <2>2 DEF Next
<1> QED
  BY <1>1, <1>2, AccountsTyped, PTL DEF Spec

-----------------------------------------------------------------------------
(* Logging in to one of these accounts: AdminLogin.  A one-time code and a  *)
(* reset link work once, for any number of browsers, links, secrets and     *)
(* time steps.  CodeOnce is not inductive: that a code is new rests on what *)
(* the row of the account remembers of the codes before (CodesRemembered),  *)
(* and on a secret being made anew for each enrolment (SecretsAreNew).      *)

LoginTyped ==
  /\ totp \in [pending : Nat, secret : Nat, last : Nat]
  /\ made \in [secrets : Nat, logins : Nat]
  /\ clock \in Nat
  /\ codes \in Seq(Nat \X Nat)

\* A secret that waits for its confirmation was never confirmed before.
SecretsAreNew ==
  /\ totp.pending <= made.secrets /\ totp.secret <= made.secrets
  /\ \A i \in DOMAIN codes : codes[i][1] <= made.secrets
  /\ totp.pending # 0 => /\ totp.pending # totp.secret
                         /\ \A i \in DOMAIN codes : codes[i][1] # totp.pending

\* The last step used is no earlier than any code of the secret in use.
CodesRemembered ==
  totp.secret # 0 => \A i \in DOMAIN codes : codes[i][1] = totp.secret => codes[i][2] <= totp.last

CodesKept == LoginTyped /\ SecretsAreNew /\ CodesRemembered /\ CodeOnce

-----------------------------------------------------------------------------
\* A code that was not accepted before is.
LEMMA AcceptKeeps ==
  ASSUME CodesKept, NEW b \in Browser, NEW secret \in Nat \ {0}, NEW s \in Nat,
         secret <= made.secrets, secret = totp.secret \/ secret = totp.pending,
         \A i \in DOMAIN codes : codes[i][1] = secret => codes[i][2] < s,
         Accept(b, secret, s)
  PROVE  CodesKept'
<1> DEFINE c == <<secret, s>>
<1>0. LoginTyped /\ SecretsAreNew /\ CodesRemembered /\ CodeOnce
  BY DEF CodesKept
<1>1. codes' = Append(codes, c) /\ c \in Nat \X Nat /\ codes \in Seq(Nat \X Nat) /\ c[1] = secret /\ c[2] = s
  BY <1>0 DEF Accept, LoginTyped
<1> HIDE DEF c
<1>2. /\ codes' \in Seq(Nat \X Nat) /\ DOMAIN codes' = DOMAIN codes \cup {Len(codes) + 1}
      /\ Len(codes) + 1 \notin DOMAIN codes /\ codes'[Len(codes) + 1] = c
      /\ \A i \in DOMAIN codes : codes'[i] = codes[i] /\ codes[i] \in Nat \X Nat
  <2>1. /\ codes' \in Seq(Nat \X Nat) /\ Len(codes') = Len(codes) + 1 /\ Len(codes) \in Nat
        /\ DOMAIN codes' = 1 .. Len(codes') /\ DOMAIN codes = 1 .. Len(codes)
    BY <1>1
  <2>2. codes'[Len(codes) + 1] = c
    BY <1>1
  <2>3. \A i \in 1 .. Len(codes) : codes'[i] = codes[i] /\ codes[i] \in Nat \X Nat
    BY <1>1
  <2> QED
    BY <2>1, <2>2, <2>3
<1>3. /\ made' = made /\ clock' = clock
      /\ totp' = [pending |-> IF secret = totp.pending THEN 0 ELSE totp.pending, secret |-> secret, last |-> s]
  BY DEF Accept
<1>4. LoginTyped'
  BY <1>0, <1>2, <1>3 DEF LoginTyped
<1>5. \A i \in DOMAIN codes : codes[i] # c
  <2>1. ~(s < s)
    OBVIOUS
  <2> QED
    BY <1>1, <2>1
<1>6. SecretsAreNew'
  BY <1>0, <1>1, <1>2, <1>3 DEF LoginTyped, SecretsAreNew
<1>7. CodesRemembered'
  <2> SUFFICES ASSUME NEW i \in DOMAIN codes', codes'[i][1] = secret PROVE codes'[i][2] <= s
    BY <1>3 DEF CodesRemembered
  <2>1. CASE i \in DOMAIN codes
    <3>1. codes[i][2] \in Nat /\ codes[i][2] < s
      BY <1>2, <2>1
    <3> QED
      BY <1>2, <2>1, <3>1
  <2> QED
    BY <1>1, <1>2, <2>1
<1>8. CodeOnce'
  BY <1>0, <1>2, <1>5 DEF CodeOnce, IsInjective
<1> QED
  BY <1>4, <1>6, <1>7, <1>8 DEF CodesKept

\* No step of a log-in accepts a code twice.
LEMMA LogInKeeps ==
  ASSUME CodesKept, NEW b \in Browser, LogIn(b)
  PROVE  CodesKept'
<1>0. LoginTyped /\ SecretsAreNew /\ CodesRemembered /\ CodeOnce
  BY DEF CodesKept
<1>1. CASE AuthenticatePassword(b)
  <2>1. made' = [made EXCEPT !.logins = @ + 1] /\ totp' = totp /\ codes' = codes /\ clock' = clock
    BY <1>1 DEF AuthenticatePassword
  <2> QED
    BY <1>0, <2>1 DEF CodesKept, LoginTyped, SecretsAreNew, CodesRemembered, CodeOnce
<1>2. CASE StartSession(b) \/ OpenSetup(b) \/ SessionEnds(b)
  <2>1. made' = made /\ totp' = totp /\ codes' = codes /\ clock' = clock
    BY <1>2 DEF StartSession, OpenSetup, SessionEnds
  <2> QED
    BY <1>0, <2>1 DEF CodesKept, LoginTyped, SecretsAreNew, CodesRemembered, CodeOnce
<1>3. CASE StartTotpEnrollment(b)
  <2>1. /\ made' = [made EXCEPT !.secrets = @ + 1] /\ codes' = codes /\ clock' = clock
        /\ totp' = [totp EXCEPT !.pending = made.secrets + 1]
    BY <1>3 DEF StartTotpEnrollment
  <2>2. LoginTyped'
    <3>1. made.secrets + 1 \in Nat /\ totp \in [pending : Nat, secret : Nat, last : Nat]
      BY <1>0 DEF LoginTyped
    <3>2. totp' \in [pending : Nat, secret : Nat, last : Nat]
      BY <2>1, <3>1
    <3>3. made' \in [secrets : Nat, logins : Nat]
      BY <1>0, <2>1, <3>1 DEF LoginTyped
    <3> QED
      BY <1>0, <2>1, <3>2, <3>3 DEF LoginTyped
  <2>3. \A i \in DOMAIN codes : codes[i][1] \in Nat
    BY <1>0 DEF LoginTyped
  <2>4. SecretsAreNew'
    BY <1>0, <2>1, <2>3 DEF LoginTyped, SecretsAreNew
  <2>5. CodesRemembered' /\ CodeOnce'
    BY <1>0, <2>1 DEF LoginTyped, CodesRemembered, CodeOnce
  <2> QED
    BY <2>2, <2>4, <2>5 DEF CodesKept
<1>4. ASSUME NEW s \in 1 .. (MaxStep + 1), ConfirmTotpEnrollment(b, s) \/ VerifyUserTotp(b, s)
      PROVE  CodesKept'
  <2>0. s \in Nat
    BY <1>0, <1>4 DEF ConfirmTotpEnrollment, VerifyUserTotp, Fresh, LoginTyped
  <2>1. CASE ConfirmTotpEnrollment(b, s)
    <3>1. /\ totp.pending \in Nat \ {0} /\ totp.pending <= made.secrets /\ Accept(b, totp.pending, s)
          /\ \A i \in DOMAIN codes : codes[i][1] # totp.pending
      BY <1>0, <2>1 DEF ConfirmTotpEnrollment, LoginTyped, SecretsAreNew
    <3> QED
      BY <2>0, <3>1, AcceptKeeps
  <2>2. CASE VerifyUserTotp(b, s)
    <3>1. /\ totp.secret \in Nat \ {0} /\ totp.secret <= made.secrets /\ Accept(b, totp.secret, s)
          /\ s > totp.last /\ totp.last \in Nat
          /\ \A i \in DOMAIN codes : codes[i][1] = totp.secret => codes[i][2] <= totp.last
      BY <1>0, <2>2 DEF VerifyUserTotp, Fresh, LoginTyped, SecretsAreNew, CodesRemembered
    <3>2. \A i \in DOMAIN codes : codes[i][2] \in Nat
      BY <1>0 DEF LoginTyped
    <3>3. \A i \in DOMAIN codes : codes[i][1] = totp.secret => codes[i][2] < s
      BY <2>0, <3>1, <3>2
    <3> QED
      BY <2>0, <3>1, <3>3, AcceptKeeps
  <2> QED
    BY <1>4, <2>1, <2>2
<1> QED
  BY <1>1, <1>2, <1>3, <1>4 DEF LogIn

\* A one-time code opens one session at most, whoever enrols or logs in beside.
THEOREM CodesOnce == LoginSpec => []CodeOnce
<1>1. LoginInit => CodesKept
  BY DEF LoginInit, NoTotp, CodesKept, LoginTyped, SecretsAreNew, CodesRemembered, CodeOnce, IsInjective
<1>2. CodesKept /\ [LoginNext]_loginVars => CodesKept'
  <2> SUFFICES ASSUME CodesKept, [LoginNext]_loginVars PROVE CodesKept'
    OBVIOUS
  <2> USE DEF CodesKept, LoginTyped, SecretsAreNew, CodesRemembered, CodeOnce
  <2>1. CASE UNCHANGED loginVars
    BY <2>1 DEF loginVars
  <2>2. CASE NextStep
    BY <2>2 DEF NextStep
  <2>3. CASE Account
    BY <2>3 DEF Account, ChangeEmail, ChangeOwnPassword
  <2>4. ASSUME NEW on \in BOOLEAN, NEW reset2fa \in BOOLEAN, OthersAct(on, reset2fa)
        PROVE  CodesKept'
    BY <2>4 DEF OthersAct, NoTotp
  <2>5. ASSUME NEW b \in Browser, LogIn(b) PROVE CodesKept'
    BY <2>5, LogInKeeps
  <2>6. ASSUME NEW l \in Link, Links(l) PROVE CodesKept'
    BY <2>6 DEF Links, RequestPasswordReset, StoreLink, LinkExpires, ResetPassword
  <2> QED
    BY <2>1, <2>2, <2>3, <2>4, <2>5, <2>6 DEF LoginNext
<1>3. CodesKept => CodeOnce
  BY DEF CodesKept
<1> QED
  BY <1>1, <1>2, <1>3, PTL DEF LoginSpec

-----------------------------------------------------------------------------
\* What a link has done can be told from its row.
LinksKept ==
  /\ link \in [Link -> {"free", "asked", "open", "used"}]
  /\ resets \in Seq(Link)
  /\ \A i \in DOMAIN resets : link[resets[i]] = "used"
  /\ LinkOnce

\* A password is set by a link that is used from then on.
LEMMA ResetKeeps ==
  ASSUME LinksKept, NEW l \in Link, ResetPassword(l)
  PROVE  LinksKept'
<1> USE DEF LinksKept
<1>1. link[l] = "open" /\ resets' = Append(resets, l) /\ link' = LinksInvalidated
  BY DEF ResetPassword, LinkWorks
<1>2. /\ link' \in [Link -> {"free", "asked", "open", "used"}] /\ link'[l] = "used"
      /\ \A k \in Link : link[k] = "used" => link'[k] = "used"
  BY <1>1 DEF LinksInvalidated
<1>3. /\ resets' \in Seq(Link) /\ DOMAIN resets' = DOMAIN resets \cup {Len(resets) + 1}
      /\ Len(resets) + 1 \notin DOMAIN resets /\ resets'[Len(resets) + 1] = l
      /\ \A i \in DOMAIN resets : resets'[i] = resets[i] /\ resets[i] \in Link
  BY <1>1
<1>4. \A i \in DOMAIN resets : resets[i] # l
  BY <1>1
<1>5. LinkOnce'
  BY <1>3, <1>4 DEF LinkOnce, IsInjective
<1> QED
  BY <1>2, <1>3, <1>5

\* A reset link sets a password at most once, whatever else ends, renews or
\* disables the account.
THEOREM LinksOnce == LoginSpec => []LinkOnce
<1>1. LoginInit => LinksKept
  BY DEF LoginInit, LinksKept, LinkOnce, IsInjective
<1>2. LinksKept /\ [LoginNext]_loginVars => LinksKept'
  <2> SUFFICES ASSUME LinksKept, [LoginNext]_loginVars PROVE LinksKept'
    OBVIOUS
  <2>1. CASE link' = link /\ resets' = resets
    BY <2>1 DEF LinksKept, LinkOnce
  <2>2. ASSUME NEW l \in Link, RequestPasswordReset(l) \/ StoreLink(l) \/ LinkExpires(l) PROVE LinksKept'
    <3>1. /\ link[l] # "used" /\ resets' = resets
          /\ \E new \in {"asked", "open", "used"} : link' = [link EXCEPT ![l] = new]
      BY <2>2 DEF RequestPasswordReset, StoreLink, LinkExpires
    <3> QED
      BY <3>1 DEF LinksKept, LinkOnce
  <2>3. CASE ChangeEmail
    <3>1. \A k \in Link : link[k] = "used" => link'[k] = "used"
      BY <2>3 DEF ChangeEmail, LinksInvalidated
    <3>2. link' \in [Link -> {"free", "asked", "open", "used"}] /\ resets' = resets
      BY <2>3 DEF ChangeEmail, LinksInvalidated, LinksKept
    <3> QED
      BY <3>1, <3>2 DEF LinksKept, LinkOnce
  <2>4. ASSUME NEW l \in Link, Links(l) PROVE LinksKept'
    BY <2>2, <2>4, ResetKeeps DEF Links
  <2>5. ASSUME NEW b \in Browser, LogIn(b) PROVE LinksKept'
    BY <2>1, <2>5 DEF LogIn, AuthenticatePassword, StartSession, OpenSetup, StartTotpEnrollment,
                      ConfirmTotpEnrollment, VerifyUserTotp, Accept, SessionEnds
  <2>6. CASE Account
    BY <2>1, <2>3, <2>6 DEF Account, ChangeOwnPassword
  <2>7. CASE NextStep
    BY <2>1, <2>7 DEF NextStep
  <2>8. ASSUME NEW on \in BOOLEAN, NEW reset2fa \in BOOLEAN, OthersAct(on, reset2fa) PROVE LinksKept'
    BY <2>1, <2>8 DEF OthersAct
  <2>9. CASE UNCHANGED loginVars
    BY <2>1, <2>9 DEF loginVars
  <2> QED
    BY <2>4, <2>5, <2>6, <2>7, <2>8, <2>9 DEF LoginNext
<1>3. LinksKept => LinkOnce
  BY DEF LinksKept
<1> QED
  BY <1>1, <1>2, <1>3, PTL DEF LoginSpec

-----------------------------------------------------------------------------
(* Policies: the versions and the requests that wait to add to them.       *)

\* A version, of whatever time.
Version == [id : Nat, key : Key, value : UNION {Values[k] : k \in Key}, from : Nat,
            by : {"save", "revert", "cancel", "confirm"}]

\* What is written was a legal version, under an id of its own for its key,
\* and there has always been a fee schedule.
VersionsTyped ==
  /\ now \in 1..Horizon /\ last \in Nat
  /\ rows \subseteq Version
  /\ \A x \in rows : x.id \in 1..last /\ x.from <= Horizon /\ x.value \in Values[x.key]
  /\ \A x, y \in rows : x.key = y.key /\ x.id = y.id => x = y
  /\ \E x \in rows : x.key = Fee /\ x.from = 0

\* As soon as a key has a version, one is in force.
SomeEffective ==
  \A k \in Key, t \in Nat : (\E y \in Own(k) : y.from <= t) => EffectiveRow(Own(k), t) # {}

\* A request writes for its own time or later, and about versions there are.
Waiting == {"save", "revert", "cancel", "confirm", "fee", "reprice"}

EditTyped(q, time, versions) ==
  /\ q.at \in {"idle", "form"} \cup Waiting
  /\ q.at \in Waiting => q.now \in 1..time
  /\ q.at \in {"save", "fee"} => q.from \in q.now..Horizon
  /\ q.at = "save" => q.form \in Form
  /\ q.at = "fee" => q.value \in Values[Fee]
  /\ q.at \in {"revert", "cancel"} => q.row \in versions
  /\ q.at = "revert" => q.row.key # Fee
  /\ q.at = "confirm" => q.keys \subseteq Setting

EditsTyped == edit = [r \in Edit |-> edit[r]] /\ \A r \in Edit : EditTyped(edit[r], now, rows)

VInv == VersionsTyped /\ SomeEffective /\ EditsTyped

-----------------------------------------------------------------------------
(* Which version is in force.                                              *)

\* Of two versions at most one is the later.
LEMMA LaterOnce ==
  ASSUME NEW x \in Version, NEW y \in Version
  PROVE  /\ IsLater(x, y) => ~IsLater(y, x)
         /\ \A z \in Version : IsLater(x, y) /\ IsLater(y, z) => IsLater(x, z)
  BY DEF IsLater, Version

\* There is one in force at most.
LEMMA OneEffective ==
  ASSUME NEW S \in SUBSET Version, NEW t, NEW x \in EffectiveRow(S, t)
  PROVE  EffectiveRow(S, t) = {x}
<1>1. ASSUME NEW y \in EffectiveRow(S, t), y # x PROVE FALSE
  <2>1. x \in Version /\ y \in Version /\ IsLater(x, y) /\ IsLater(y, x)
    BY <1>1 DEF EffectiveRow
  <2> QED
    BY <2>1, LaterOnce
<1> QED
  BY <1>1

\* Versions of later times make no difference.
LEMMA LaterTimes ==
  ASSUME NEW S, NEW N, NEW t, \A x \in N : ~(x.from <= t)
  PROVE  EffectiveRow(S \cup N, t) = EffectiveRow(S, t)
  BY DEF EffectiveRow

\* Nor does the time, when no version begins in between.
LEMMA SameVersions ==
  ASSUME NEW S, NEW T, NEW t, NEW u,
         \A x \in S : x.from <= t => x \in T /\ x.from <= u,
         \A x \in T : x.from <= u => x \in S /\ x.from <= t
  PROVE  EffectiveRow(S, t) = EffectiveRow(T, u)
<1>1. \A x \in EffectiveRow(S, t) : x \in EffectiveRow(T, u)
  BY DEF EffectiveRow
<1>2. \A x \in EffectiveRow(T, u) : x \in EffectiveRow(S, t)
  BY DEF EffectiveRow
<1> QED
  BY <1>1, <1>2

\* A version added after all others is in force once none has a later time.
LEMMA NewestWins ==
  ASSUME NEW S \in SUBSET Version, NEW n \in Version, NEW t \in Nat, n.from <= t,
         \A y \in S : y.id < n.id, \A y \in S : y.from <= t => y.from <= n.from
  PROVE  EffectiveRow(S \cup {n}, t) = {n}
<1>1. \A y \in S : y.from <= t => IsLater(n, y)
  BY DEF IsLater, Version
<1>2. n \in EffectiveRow(S \cup {n}, t)
  BY <1>1 DEF EffectiveRow
<1> QED
  BY <1>2, OneEffective

\* One more version: one is in force still.
LEMMA StillEffective ==
  ASSUME NEW S \in SUBSET Version, NEW n \in Version, NEW t \in Nat,
         \A y \in S : y.id < n.id,
         (\E y \in S : y.from <= t) => EffectiveRow(S, t) # {},
         \E y \in S \cup {n} : y.from <= t
  PROVE  EffectiveRow(S \cup {n}, t) # {}
<1>1. CASE ~(n.from <= t)
  BY <1>1, LaterTimes
<1>2. CASE n.from <= t /\ \A y \in S : ~(y.from <= t)
  <2>1. n \in EffectiveRow(S \cup {n}, t)
    BY <1>2 DEF EffectiveRow
  <2> QED
    BY <2>1
<1>3. CASE n.from <= t /\ \E y \in S : y.from <= t
  <2>1. PICK e : e \in EffectiveRow(S, t)
    BY <1>3
  <2>2. e \in S /\ e.from <= t /\ e \in Version /\ \A y \in S \ {e} : y.from <= t => IsLater(e, y)
    BY <2>1 DEF EffectiveRow
  <2>3. CASE e.from > n.from
    <3>1. IsLater(e, n)
      BY <2>3 DEF IsLater
    <3>2. e \in EffectiveRow(S \cup {n}, t)
      BY <2>2, <3>1 DEF EffectiveRow
    <3> QED
      BY <3>2
  <2>4. CASE ~(e.from > n.from)
    <3>1. IsLater(n, e)
      BY <2>2, <2>4 DEF IsLater, Version
    <3>2. \A y \in S : y.from <= t => IsLater(n, y)
      BY <2>2, <3>1, LaterOnce
    <3>3. n \in EffectiveRow(S \cup {n}, t)
      BY <1>3, <3>2 DEF EffectiveRow
    <3> QED
      BY <3>3
  <2> QED
    BY <2>3, <2>4
<1> QED
  BY <1>1, <1>2, <1>3

-----------------------------------------------------------------------------
(* What a transaction writes.                                              *)

\* The value in force is one that its definition allows.
LEMMA ValueTyped ==
  ASSUME VersionsTyped, NEW k \in Key, NEW S \in SUBSET Own(k), NEW t, k = Fee => EffectiveRow(S, t) # {}
  PROVE  ValueOf(k, S, t) \in Values[k]
<1> DEFINE row == EffectiveRow(S, t)
<1>1. CASE row = {}
  <2>1. k \in Setting
    BY <1>1 DEF Key
  <2>2. Default[k] \in Values[k]
    BY <2>1, DefaultsAgree DEF Form
  <2> QED
    BY <1>1, <2>2 DEF ValueOf
<1>2. CASE row # {}
  <2> DEFINE x == CHOOSE x \in row : TRUE
  <2>1. x \in row
    BY <1>2
  <2>2. x \in rows /\ x.key = k
    BY <2>1 DEF EffectiveRow, Own
  <2>3. ValueOf(k, S, t) = x.value
    BY <1>2 DEF ValueOf
  <2> QED
    BY <2>2, <2>3 DEF VersionsTyped
<1> QED
  BY <1>1, <1>2

\* The settings together have values that their definitions allow.
LEMMA ValuesTyped ==
  ASSUME VersionsTyped, NEW t
  PROVE  ValuesAt(t) \in Form
<1>1. \A k \in Setting : ValueAt(k, t) \in Values[k]
  BY ValueTyped, KeysDiffer DEF ValueAt, Key
<1> QED
  BY <1>1 DEF ValuesAt, Form

\* A transaction adds versions for its own time or later.
Writes(r, K, v, f, by) ==
  /\ Add(K, v, f, by)
  /\ edit[r].at \in Waiting
  /\ K \subseteq Key /\ \A k \in K : v[k] \in Values[k]
  /\ f \in 0..Horizon /\ edit[r].now <= f
  /\ by \in {"save", "revert", "cancel", "confirm"}

\* What a saved form writes, and that it was checked.
LEMMA SaveWrites ==
  ASSUME VInv, NEW r \in Edit, CommitSave(r), last' # last
  PROVE  \E K \in SUBSET Setting : /\ Writes(r, K, edit[r].form, edit[r].from, "save")
                                   /\ K = {k \in Setting : edit[r].form[k] # ValueAt(k, edit[r].from)}
                                   /\ ~CrossIssues(edit[r].form, K, edit[r].from)
<1> DEFINE q == edit[r]
           K == {k \in Setting : q.form[k] # ValueAt(k, q.from)}
<1>1. q.at = "save" /\ ~CrossIssues(q.form, K, q.from) /\ Add(K, q.form, q.from, "save")
  BY DEF CommitSave, DropEdit
<1>2. EditTyped(q, now, rows)
  BY DEF VInv, EditsTyped
<1>3. q.form \in Form /\ q.from \in 0..Horizon /\ q.now <= q.from
  BY <1>1, <1>2, BoundsAreNatural DEF EditTyped, Waiting
<1>4. \A k \in K : q.form[k] \in Values[k]
  BY <1>3 DEF Form
<1> QED
  BY <1>1, <1>3, <1>4 DEF Writes, Waiting, Key

\* What going back to an earlier value writes, and that it was checked.
LEMMA RevertWrites ==
  ASSUME VInv, NEW r \in Edit, CommitRevert(r), last' # last
  PROVE  \E k \in Setting, v \in Form : /\ Writes(r, {k}, v, edit[r].now, "revert")
                                        /\ ~CrossIssues(v, {k}, edit[r].now)
<1> DEFINE q == edit[r]
           k == q.row.key
           v == [ValuesAt(q.now) EXCEPT ![k] = q.row.value]
<1>1. q.at = "revert" /\ ~CrossIssues(v, {k}, q.now) /\ Add({k}, v, q.now, "revert")
  BY DEF CommitRevert, DropEdit
<1>2. EditTyped(q, now, rows) /\ VersionsTyped
  BY DEF VInv, EditsTyped
<1>3. q.row \in rows /\ k # Fee /\ q.now \in 1..now
  BY <1>1, <1>2 DEF EditTyped, Waiting
<1>4. k \in Setting /\ q.row.value \in Values[k] /\ q.now \in 0..Horizon /\ q.now <= q.now
  <2>1. k \in Key /\ q.row.value \in Values[k]
    BY <1>2, <1>3 DEF VersionsTyped, Version
  <2>2. now \in 1..Horizon
    BY <1>2 DEF VersionsTyped
  <2> QED
    BY <1>3, <2>1, <2>2, BoundsAreNatural DEF Key
<1>5. ValuesAt(q.now) \in Form
  BY <1>2, ValuesTyped
<1>6. v \in Form /\ v[k] \in Values[k]
  BY <1>4, <1>5 DEF Form
<1> HIDE DEF v
<1> QED
  BY <1>1, <1>4, <1>6 DEF Writes, Waiting, Key

\* The time just before, and what applied then.
LEMMA JustBefore ==
  ASSUME VersionsTyped, NEW x \in rows
  PROVE  /\ EffectiveRow(Before(x), x.from) = EffectiveRow(Own(x.key), x.from - 1)
         /\ ValueOf(x.key, Before(x), x.from) = ValueAt(x.key, x.from - 1)
<1>1. \A y \in Own(x.key) : y.from \in Nat /\ x.from \in Nat
  BY DEF VersionsTyped, Version, Own
<1>2. EffectiveRow(Before(x), x.from) = EffectiveRow(Own(x.key), x.from - 1)
  BY <1>1, SameVersions DEF Before
<1> QED
  BY <1>2 DEF ValueOf, ValueAt

\* There is a fee schedule at any time.
LEMMA FeeInForce ==
  ASSUME VersionsTyped, SomeEffective, NEW t \in Nat
  PROVE  /\ EffectiveRow(Own(Fee), t) # {}
         /\ FeeRow(t) \in Own(Fee)
<1>1. EffectiveRow(Own(Fee), t) # {}
  <2>1. PICK y \in rows : y.key = Fee /\ y.from = 0
    BY DEF VersionsTyped
  <2>2. y \in Own(Fee) /\ y.from <= t
    BY <2>1 DEF Own
  <2> QED
    BY <2>2 DEF SomeEffective, Key
<1>2. FeeRow(t) \in EffectiveRow(Own(Fee), t)
  BY <1>1 DEF FeeRow
<1> QED
  BY <1>1, <1>2 DEF EffectiveRow

\* A cancellation writes one version: what applied before, for the same time.
LEMMA CancelWrites ==
  ASSUME VInv, NEW r \in Edit, CommitCancel(r), last' # last
  PROVE  /\ edit[r].row \in rows /\ edit[r].row.from > edit[r].now
         /\ Writes(r, {edit[r].row.key}, [k \in {edit[r].row.key} |-> Restored(edit[r].row)], edit[r].row.from, "cancel")
<1> DEFINE q == edit[r]
           x == q.row
           v == [k \in {x.key} |-> Restored(x)]
<1>1. q.at = "cancel" /\ Cancellable(x, q.now) /\ Add({x.key}, v, x.from, "cancel")
  BY DEF CommitCancel, DropEdit
<1>2. EditTyped(q, now, rows) /\ VersionsTyped /\ SomeEffective
  BY DEF VInv, EditsTyped
<1>3. x \in rows /\ q.now \in 1..now /\ x.from > q.now
  BY <1>1, <1>2 DEF EditTyped, Waiting, Cancellable
<1>4. x.key \in Key /\ x.from \in 0..Horizon /\ q.now <= x.from /\ x.from - 1 \in Nat /\ now \in Nat
  BY <1>2, <1>3, BoundsAreNatural DEF VersionsTyped, Version
<1>5. ValueAt(x.key, x.from - 1) \in Values[x.key]
  <2>1. x.key = Fee => EffectiveRow(Own(x.key), x.from - 1) # {}
    BY <1>2, <1>4, FeeInForce
  <2> QED
    BY <1>2, <1>4, <2>1, ValueTyped DEF ValueAt
<1>6. Restored(x) \in Values[x.key]
  BY <1>2, <1>3, <1>5, JustBefore DEF Restored
<1>7. \A k \in {x.key} : v[k] \in Values[k]
  BY <1>6
<1> HIDE DEF v
<1> QED
  BY <1>1, <1>3, <1>4, <1>7 DEF Writes, Waiting, v

\* Defaults are confirmed only where nothing else is in force.
LEMMA ConfirmWrites ==
  ASSUME VInv, NEW r \in Edit, CommitConfirm(r), last' # last
  PROVE  \E K \in SUBSET Setting : /\ Writes(r, K, Default, edit[r].now, "confirm")
                                   /\ \A k \in K : EffectiveRow(Own(k), edit[r].now) = {}
<1> DEFINE q == edit[r]
           K == {k \in q.keys : EffectiveRow(Own(k), q.now) = {}}
<1>1. q.at = "confirm" /\ Add(K, Default, q.now, "confirm")
  BY DEF CommitConfirm, DropEdit
<1>2. EditTyped(q, now, rows) /\ VersionsTyped
  BY DEF VInv, EditsTyped
<1>3. K \in SUBSET Setting /\ q.now \in 0..Horizon /\ q.now <= q.now
  <2>1. q.keys \subseteq Setting /\ q.now \in 1..now
    BY <1>1, <1>2 DEF EditTyped, Waiting
  <2>2. now \in 1..Horizon
    BY <1>2 DEF VersionsTyped
  <2> QED
    BY <2>1, <2>2, BoundsAreNatural
<1>4. \A k \in K : Default[k] \in Values[k]
  BY <1>3, DefaultsAgree DEF Form
<1> QED
  BY <1>1, <1>3, <1>4 DEF Writes, Waiting, Key

\* A new fee schedule is one version.
LEMMA FeeWrites ==
  ASSUME VInv, NEW r \in Edit, CommitFee(r), last' # last
  PROVE  Writes(r, {Fee}, [k \in {Fee} |-> edit[r].value], edit[r].from, "save")
<1> DEFINE q == edit[r]
<1>1. q.at = "fee" /\ Add({Fee}, [k \in {Fee} |-> q.value], q.from, "save")
  BY DEF CommitFee, DropEdit
<1>2. EditTyped(q, now, rows)
  BY DEF VInv, EditsTyped
<1>3. q.value \in Values[Fee] /\ q.from \in 0..Horizon /\ q.now <= q.from
  BY <1>1, <1>2, BoundsAreNatural DEF EditTyped, Waiting
<1> QED
  BY <1>1, <1>3 DEF Writes, Waiting, Key

-----------------------------------------------------------------------------
(* The invariant.                                                          *)

New(k, v, f, by) == [id |-> last + 1, key |-> k, value |-> v[k], from |-> f, by |-> by]

\* What is added for a key is the newest version of it.
LEMMA OwnAfter ==
  ASSUME VersionsTyped, NEW r \in Edit, NEW K, NEW v, NEW f, NEW by, Writes(r, K, v, f, by), NEW k \in Key
  PROVE  /\ Own(k) \in SUBSET Version
         /\ k \notin K => Own(k)' = Own(k)
         /\ k \in K => /\ Own(k)' = Own(k) \cup {New(k, v, f, by)}
                       /\ New(k, v, f, by) \in Version
                       /\ \A y \in Own(k) : y.id < New(k, v, f, by).id
<1>1. Own(k) \in SUBSET Version
  BY DEF VersionsTyped, Own
<1>2. rows' = rows \cup {New(j, v, f, by) : j \in K}
  BY DEF Writes, Add, New
<1>3. \A j \in K : New(j, v, f, by).key = j
  BY DEF New
<1>4. k \notin K => Own(k)' = Own(k)
  BY <1>2, <1>3 DEF Own
<1>5. ASSUME k \in K PROVE Own(k)' = Own(k) \cup {New(k, v, f, by)}
  BY <1>2, <1>3, <1>5 DEF Own
<1>6. ASSUME k \in K PROVE New(k, v, f, by) \in Version
  <2>1. v[k] \in UNION {Values[j] : j \in Key}
    BY <1>6 DEF Writes
  <2>2. f \in Nat /\ last + 1 \in Nat
    BY BoundsAreNatural DEF Writes, VersionsTyped
  <2> QED
    BY <2>1, <2>2 DEF New, Version, Writes
<1>7. \A y \in Own(k) : y.id < New(k, v, f, by).id
  BY DEF Own, VersionsTyped, New
<1> QED
  BY <1>1, <1>4, <1>5, <1>6, <1>7

\* After a transaction the versions are legal, and at each time some fee
\* schedule is in force.
LEMMA WriteKeeps ==
  ASSUME VInv, NEW r \in Edit, NEW K, NEW v, NEW f, NEW by, Writes(r, K, v, f, by), now' = now
  PROVE  VersionsTyped' /\ SomeEffective'
<1>0. VersionsTyped /\ SomeEffective
  BY DEF VInv
<1>1. K \subseteq Key /\ last' = last + 1 /\ last \in Nat /\ rows' = rows \cup {New(k, v, f, by) : k \in K}
  BY <1>0 DEF Writes, Add, New, VersionsTyped
<1>3. \A k \in K : /\ New(k, v, f, by) \in Version /\ New(k, v, f, by).from <= Horizon
                   /\ New(k, v, f, by).id = last + 1 /\ New(k, v, f, by).key = k
                   /\ New(k, v, f, by).value \in Values[k]
  <2>1. \A k \in K : New(k, v, f, by) \in Version
    BY <1>0, <1>1, OwnAfter
  <2>2. f <= Horizon /\ \A k \in K : v[k] \in Values[k]
    BY BoundsAreNatural DEF Writes
  <2> QED
    BY <2>1, <2>2 DEF New
<1>4. \A x \in rows : x.id \in 1..last /\ x.id # last + 1
  BY <1>0, <1>1 DEF VersionsTyped
<1>5. VersionsTyped'
  <2>1. rows' \subseteq Version
    BY <1>0, <1>1, <1>3 DEF VersionsTyped
  <2>2. \A x \in rows' : x.id \in 1..last' /\ x.from <= Horizon /\ x.value \in Values[x.key]
    <3>1. \A x \in rows : x.id \in 1..last' /\ x.from <= Horizon /\ x.value \in Values[x.key]
      BY <1>0, <1>1 DEF VersionsTyped
    <3> QED
      BY <1>1, <1>3, <3>1
  <2>3. \A x, y \in rows' : x.key = y.key /\ x.id = y.id => x = y
    BY <1>0, <1>1, <1>3, <1>4 DEF VersionsTyped
  <2> QED
    BY <1>0, <1>1, <2>1, <2>2, <2>3 DEF VersionsTyped
<1>6. ASSUME NEW k \in Key, NEW t \in Nat, \E y \in Own(k)' : y.from <= t
      PROVE  EffectiveRow(Own(k)', t) # {}
  <2>1. (\E y \in Own(k) : y.from <= t) => EffectiveRow(Own(k), t) # {}
    BY <1>0 DEF SomeEffective
  <2>2. CASE k \in K
    <3> DEFINE n == New(k, v, f, by)
    <3>1. Own(k) \in SUBSET Version /\ Own(k)' = Own(k) \cup {n} /\ n \in Version /\ \A y \in Own(k) : y.id < n.id
      BY <1>0, <2>2, OwnAfter
    <3> HIDE DEF n
    <3> QED
      BY <1>6, <2>1, <3>1, StillEffective
  <2>3. CASE k \notin K
    <3>1. Own(k)' = Own(k)
      BY <1>0, <2>3, OwnAfter
    <3> QED
      BY <1>6, <2>1, <3>1
  <2> QED
    BY <2>2, <2>3
<1> QED
  BY <1>5, <1>6 DEF SomeEffective, EffectiveRow

\* What a request has read stays in place.
LEMMA EditStays ==
  ASSUME NEW q, NEW n \in Nat, NEW m \in Nat, n <= m, NEW R, NEW S, R \subseteq S, EditTyped(q, n, R)
  PROVE  EditTyped(q, m, S)
  BY DEF EditTyped

\* Whatever a step writes, it writes by one of the transactions.
Committing(r) == CommitSave(r) \/ CommitRevert(r) \/ CommitCancel(r) \/ CommitConfirm(r) \/ CommitFee(r)

\* A transaction that takes a new id is one of the writes above.
LEMMA CommitWrites ==
  ASSUME VInv, NEW r \in Edit, Committing(r), last' # last
  PROVE  \E K, v, f, by : Writes(r, K, v, f, by)
  BY SaveWrites, RevertWrites, CancelWrites, ConfirmWrites, FeeWrites DEF Committing

\* A transaction clears its request or keeps its time, and writes with a new
\* id or not at all.
LEMMA CommitElse ==
  ASSUME last \in Nat, NEW r \in Edit, Committing(r)
  PROVE  /\ now' = now /\ app' = app /\ UNCHANGED run
         /\ edit' = [edit EXCEPT ![r] = NoEdit] \/ edit' = [edit EXCEPT ![r] = [at |-> "reprice", now |-> edit[r].now]]
         /\ edit[r].at \in Waiting
         /\ UNCHANGED <<rows, last>> \/ last' # last
  BY DEF Committing, CommitSave, CommitRevert, CommitCancel, CommitConfirm, CommitFee, DropEdit, End, Add, Waiting

\* What requests hold stays legal, whoever moves.
LEMMA EditsKeep ==
  ASSUME VInv, NEW r \in Edit, Editing(r), VersionsTyped', rows \subseteq rows', now' = now
  PROVE  EditsTyped'
<1>0. VersionsTyped /\ SomeEffective /\ EditsTyped /\ now \in 1..Horizon /\ now' \in Nat /\ last \in Nat /\ Horizon \in Nat
  BY BoundsAreNatural DEF VInv, VersionsTyped
<1>1. ASSUME NEW q, edit' = [edit EXCEPT ![r] = q], EditTyped(q, now', rows') PROVE EditsTyped'
  <2>1. edit' = [s \in Edit |-> edit'[s]] /\ \A s \in Edit : edit'[s] = IF s = r THEN q ELSE edit[s]
    BY <1>0, <1>1 DEF EditsTyped
  <2>2. \A s \in Edit : EditTyped(edit[s], now', rows')
    BY <1>0, EditStays DEF EditsTyped
  <2>3. \A s \in Edit : EditTyped(edit'[s], now', rows')
    BY <1>1, <2>1, <2>2
  <2> QED
    BY <2>1, <2>3 DEF EditsTyped
<1>2. EditTyped(NoEdit, now', rows')
  BY DEF EditTyped, NoEdit, Waiting
<1>3. CASE OpenForm(r)
  <2> DEFINE q == [at |-> "form", shown |-> ValuesAt(now)]
  <2>1. q.at = "form"
    OBVIOUS
  <2>2. edit' = [edit EXCEPT ![r] = q]
    BY <1>3 DEF OpenForm
  <2> HIDE DEF q
  <2>3. EditTyped(q, now', rows')
    BY <2>1 DEF EditTyped, Waiting
  <2> QED
    BY <1>1, <2>2, <2>3
<1>4. ASSUME NEW form \in Form, NEW t \in 0..Horizon, AskSave(r, form, t) PROVE EditsTyped'
  <2> DEFINE q == [at |-> "save", now |-> now, from |-> EffectiveFrom(t), form |-> form]
  <2>1. EffectiveFrom(t) \in now..Horizon
    BY <1>0 DEF EffectiveFrom
  <2>2. EditTyped(q, now', rows')
    BY <1>0, <2>1 DEF EditTyped, Waiting
  <2>3. edit' = [edit EXCEPT ![r] = q]
    BY <1>4 DEF AskSave
  <2> QED
    BY <1>1, <2>2, <2>3
<1>5. ASSUME NEW x \in rows, AskRevert(r, x) \/ AskCancel(r, x) PROVE EditsTyped'
  <2>1. PICK a \in {"revert", "cancel"} : /\ edit' = [edit EXCEPT ![r] = [at |-> a, now |-> now, row |-> x]]
                                          /\ a = "revert" => x.key # Fee
    BY <1>5 DEF AskRevert, AskCancel, Ask
  <2>2. EditTyped([at |-> a, now |-> now, row |-> x], now', rows')
    BY <1>0, <2>1 DEF EditTyped, Waiting
  <2> QED
    BY <1>1, <2>1, <2>2
<1>6. ASSUME NEW k \in Setting, AskConfirm(r, k) PROVE EditsTyped'
  <2>1. edit' = [edit EXCEPT ![r] = [at |-> "confirm", now |-> now, keys |-> {k}]]
    BY <1>6 DEF AskConfirm, Ask
  <2>2. EditTyped([at |-> "confirm", now |-> now, keys |-> {k}], now', rows')
    BY <1>0 DEF EditTyped, Waiting
  <2> QED
    BY <1>1, <2>1, <2>2
<1>7. ASSUME NEW price \in Values[Fee], NEW t \in 0..Horizon, AskFee(r, price, t) PROVE EditsTyped'
  <2> DEFINE q == [at |-> "fee", now |-> now, from |-> EffectiveFrom(t), value |-> price]
  <2>1. EffectiveFrom(t) \in now..Horizon
    BY <1>0 DEF EffectiveFrom
  <2>2. EditTyped(q, now', rows')
    BY <1>0, <2>1 DEF EditTyped, Waiting
  <2>3. edit' = [edit EXCEPT ![r] = q]
    BY <1>7 DEF AskFee, Ask
  <2> QED
    BY <1>1, <2>2, <2>3
<1>8. CASE Committing(r)
  <2> DEFINE q == [at |-> "reprice", now |-> edit[r].now]
  <2>1. \/ edit' = [edit EXCEPT ![r] = NoEdit]
        \/ edit' = [edit EXCEPT ![r] = q]
    BY <1>0, <1>8, CommitElse
  <2>2. edit[r].now \in 1..now
    BY <1>0, <1>8, CommitElse DEF EditsTyped, EditTyped
  <2>3. EditTyped(q, now', rows')
    BY <1>0, <2>2 DEF EditTyped, Waiting
  <2> QED
    BY <1>1, <1>2, <2>1, <2>3
<1>9. CASE RepriceAfterSave(r)
  BY <1>1, <1>2, <1>9 DEF RepriceAfterSave
<1> QED
  BY <1>3, <1>4, <1>5, <1>6, <1>7, <1>8, <1>9 DEF Editing, Committing

\* What the other steps are about is neither versions nor requests.
LEMMA OtherSteps ==
  ASSUME PolicyNext
  PROVE  \/ \E r \in Edit : Editing(r) /\ now' = now
         \/ UNCHANGED <<rows, last, edit>> /\ now < Horizon /\ now' = now + 1
         \/ UNCHANGED <<rows, last, edit, now>>
<1>1. ASSUME NEW r \in Edit, Editing(r) PROVE now' = now
  BY <1>1 DEF Editing, OpenForm, AskSave, AskRevert, AskCancel, AskConfirm, AskFee, Ask, CommitSave, CommitRevert, CommitCancel,
              CommitConfirm, CommitFee, DropEdit, End, RepriceAfterSave
<1>2. ASSUME NEW a \in App, Applying(a) PROVE UNCHANGED <<rows, last, edit, now>>
  BY <1>2 DEF Applying, ReadFee, Submit, Close
<1>3. ASSUME NEW j \in Edit \cup {Worker}, Repricing(j) PROVE UNCHANGED <<rows, last, edit, now>>
  BY <1>3 DEF Repricing, Reprice
<1>4. RepriceJob => UNCHANGED <<rows, last, edit, now>>
  BY DEF RepriceJob
<1>5. Tick => UNCHANGED <<rows, last, edit>> /\ now < Horizon /\ now' = now + 1
  BY DEF Tick
<1> QED
  BY <1>1, <1>2, <1>3, <1>4, <1>5 DEF PolicyNext

\* Only transactions write.
LEMMA EditingWrites ==
  ASSUME VInv, NEW r \in Edit, Editing(r), ~UNCHANGED <<rows, last>>
  PROVE  Committing(r) /\ last' # last
<1>1. Committing(r)
  BY DEF Editing, Committing, OpenForm, AskSave, AskRevert, AskCancel, AskConfirm, AskFee, Ask, RepriceAfterSave
<1> QED
  BY <1>1, CommitElse DEF VInv, VersionsTyped

\* Versions and requests are legal.
LEMMA VersionsInvariance == PolicySpec => []VInv
<1>1. PolicyInit => VInv
  <2> SUFFICES ASSUME PolicyInit PROVE VInv
    OBVIOUS
  <2> DEFINE x == [id |-> 1, key |-> Fee, value |-> FirstFee, from |-> 0, by |-> "save"]
  <2>1. rows = {x} /\ last = 1 /\ now = 1 /\ Fee \in Key
    BY DEF PolicyInit, Key
  <2>2. x \in Version /\ x.id = 1 /\ x.key = Fee /\ x.from = 0 /\ x.value \in Values[Fee]
    <3>1. FirstFee \in UNION {Values[k] : k \in Key}
      BY <2>1, FeesArePrices
    <3> QED
      BY <2>1, <3>1, FeesArePrices DEF Version
  <2> HIDE DEF x
  <2>3. VersionsTyped
    BY <2>1, <2>2, BoundsAreNatural DEF VersionsTyped
  <2>4. SomeEffective
    <3> SUFFICES ASSUME NEW k \in Key, NEW t \in Nat, NEW y \in Own(k), y.from <= t PROVE EffectiveRow(Own(k), t) # {}
      BY DEF SomeEffective
    <3>1. y = x /\ Own(k) = {x}
      BY <2>1 DEF Own
    <3>2. x \in EffectiveRow(Own(k), t)
      BY <3>1 DEF EffectiveRow
    <3> QED
      BY <3>2
  <2>5. EditsTyped
    BY DEF PolicyInit, EditsTyped, EditTyped, NoEdit, Waiting
  <2> QED
    BY <2>3, <2>4, <2>5 DEF VInv
<1>2. VInv /\ [PolicyNext]_policyVars => VInv'
  <2> SUFFICES ASSUME VInv, [PolicyNext]_policyVars PROVE VInv'
    OBVIOUS
  <2>0. VersionsTyped /\ SomeEffective /\ EditsTyped /\ Horizon \in Nat /\ now \in 1..Horizon
    BY BoundsAreNatural DEF VInv, VersionsTyped
  <2>1. ASSUME UNCHANGED <<rows, last, edit>>, now' \in now..Horizon PROVE VInv'
    <3>1. VersionsTyped' /\ SomeEffective'
      BY <2>0, <2>1 DEF VersionsTyped, SomeEffective, Own
    <3>2. \A r \in Edit : EditTyped(edit[r], now', rows)
      BY <2>0, <2>1, EditStays DEF EditsTyped
    <3>3. EditsTyped'
      BY <2>0, <2>1, <3>2 DEF EditsTyped
    <3> QED
      BY <3>1, <3>3 DEF VInv
  <2>2. ASSUME NEW r \in Edit, Editing(r), now' = now PROVE VInv'
    <3>1. CASE UNCHANGED <<rows, last>>
      <4>1. VersionsTyped' /\ SomeEffective'
        BY <2>0, <2>2, <3>1 DEF VersionsTyped, SomeEffective, Own
      <4> QED
        BY <2>2, <3>1, <4>1, EditsKeep DEF VInv
    <3>2. CASE ~UNCHANGED <<rows, last>>
      <4>1. PICK K, v, f, by : Writes(r, K, v, f, by)
        BY <2>2, <3>2, EditingWrites, CommitWrites
      <4>2. VersionsTyped' /\ SomeEffective' /\ rows \subseteq rows'
        BY <2>2, <4>1, WriteKeeps DEF Writes, Add
      <4> QED
        BY <2>2, <4>2, EditsKeep DEF VInv
    <3> QED
      BY <3>1, <3>2
  <2>3. CASE PolicyNext
    BY <2>0, <2>1, <2>2, <2>3, OtherSteps
  <2>4. CASE UNCHANGED policyVars
    BY <2>0, <2>1, <2>4 DEF policyVars
  <2> QED
    BY <2>3, <2>4
<1> QED
  BY <1>1, <1>2, PTL DEF PolicySpec

-----------------------------------------------------------------------------
(* The past, and cancellations.                                            *)

\* What applied in the past is never rewritten: a transaction adds versions
\* for the time its request came at, or later.
THEOREM PastIsFixed == PolicySpec => PastStands
<1>1. ASSUME VInv, [PolicyNext]_policyVars, NEW k \in Key, NEW t \in 0..Horizon, \A u \in OldestEdit : t < u
      PROVE  EffectiveRow(Own(k), t)' = EffectiveRow(Own(k), t)
  <2>0. VersionsTyped /\ SomeEffective /\ EditsTyped /\ now \in Nat
    BY <1>1, BoundsAreNatural DEF VInv, VersionsTyped
  <2>1. CASE UNCHANGED <<rows, last>>
    BY <2>1 DEF Own, EffectiveRow
  <2>2. CASE ~UNCHANGED <<rows, last>>
    <3>1. PICK r \in Edit : Editing(r)
      BY <1>1, <2>2, OtherSteps DEF policyVars
    <3>2. PICK K, v, f, by : Writes(r, K, v, f, by)
      BY <1>1, <2>2, <3>1, EditingWrites, CommitWrites
    <3>3. edit[r].now \in OldestEdit /\ edit[r].now \in Nat /\ f \in Nat /\ edit[r].now <= f
      BY <2>0, <3>2, BoundsAreNatural DEF Writes, Waiting, OldestEdit, EditsTyped, EditTyped
    <3>4. ~(f <= t)
      BY <1>1, <3>3, BoundsAreNatural
    <3> DEFINE n == New(k, v, f, by)
    <3>5. Own(k)' = Own(k) \/ Own(k)' = Own(k) \cup {n}
      BY <2>0, <3>2, OwnAfter
    <3>6. \A x \in {n} : ~(x.from <= t)
      BY <3>4 DEF New
    <3> HIDE DEF n
    <3>7. EffectiveRow(Own(k) \cup {n}, t) = EffectiveRow(Own(k), t)
      BY <3>6, LaterTimes
    <3>8. EffectiveRow(Own(k)', t) = EffectiveRow(Own(k), t)
      BY <3>5, <3>7
    <3> QED
      BY <3>8 DEF EffectiveRow
  <2> QED
    BY <2>1, <2>2
<1>2. VInv /\ [PolicyNext]_policyVars =>
        \A k \in Key, t \in 0..Horizon :
          t < now /\ (\A u \in OldestEdit : t < u) => EffectiveRow(Own(k), t)' = EffectiveRow(Own(k), t)
  BY <1>1
<1> QED
  BY <1>2, VersionsInvariance, PTL DEF PolicySpec, PastStands

\* The version that a cancellation adds puts back what applied before.
LEMMA CancelRestores ==
  ASSUME VInv, NEW r \in Edit, CommitCancel(r), last' # last, NEW x, x = edit[r].row
  PROVE  /\ ValueAt(x.key, x.from)' = ValueAt(x.key, x.from - 1)
         /\ \A k \in Key, t \in 0..Horizon : k # x.key \/ t < x.from => ValueAt(k, t)' = ValueAt(k, t)
<1> DEFINE v == [k \in {x.key} |-> Restored(x)]
           n == New(x.key, v, x.from, "cancel")
<1>0. VersionsTyped
  BY DEF VInv
<1>1. x \in rows /\ Writes(r, {x.key}, v, x.from, "cancel")
  BY CancelWrites
<1>2. x.key \in Key /\ x.from \in Nat
  BY <1>0, <1>1 DEF VersionsTyped, Version
<1>3. /\ Own(x.key) \in SUBSET Version
      /\ Own(x.key)' = Own(x.key) \cup {n} /\ n \in Version /\ \A y \in Own(x.key) : y.id < n.id
  BY <1>0, <1>1, <1>2, OwnAfter
<1>4. n.from = x.from /\ n.value = Restored(x)
  BY DEF New
<1> HIDE DEF v, n
<1>5. ValueAt(x.key, x.from)' = ValueAt(x.key, x.from - 1)
  <2>1. EffectiveRow(Own(x.key) \cup {n}, x.from) = {n}
    <3>1. n.from <= x.from /\ \A y \in Own(x.key) : y.from <= x.from => y.from <= n.from
      BY <1>2, <1>4
    <3> QED
      BY <1>2, <1>3, <3>1, NewestWins
  <2>2. ValueOf(x.key, Own(x.key)', x.from) = Restored(x)
    BY <1>3, <1>4, <2>1 DEF ValueOf
  <2>3. Restored(x) = ValueAt(x.key, x.from - 1)
    BY <1>0, <1>1, JustBefore DEF Restored
  <2> QED
    BY <2>2, <2>3 DEF ValueAt, ValueOf, EffectiveRow
<1>6. ASSUME NEW k \in Key, NEW t \in 0..Horizon, k # x.key \/ t < x.from PROVE ValueAt(k, t)' = ValueAt(k, t)
  <2>1. CASE k # x.key
    <3>1. Own(k)' = Own(k)
      BY <1>0, <1>1, <2>1, OwnAfter
    <3> QED
      BY <3>1 DEF ValueAt, ValueOf, EffectiveRow
  <2>2. CASE k = x.key /\ t < x.from
    <3>1. \A y \in {n} : ~(y.from <= t)
      BY <1>2, <1>4, <2>2, BoundsAreNatural
    <3>2. EffectiveRow(Own(k) \cup {n}, t) = EffectiveRow(Own(k), t)
      BY <3>1, LaterTimes
    <3>3. ValueOf(k, Own(k)', t) = ValueOf(k, Own(k), t)
      <4>1. Own(k)' = Own(k) \cup {n}
        BY <1>3, <2>2 DEF Own
      <4>2. EffectiveRow(Own(k)', t) = EffectiveRow(Own(k), t)
        BY <3>2, <4>1
      <4> QED
        BY <4>2 DEF ValueOf
    <3> QED
      BY <3>3 DEF ValueAt, ValueOf, EffectiveRow
  <2> QED
    BY <1>6, <2>1, <2>2
<1> QED
  BY <1>5, <1>6

\* A cancelled reservation leaves what applied just before, and all else.
THEOREM CancelledSilently == PolicySpec => CancelIsSilent
<1>1. ASSUME VInv, [PolicyNext]_policyVars, NEW r \in Edit, edit[r].at = "cancel", edit'[r] = NoEdit, rows' # rows
      PROVE  CommitCancel(r) /\ last' # last
  <2>1. PICK s \in Edit : Editing(s)
    BY <1>1, OtherSteps DEF policyVars
  <2>2. Committing(s) /\ last' # last
    BY <1>1, <2>1, EditingWrites
  <2>3. \E q : edit' = [edit EXCEPT ![s] = q]
    BY <1>1, <2>2, CommitElse DEF VInv, VersionsTyped
  <2>4. s = r
    BY <1>1, <2>3 DEF NoEdit
  <2> QED
    BY <1>1, <2>2, <2>4 DEF Committing, CommitSave, CommitRevert, CommitConfirm, CommitFee
<1>2. VInv /\ [PolicyNext]_policyVars =>
        \A r \in Edit : edit[r].at = "cancel" /\ edit'[r] = NoEdit /\ rows' # rows =>
          \A x \in {edit[r].row} :
          /\ ValueAt(x.key, x.from)' = ValueAt(x.key, x.from - 1)
          /\ \A k \in Key, t \in 0..Horizon : k # x.key \/ t < x.from => ValueAt(k, t)' = ValueAt(k, t)
  BY <1>1, CancelRestores
<1> QED
  BY <1>2, VersionsInvariance, PTL DEF PolicySpec, CancelIsSilent

-----------------------------------------------------------------------------
(* The rules between settings.                                             *)

\* A rule depends on the settings it names, and on no others.  In the code it
\* is so of all but the rule about the end of the night, which names the ends
\* of day and night and depends on nightEnabled too.
RulesNameTheirKeys ==
  \A rule \in Rule, f, g \in Form : (\A k \in rule.on : f[k] = g[k]) => (f \in rule.met <=> g \in rule.met)

OwnVersions == {x \in rows : x.key # Fee}

InOrder == (\A x \in OwnVersions : x.by # "cancel") /\ (\A x, y \in OwnVersions : x.id < y.id => x.from <= y.from)

RulesMet == \A t \in 0..Horizon, rule \in Rule : ValuesAt(t) \in rule.met

\* The settings once K is changed at time f.
Changed(K, v, f) == [k \in Setting |-> IF k \in K THEN v[k] ELSE ValueAt(k, f)]

\* Versions added in order: before their time nothing changes, and from then
\* on the settings are what they were at that time, with the changes.
LEMMA InOrderWrites ==
  ASSUME VInv, NEW r \in Edit, NEW K \in SUBSET Setting, K # {}, NEW v, NEW f, NEW by, Writes(r, K, v, f, by),
         InOrder', NEW t \in 0..Horizon
  PROVE  ValuesAt(t)' = IF t < f THEN ValuesAt(t) ELSE Changed(K, v, f)
<1>0. VersionsTyped /\ f \in 0..Horizon /\ Horizon \in Nat /\ t \in Nat
  BY BoundsAreNatural DEF VInv, Writes
<1>1. rows' = rows \cup {New(k, v, f, by) : k \in K}
  BY DEF Writes, Add, New
<1>2. \A k \in K : New(k, v, f, by).id = last + 1 /\ New(k, v, f, by).key = k /\ New(k, v, f, by).from = f
                   /\ New(k, v, f, by).value = v[k] /\ k # Fee
  BY KeysDiffer DEF New
<1>3. ASSUME NEW k \in Setting, NEW y \in Own(k) PROVE y.from <= f
  <2>1. PICK j \in K : TRUE
    OBVIOUS
  <2> DEFINE n == New(j, v, f, by)
  <2>2. y \in rows' /\ n \in rows' /\ y.key # Fee /\ n.key # Fee
    BY <1>1, <1>2, <1>3, KeysDiffer DEF Own
  <2>3. y.id < n.id
    BY <1>0, <1>2, <1>3 DEF Own, VersionsTyped
  <2> QED
    BY <1>2, <2>2, <2>3 DEF InOrder, OwnVersions
<1>4. ASSUME NEW k \in Setting
      PROVE  ValueAt(k, t)' = IF t < f THEN ValueAt(k, t) ELSE Changed(K, v, f)[k]
  <2> DEFINE n == New(k, v, f, by)
  <2>0. k \in Key
    BY DEF Key
  <2>1. CASE k \notin K
    <3>1. Own(k)' = Own(k)
      BY <1>0, <2>0, <2>1, OwnAfter
    <3>2. CASE t < f
      BY <3>1, <3>2 DEF ValueAt, ValueOf, EffectiveRow
    <3>3. CASE ~(t < f)
      <4>1. EffectiveRow(Own(k), t) = EffectiveRow(Own(k), f)
        <5>1. \A x \in Own(k) : x.from <= f /\ x.from <= t
          <6>1. \A x \in Own(k) : x.from \in Nat
            BY <1>0 DEF Own, VersionsTyped, Version
          <6> QED
            BY <1>0, <1>3, <3>3, <6>1
        <5> QED
          BY <5>1, SameVersions
      <4>2. ValueAt(k, t) = ValueAt(k, f)
        BY <4>1 DEF ValueAt, ValueOf
      <4>3. ValueAt(k, t)' = ValueAt(k, t)
        BY <3>1 DEF ValueAt, ValueOf, EffectiveRow
      <4> QED
        BY <2>1, <3>3, <4>2, <4>3 DEF Changed
    <3> QED
      BY <3>2, <3>3
  <2>2. CASE k \in K
    <3>1. /\ Own(k) \in SUBSET Version
          /\ Own(k)' = Own(k) \cup {n} /\ n \in Version /\ \A y \in Own(k) : y.id < n.id
      BY <1>0, <2>0, <2>2, OwnAfter
    <3>2. n.from = f /\ n.value = v[k]
      BY DEF New
    <3> HIDE DEF n
    <3>3. CASE t < f
      <4>1. \A x \in {n} : ~(x.from <= t)
        BY <1>0, <3>2, <3>3
      <4>2. EffectiveRow(Own(k) \cup {n}, t) = EffectiveRow(Own(k), t)
        BY <4>1, LaterTimes
      <4>3. ValueOf(k, Own(k)', t) = ValueOf(k, Own(k), t)
        <5>1. EffectiveRow(Own(k)', t) = EffectiveRow(Own(k), t)
          BY <3>1, <4>2
        <5> QED
          BY <5>1 DEF ValueOf
      <4> QED
        BY <3>3, <4>3 DEF ValueAt, ValueOf, EffectiveRow
    <3>4. CASE ~(t < f)
      <4>1. n.from <= t /\ \A y \in Own(k) : y.from <= t => y.from <= n.from
        BY <1>0, <1>3, <3>2, <3>4
      <4>2. EffectiveRow(Own(k) \cup {n}, t) = {n}
        BY <1>0, <3>1, <4>1, NewestWins
      <4>3. ValueOf(k, Own(k)', t) = v[k]
        BY <3>1, <3>2, <4>2 DEF ValueOf
      <4>4. ValueAt(k, t)' = v[k]
        BY <4>3 DEF ValueAt, ValueOf, EffectiveRow
      <4> QED
        BY <2>2, <3>4, <4>4 DEF Changed
    <3> QED
      BY <3>3, <3>4
  <2> QED
    BY <2>1, <2>2
<1>5. ValuesAt(t)' = [k \in Setting |-> ValueAt(k, t)']
  BY DEF ValuesAt
<1>6. CASE t < f
  BY <1>4, <1>5, <1>6 DEF ValuesAt
<1>7. CASE ~(t < f)
  <2>1. ValuesAt(t)' = [k \in Setting |-> Changed(K, v, f)[k]]
    BY <1>4, <1>5, <1>7
  <2> QED
    BY <1>7, <2>1 DEF Changed
<1> QED
  BY <1>6, <1>7

\* What was checked meets every rule, those that it does not concern as well.
LEMMA CheckedMeets ==
  ASSUME RulesNameTheirKeys, VInv, NEW K \in SUBSET Setting, NEW v \in Form, NEW f \in 0..Horizon,
         ~CrossIssues(v, K, f), \A rule \in Rule : ValuesAt(f) \in rule.met
  PROVE  \A rule \in Rule : Changed(K, v, f) \in rule.met
<1> SUFFICES ASSUME NEW rule \in Rule PROVE Changed(K, v, f) \in rule.met
  OBVIOUS
<1>1. Changed(K, v, f) = [k \in Setting |-> IF k \in K THEN v[k] ELSE ValuesAt(f)[k]]
  BY DEF Changed, ValuesAt
<1>2. CASE rule.on \cap K # {}
  BY <1>1, <1>2 DEF CrossIssues, Broken
<1>3. CASE rule.on \cap K = {}
  <2>1. ValuesAt(f) \in Form
    BY ValuesTyped DEF VInv
  <2>2. Changed(K, v, f) \in Form
    BY <1>1, <2>1 DEF Form
  <2>3. \A k \in rule.on : Changed(K, v, f)[k] = ValuesAt(f)[k]
    BY <1>1, <1>3, DefaultsAgree
  <2> QED
    BY <2>1, <2>2, <2>3 DEF RulesNameTheirKeys
<1> QED
  BY <1>2, <1>3

\* One transaction on settings.
LEMMA RulesStep ==
  ASSUME RulesNameTheirKeys, VInv, NEW r \in Edit, Committing(r), last' # last, InOrder', RulesMet
  PROVE  RulesMet'
<1>0. VersionsTyped
  BY DEF VInv
<1>1. ASSUME NEW K \in SUBSET Setting, NEW v, NEW f, NEW by, Writes(r, K, v, f, by),
             \A rule \in Rule : Changed(K, v, f) \in rule.met
      PROVE  RulesMet'
  <2>1. CASE K = {}
    <3>1. \A k \in Setting : Own(k)' = Own(k)
      BY <1>0, <1>1, <2>1, OwnAfter DEF Key
    <3>2. ASSUME NEW k \in Setting, NEW t \in 0..Horizon PROVE ValueAt(k, t)' = ValueAt(k, t)
      <4>1. Own(k)' = Own(k)
        BY <3>1
      <4> QED
        BY <4>1 DEF ValueAt, ValueOf, EffectiveRow, IsLater
    <3>3. \A t \in 0..Horizon : ValuesAt(t)' = ValuesAt(t)
      BY <3>2 DEF ValuesAt
    <3> QED
      BY <3>3 DEF RulesMet
  <2>2. CASE K # {}
    <3>1. \A t \in 0..Horizon : ValuesAt(t)' = IF t < f THEN ValuesAt(t) ELSE Changed(K, v, f)
      BY <1>1, <2>2, InOrderWrites
    <3> QED
      BY <1>1, <3>1 DEF RulesMet
  <2> QED
    BY <2>1, <2>2
<1>2. CASE CommitSave(r)
  <2>1. PICK K \in SUBSET Setting : /\ Writes(r, K, edit[r].form, edit[r].from, "save")
                                    /\ ~CrossIssues(edit[r].form, K, edit[r].from)
    BY <1>2, SaveWrites
  <2>2. edit[r].form \in Form
    BY <1>2 DEF CommitSave, VInv, EditsTyped, EditTyped
  <2>3. edit[r].from \in 0..Horizon
    BY <2>1 DEF Writes
  <2>4. \A rule \in Rule : Changed(K, edit[r].form, edit[r].from) \in rule.met
    BY <2>1, <2>2, <2>3, CheckedMeets DEF RulesMet
  <2> QED
    BY <1>1, <2>1, <2>4
<1>3. CASE CommitRevert(r)
  <2>1. PICK k \in Setting, v \in Form : /\ Writes(r, {k}, v, edit[r].now, "revert")
                                         /\ ~CrossIssues(v, {k}, edit[r].now)
    BY <1>3, RevertWrites
  <2>2. edit[r].now \in 0..Horizon /\ {k} \in SUBSET Setting
    BY <2>1 DEF Writes
  <2>3. \A rule \in Rule : Changed({k}, v, edit[r].now) \in rule.met
    BY <2>1, <2>2, CheckedMeets DEF RulesMet
  <2> QED
    BY <1>1, <2>1, <2>2, <2>3
<1>4. CASE CommitConfirm(r)
  <2>1. PICK K \in SUBSET Setting : /\ Writes(r, K, Default, edit[r].now, "confirm")
                                    /\ \A k \in K : EffectiveRow(Own(k), edit[r].now) = {}
    BY <1>4, ConfirmWrites
  <2>2. \A k \in K : ValueAt(k, edit[r].now) = Default[k]
    BY <2>1 DEF ValueAt, ValueOf
  <2>3. Changed(K, Default, edit[r].now) = ValuesAt(edit[r].now)
    BY <2>2 DEF Changed, ValuesAt
  <2>4. edit[r].now \in 0..Horizon
    BY <2>1 DEF Writes
  <2>5. \A rule \in Rule : Changed(K, Default, edit[r].now) \in rule.met
    BY <2>3, <2>4 DEF RulesMet
  <2> QED
    BY <1>1, <2>1, <2>5
<1>5. ASSUME NEW v, NEW f, NEW by, Writes(r, {Fee}, v, f, by) PROVE RulesMet'
  <2>1. \A k \in Setting : Own(k)' = Own(k)
    BY <1>0, <1>5, OwnAfter, KeysDiffer DEF Key
  <2>2. ASSUME NEW k \in Setting, NEW t \in 0..Horizon PROVE ValueAt(k, t)' = ValueAt(k, t)
    <3>1. Own(k)' = Own(k)
      BY <2>1
    <3> QED
      BY <3>1 DEF ValueAt, ValueOf, EffectiveRow, IsLater
  <2>3. \A t \in 0..Horizon : ValuesAt(t)' = ValuesAt(t)
    BY <2>2 DEF ValuesAt
  <2> QED
    BY <2>3 DEF RulesMet
<1>6. CASE CommitCancel(r)
  <2> DEFINE x == edit[r].row
             v == [k \in {x.key} |-> Restored(x)]
  <2>1. Writes(r, {x.key}, v, x.from, "cancel")
    BY <1>6, CancelWrites
  <2>2. x.key = Fee
    <3> DEFINE n == New(x.key, v, x.from, "cancel")
    <3>1. n \in rows' /\ n.key = x.key /\ n.by = "cancel"
      BY <2>1 DEF Writes, Add, New
    <3> HIDE DEF n
    <3> QED
      BY <3>1 DEF InOrder, OwnVersions
  <2> QED
    BY <1>5, <2>1, <2>2
<1>7. CASE CommitFee(r)
  BY <1>5, <1>7, FeeWrites
<1> QED
  BY <1>2, <1>3, <1>4, <1>6, <1>7 DEF Committing

\* The settings agree at every time, present and to come, as long as versions
\* are added in the order of their times and no reservation is cancelled: for
\* rules that depend on no settings but those they name.
THEOREM RulesHold ==
  ASSUME RulesNameTheirKeys
  PROVE  PolicySpec => []RulesHoldInOrder
<1>1. RulesHoldInOrder <=> (InOrder => RulesMet)
  BY DEF RulesHoldInOrder, InOrder, OwnVersions, RulesMet
<1>2. PolicyInit => RulesHoldInOrder
  <2> SUFFICES ASSUME PolicyInit PROVE RulesMet
    BY <1>1
  <2>1. ASSUME NEW t \in 0..Horizon PROVE ValuesAt(t) = Default
    <3>1. \A k \in Setting : Own(k) = {}
      BY KeysDiffer DEF PolicyInit, Own
    <3>2. \A k \in Setting : ValueAt(k, t) = Default[k]
      BY <3>1 DEF ValueAt, ValueOf, EffectiveRow
    <3>3. Default = [k \in Setting |-> Default[k]]
      BY DefaultsAgree DEF Form
    <3> QED
      BY <3>2, <3>3 DEF ValuesAt
  <2> QED
    BY <2>1, DefaultsAgree DEF RulesMet
<1>3. VInv /\ RulesHoldInOrder /\ [PolicyNext]_policyVars => RulesHoldInOrder'
  <2> SUFFICES ASSUME VInv, RulesHoldInOrder, [PolicyNext]_policyVars PROVE RulesHoldInOrder'
    OBVIOUS
  <2>1. CASE UNCHANGED <<rows, last>>
    BY <2>1 DEF RulesHoldInOrder, ValuesAt, ValueAt, ValueOf, EffectiveRow, Own
  <2>2. CASE ~UNCHANGED <<rows, last>>
    <3>1. PICK r \in Edit : Committing(r) /\ last' # last
      BY <2>2, OtherSteps, EditingWrites DEF policyVars
    <3>2. rows \subseteq rows'
      <4>1. \E K, v, f, by : Writes(r, K, v, f, by)
        BY <3>1, CommitWrites
      <4> QED
        BY <4>1 DEF Writes, Add
    <3>3. InOrder' => InOrder
      BY <3>2 DEF InOrder, OwnVersions
    <3>4. InOrder' => RulesMet'
      BY <1>1, <3>1, <3>3, RulesStep
    <3> QED
      BY <3>4 DEF RulesHoldInOrder, InOrder, OwnVersions, RulesMet
  <2> QED
    BY <2>1, <2>2
<1> QED
  BY <1>2, <1>3, VersionsInvariance, PTL DEF PolicySpec

-----------------------------------------------------------------------------
(* Applications and the runs that reprice them.                            *)

FeeVersion(i) == \E x \in rows : x.key = Fee /\ x.id = i

\* What is recorded of an application.
Recorded == [status : {"none", "asking", "pending", "closed"}, method : {"bank", "pg"}, fee : Nat, total : Nat]

\* A run works on applications that were to be paid by bank transfer when it
\* began, with the number of a schedule there is.
RunsTyped ==
  /\ app \in [App -> Recorded]
  /\ run \in [Edit \cup {Worker} -> [fee : Nat, price : Nat, todo : SUBSET App]]
  /\ \A a \in App : app[a].fee # 0 => FeeVersion(app[a].fee)
  /\ \A j \in Edit \cup {Worker} : \A a \in run[j].todo :
       FeeVersion(run[j].fee) /\ app[a].method = "bank" /\ app[a].status \in {"pending", "closed"}

\* The fee schedule in force is a version, and its value a price.
LEMMA FeeRowTyped ==
  ASSUME VInv, NEW t \in Nat
  PROVE  FeeRow(t).id \in Nat /\ FeeRow(t).value \in Nat /\ FeeVersion(FeeRow(t).id)
<1>1. FeeRow(t) \in rows /\ FeeRow(t).key = Fee
  BY FeeInForce DEF VInv, Own
<1> DEFINE x == FeeRow(t)
<1> HIDE DEF x
<1>2. x \in rows /\ x.key = Fee
  BY <1>1 DEF x
<1>3. x.id \in Nat /\ x.value \in Nat
  BY <1>2, FeesArePrices DEF VInv, VersionsTyped, Version
<1> QED
  BY <1>2, <1>3 DEF x, FeeVersion

\* A run begins.
LEMMA RunBegins ==
  ASSUME VInv, RunsTyped, NEW j \in Edit \cup {Worker}, NEW t \in Nat, StartRun(j, t), app' = app, rows' = rows
  PROVE  RunsTyped'
<1> DEFINE x == FeeRow(t)
           new == [fee |-> x.id, price |-> x.value, todo |-> {a \in App : Stale(a, x.id)}]
<1>1. x.id \in Nat /\ x.value \in Nat /\ FeeVersion(x.id)
  BY FeeRowTyped
<1>2. run' = [run EXCEPT ![j] = new]
  BY DEF StartRun
<1>3. new \in [fee : Nat, price : Nat, todo : SUBSET App]
  BY <1>1
<1>4. \A a \in new.todo : app[a].method = "bank" /\ app[a].status = "pending"
  BY DEF Stale
<1>5. FeeVersion(new.fee)
  BY <1>1
<1> HIDE DEF new, x
<1> QED
  BY <1>2, <1>3, <1>4, <1>5 DEF RunsTyped, Recorded, FeeVersion

\* One application changes; runs work on none that is not submitted.
LEMMA OneChanges ==
  ASSUME RunsTyped, rows' = rows, NEW a \in App,
         app' \in [App -> Recorded],
         \A b \in App \ {a} : app'[b] = app[b],
         app'[a].fee # 0 => FeeVersion(app'[a].fee),
         app[a].status \in {"none", "asking"} \/ (app'[a].method = app[a].method /\ app'[a].status \in {"pending", "closed"}),
         NEW Q \in [Edit \cup {Worker} -> SUBSET App], run' = [j \in Edit \cup {Worker} |-> [run[j] EXCEPT !.todo = Q[j]]],
         \A j \in Edit \cup {Worker} : Q[j] \subseteq run[j].todo
  PROVE  RunsTyped'
<1>2. run' \in [Edit \cup {Worker} -> [fee : Nat, price : Nat, todo : SUBSET App]]
  BY DEF RunsTyped, Recorded
<1>3. \A j \in Edit \cup {Worker} : run'[j].fee = run[j].fee /\ run'[j].todo \subseteq run[j].todo
  BY DEF RunsTyped, Recorded
<1>6. \A n : FeeVersion(n)' <=> FeeVersion(n)
  BY DEF FeeVersion
<1>7. \A b \in App : app'[b].fee # 0 => FeeVersion(app'[b].fee)
  BY DEF RunsTyped, Recorded
<1>8. ASSUME NEW j \in Edit \cup {Worker}, NEW b \in run'[j].todo
      PROVE  FeeVersion(run'[j].fee) /\ app'[b].method = "bank" /\ app'[b].status \in {"pending", "closed"}
  <2>1. b \in run[j].todo /\ b \in App /\ FeeVersion(run'[j].fee)
    BY <1>3, <1>8 DEF RunsTyped, Recorded
  <2>2. app[b].method = "bank" /\ app[b].status \in {"pending", "closed"}
    BY <2>1 DEF RunsTyped, Recorded
  <2> QED
    BY <2>1, <2>2
<1> QED
  BY <1>2, <1>6, <1>7, <1>8 DEF RunsTyped, Recorded

\* What an application asks for was a price once, and what runs work on
\* stays to be paid by bank transfer.
LEMMA RunsInvariance == PolicySpec => []RunsTyped
<1>1. PolicyInit => RunsTyped
  BY DEF PolicyInit, RunsTyped, Recorded, NoApp, NoRun
<1>2. VInv /\ VInv' /\ RunsTyped /\ [PolicyNext]_policyVars => RunsTyped'
  <2> SUFFICES ASSUME VInv, RunsTyped, [PolicyNext]_policyVars PROVE RunsTyped'
    OBVIOUS
  <2>0. now \in Nat /\ VersionsTyped
    BY BoundsAreNatural DEF VInv, VersionsTyped
  <2>1. CASE app' = app /\ run' = run /\ rows \subseteq rows'
    BY <2>1 DEF RunsTyped, Recorded, FeeVersion
  <2> DEFINE todo == [j \in Edit \cup {Worker} |-> run[j].todo]
  <2>a. /\ todo \in [Edit \cup {Worker} -> SUBSET App] /\ \A j \in Edit \cup {Worker} : todo[j] \subseteq run[j].todo
        /\ run = [j \in Edit \cup {Worker} |-> [run[j] EXCEPT !.todo = todo[j]]]
    BY DEF RunsTyped, Recorded
  <2> HIDE DEF todo
  <2>2. ASSUME NEW r \in Edit, Editing(r) PROVE RunsTyped'
    <3>1. CASE RepriceAfterSave(r)
      <4>1. edit[r].now \in Nat
        <5>1. edit[r].now \in 1..now
          BY <3>1 DEF RepriceAfterSave, VInv, EditsTyped, EditTyped, Waiting
        <5> QED
          BY <2>0, <5>1
      <4> QED
        BY <3>1, <4>1, RunBegins DEF RepriceAfterSave
    <3>2. CASE ~RepriceAfterSave(r)
      <4>1. app' = app /\ run' = run
        BY <2>2, <3>2 DEF Editing, OpenForm, AskSave, AskRevert, AskCancel, AskConfirm, AskFee, Ask, CommitSave, CommitRevert,
                          CommitCancel, CommitConfirm, CommitFee, DropEdit, End
      <4>2. rows \subseteq rows'
        <5>1. CASE UNCHANGED <<rows, last>>
          BY <5>1
        <5>2. CASE ~UNCHANGED <<rows, last>>
          <6>1. \E K, v, f, by : Writes(r, K, v, f, by)
            BY <2>2, <5>2, EditingWrites, CommitWrites
          <6> QED
            BY <6>1 DEF Writes, Add
        <5> QED
          BY <5>1, <5>2
      <4> QED
        BY <2>1, <4>1, <4>2
    <3> QED
      BY <3>1, <3>2
  <2>3. ASSUME NEW a \in App, Applying(a) PROVE RunsTyped'
    <3>1. CASE ReadFee(a)
      <4>1. FeeRow(now).id \in Nat /\ FeeRow(now).value \in Nat /\ FeeVersion(FeeRow(now).id)
        BY <2>0, FeeRowTyped
      <4>2. app[a].status = "none" /\ run' = run /\ rows' = rows
        BY <3>1 DEF ReadFee
      <4>3. /\ app' \in [App -> Recorded]
            /\ \A b \in App \ {a} : app'[b] = app[b]
            /\ app'[a].fee = FeeRow(now).id
        <5> DEFINE i == FeeRow(now).id
                   p == FeeRow(now).value
        <5>1. app' = [app EXCEPT ![a].status = "asking", ![a].fee = i, ![a].total = p]
          BY <3>1 DEF ReadFee
        <5>2. i \in Nat /\ p \in Nat
          BY <4>1
        <5> HIDE DEF i, p
        <5>3. app' \in [App -> Recorded]
          <6>1. app[a] \in Recorded
            BY DEF RunsTyped, Recorded
          <6>2. app'[a] = [status |-> "asking", method |-> app[a].method, fee |-> i, total |-> p]
            BY <5>1, <6>1 DEF RunsTyped, Recorded
          <6>3. app'[a] \in Recorded
            BY <5>2, <6>1, <6>2 DEF Recorded
          <6>4. app' = [b \in App |-> IF b = a THEN app'[a] ELSE app[b]]
            BY <5>1 DEF RunsTyped, Recorded
          <6> QED
            BY <6>3, <6>4 DEF RunsTyped, Recorded
        <5>4. app'[a].fee = i
          BY <5>1 DEF RunsTyped, Recorded
        <5>5. \A b \in App \ {a} : app'[b] = app[b]
          BY <5>1 DEF RunsTyped, Recorded
        <5> QED
          BY <5>3, <5>4, <5>5 DEF i
      <4> QED
        BY <4>1, <4>2, <4>3, <2>a, OneChanges
    <3>2. ASSUME NEW method \in {"bank", "pg"}, Submit(a, method) PROVE RunsTyped'
      <4>1. app[a].status = "asking" /\ run' = run /\ rows' = rows
        BY <3>2 DEF Submit
      <4>2. /\ app' \in [App -> Recorded]
            /\ \A b \in App \ {a} : app'[b] = app[b]
            /\ app'[a].fee = app[a].fee
        <5> DEFINE s == IF app[a].total = 0 THEN "closed" ELSE "pending"
        <5>1. app' = [app EXCEPT ![a].status = s, ![a].method = method]
          BY <3>2 DEF Submit
        <5>2. s \in {"closed", "pending"}
          OBVIOUS
        <5> HIDE DEF s
        <5>3. app' \in [App -> Recorded]
          <6>1. app[a] \in Recorded
            BY DEF RunsTyped, Recorded
          <6>2. app'[a] = [status |-> s, method |-> method, fee |-> app[a].fee, total |-> app[a].total]
            BY <5>1, <6>1 DEF RunsTyped, Recorded
          <6>3. app'[a] \in Recorded
            BY <5>2, <6>1, <6>2 DEF Recorded
          <6>4. app' = [b \in App |-> IF b = a THEN app'[a] ELSE app[b]]
            BY <5>1 DEF RunsTyped, Recorded
          <6> QED
            BY <6>3, <6>4 DEF RunsTyped, Recorded
        <5>4. app'[a].fee = app[a].fee
          BY <5>1 DEF RunsTyped, Recorded
        <5>5. \A b \in App \ {a} : app'[b] = app[b]
          BY <5>1 DEF RunsTyped, Recorded
        <5> QED
          BY <5>3, <5>4, <5>5
      <4>3. app[a].fee # 0 => FeeVersion(app[a].fee)
        BY DEF RunsTyped, Recorded
      <4> QED
        BY <4>1, <4>2, <4>3, <2>a, OneChanges
    <3>3. CASE Close(a)
      BY <3>3 DEF Close, RunsTyped, Recorded, FeeVersion
    <3> QED
      BY <2>3, <3>1, <3>2, <3>3 DEF Applying
  <2>4. CASE RepriceJob
    BY <2>0, <2>4, RunBegins DEF RepriceJob
  <2>5. ASSUME NEW j \in Edit \cup {Worker}, NEW a \in App, Reprice(j, a) PROVE RunsTyped'
    <3> DEFINE left == [i \in Edit \cup {Worker} |-> IF i = j THEN run[i].todo \ {a} ELSE run[i].todo]
    <3>1. /\ left \in [Edit \cup {Worker} -> SUBSET App] /\ \A i \in Edit \cup {Worker} : left[i] \subseteq run[i].todo
          /\ run' = [i \in Edit \cup {Worker} |-> [run[i] EXCEPT !.todo = left[i]]]
      BY <2>5 DEF Reprice, RunsTyped, Recorded
    <3>2. rows' = rows /\ a \in run[j].todo
      BY <2>5 DEF Reprice
    <3>3. FeeVersion(run[j].fee) /\ app[a].status \in {"pending", "closed"} /\ app[a].method \in {"bank", "pg"}
      BY <3>2 DEF RunsTyped, Recorded
    <3>4. /\ app' \in [App -> Recorded]
          /\ \A b \in App \ {a} : app'[b] = app[b]
          /\ app'[a].method = app[a].method /\ app'[a].status = app[a].status
          /\ app'[a].fee \in {app[a].fee, run[j].fee}
      BY <2>5 DEF Reprice, RunsTyped, Recorded
    <3>5. app'[a].fee # 0 => FeeVersion(app'[a].fee)
      BY <3>3, <3>4 DEF RunsTyped, Recorded
    <3> HIDE DEF left
    <3> QED
      BY <3>1, <3>2, <3>3, <3>4, <3>5, OneChanges
  <2>6. CASE Tick
    BY <2>1, <2>6 DEF Tick
  <2>7. CASE UNCHANGED policyVars
    BY <2>1, <2>7 DEF policyVars
  <2> QED
    BY <2>2, <2>3, <2>4, <2>5, <2>6, <2>7 DEF PolicyNext, Repricing
<1> QED
  BY <1>1, <1>2, VersionsInvariance, PTL DEF PolicySpec

\* Every variable has its type; a price is that of some version.
THEOREM PoliciesTyped == PolicySpec => []PolicyTypeOK
<1>1. VInv /\ RunsTyped => PolicyTypeOK
  <2> SUFFICES ASSUME VInv, RunsTyped PROVE PolicyTypeOK
    OBVIOUS
  <2>1. \A x \in rows : x \in [id : 1..last, key : Key, value : UNION {Values[k] : k \in Key}, from : 0..Horizon,
                               by : {"save", "revert", "cancel", "confirm"}]
    BY BoundsAreNatural DEF VInv, VersionsTyped, Version
  <2> QED
    BY <2>1 DEF VInv, VersionsTyped, RunsTyped, Recorded, FeeVersion, Own, PolicyTypeOK
<1> QED
  BY <1>1, VersionsInvariance, RunsInvariance, PTL

\* What was paid, or is being paid through the PG, is never repriced.
THEOREM PaidIsNotRepriced == PolicySpec => PaidPriceStands
<1>1. ASSUME RunsTyped, [PolicyNext]_policyVars, NEW a \in App,
             app[a].status = "closed" \/ (app[a].status = "pending" /\ app[a].method = "pg")
      PROVE  app'[a].total = app[a].total /\ app'[a].fee = app[a].fee
  <2>1. ASSUME NEW b \in App, Applying(b) PROVE app'[a].total = app[a].total /\ app'[a].fee = app[a].fee
    BY <1>1, <2>1 DEF RunsTyped, Recorded, Applying, ReadFee, Submit, Close
  <2>2. ASSUME NEW j \in Edit \cup {Worker}, NEW b \in App, Reprice(j, b)
        PROVE  app'[a].total = app[a].total /\ app'[a].fee = app[a].fee
    BY <1>1, <2>2 DEF RunsTyped, Recorded, Reprice, StillPending
  <2>3. ASSUME NEW r \in Edit, Editing(r) PROVE app' = app
    BY <2>3 DEF Editing, OpenForm, AskSave, AskRevert, AskCancel, AskConfirm, AskFee, Ask, CommitSave, CommitRevert,
                CommitCancel, CommitConfirm, CommitFee, DropEdit, End, RepriceAfterSave
  <2>4. Tick \/ RepriceJob \/ UNCHANGED policyVars => app' = app
    BY DEF Tick, RepriceJob, policyVars
  <2> QED
    BY <1>1, <2>1, <2>2, <2>3, <2>4 DEF PolicyNext, Repricing
<1>2. RunsTyped /\ [PolicyNext]_policyVars =>
        \A a \in App : app[a].status = "closed" \/ (app[a].status = "pending" /\ app[a].method = "pg")
                         => app'[a].total = app[a].total /\ app'[a].fee = app[a].fee
  BY <1>1
<1> QED
  BY <1>2, RunsInvariance, PTL DEF PolicySpec, PaidPriceStands

=============================================================================
