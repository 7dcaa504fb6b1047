----------------------------- MODULE AdminLogin -----------------------------
(***************************************************************************)
(* How one administrator logs in from several browsers: a password, then a *)
(* one-time code, each stored as a session by a step of its own; the       *)
(* enrolment of the second factor; and the links that set a new password.  *)
(* What other administrators do to the account (AdminAccounts) happens in  *)
(* between.                                                                *)
(***************************************************************************)
EXTENDS Naturals, FiniteSets, Sequences, SequencesExt

CONSTANTS
  Browser,     \* browsers the administrator uses
  Link,        \* password reset links
  MaxStep,     \* bound: time steps of the one-time codes
  MaxSecrets,  \* bound: secrets that are made for the second factor
  MaxLogins    \* bound: passwords that are accepted

ASSUME BoundsAreNaturals == {MaxStep, MaxSecrets, MaxLogins} \subseteq Nat

VARIABLES
  enabled,  \* admin_users.is_active
  totp,     \* the secrets of the account, 0 for none, and the last step used, 0 for none
  session,  \* session[b]: what browser b's cookie is worth
  passed,   \* passed[b]: what b's request has passed or read but not yet written
  codes,    \* the codes accepted, in order: <<secret, time step>>
  link,     \* link[l]: the reset links
  resets,   \* the links by which a password was set, in order
  clock,    \* the time step
  made      \* secrets made and passwords accepted so far

loginVars == <<enabled, totp, session, passed, codes, link, resets, clock, made>>

-----------------------------------------------------------------------------
NoTotp == [pending |-> 0, secret |-> 0, last |-> 0]

LoggedOut == [b \in Browser |-> "none"]

LoginInit ==
  /\ enabled = TRUE
  /\ totp = NoTotp
  /\ session = LoggedOut
  /\ passed = [b \in Browser |-> "nothing"]
  /\ codes = <<>>
  /\ link = [l \in Link |-> "free"]
  /\ resets = <<>>
  /\ clock = 1
  /\ made = [secrets |-> 0, logins |-> 0]

\* authenticatePassword
AuthenticatePassword(b) ==
  /\ enabled /\ passed[b] = "nothing" /\ made.logins < MaxLogins
  /\ passed' = [passed EXCEPT ![b] = "password"]
  /\ made' = [made EXCEPT !.logins = @ + 1]
  /\ UNCHANGED <<enabled, totp, session, codes, link, resets, clock>>

\* createSession: what a session is worth depends on what was passed.
CreateSession(b) ==
  session' = [session EXCEPT ![b] = IF passed[b] = "code" THEN "full" ELSE "half"]

\* startSession: in place of the session the browser had.
StartSession(b) ==
  /\ passed[b] \in {"password", "code"}
  /\ CreateSession(b)
  /\ passed' = [passed EXCEPT ![b] = "nothing"]
  /\ UNCHANGED <<enabled, totp, codes, link, resets, clock, made>>

\* requirePendingMfa
PendingMfa(b) == session[b] = "half" /\ enabled /\ passed[b] = "nothing"

\* The enrolment page finds neither a second factor nor a secret to confirm...
OpenSetup(b) ==
  /\ PendingMfa(b)
  /\ totp.secret = 0 /\ totp.pending = 0
  /\ passed' = [passed EXCEPT ![b] = "setup"]
  /\ UNCHANGED <<enabled, totp, session, codes, link, resets, clock, made>>

\* ... and startTotpEnrollment makes one, whatever another browser did meanwhile.
StartTotpEnrollment(b) ==
  /\ passed[b] = "setup" /\ made.secrets < MaxSecrets
  /\ totp' = [totp EXCEPT !.pending = made.secrets + 1]
  /\ made' = [made EXCEPT !.secrets = @ + 1]
  /\ passed' = [passed EXCEPT ![b] = "nothing"]
  /\ UNCHANGED <<enabled, session, codes, link, resets, clock>>

\* Mutant: a code counts as long as it is near enough in time.
Fresh_Near(s, used) == s \in (clock - 1)..(clock + 1)

\* verifyTotp: a code one step early or late counts, but none from a step used.
Fresh(s, used) == s \in (clock - 1)..(clock + 1) /\ s > used

Accept(b, secret, s) ==
  /\ totp' = [pending |-> IF secret = totp.pending THEN 0 ELSE totp.pending, secret |-> secret, last |-> s]
  /\ codes' = Append(codes, <<secret, s>>)
  /\ passed' = [passed EXCEPT ![b] = "code"]
  /\ UNCHANGED <<enabled, session, link, resets, clock, made>>

\* On the locked row of the account; a first code may be of any near step.
ConfirmTotpEnrollment(b, s) ==
  /\ PendingMfa(b)
  /\ totp.pending # 0 /\ Fresh(s, 0)
  /\ Accept(b, totp.pending, s)

VerifyUserTotp(b, s) ==
  /\ PendingMfa(b)
  /\ totp.secret # 0 /\ Fresh(s, totp.last)
  /\ Accept(b, totp.secret, s)

\* endSession, and the sessions validateSession and the purge find too old.
SessionEnds(b) ==
  /\ session[b] # "none"
  /\ session' = [session EXCEPT ![b] = "none"]
  /\ UNCHANGED <<enabled, totp, passed, codes, link, resets, clock, made>>

NextStep ==
  /\ clock < MaxStep
  /\ clock' = clock + 1
  /\ UNCHANGED <<enabled, totp, session, passed, codes, link, resets, made>>

-----------------------------------------------------------------------------
(* What ends sessions and links.                                           *)

\* invalidateResetLinks
LinksInvalidated == [l \in Link |-> IF link[l] = "open" THEN "used" ELSE link[l]]

\* applyAccountAction by another administrator: every session goes.
OthersAct(on, reset2fa) ==
  /\ enabled' = on
  /\ totp' = IF reset2fa THEN NoTotp ELSE totp
  /\ session' = LoggedOut
  /\ UNCHANGED <<passed, codes, link, resets, clock, made>>

\* changeOwnPassword: only the session it is asked in stays.
ChangeOwnPassword(b) ==
  /\ session[b] = "full" /\ enabled
  /\ session' = [LoggedOut EXCEPT ![b] = "full"]
  /\ UNCHANGED <<enabled, totp, passed, codes, link, resets, clock, made>>

\* changeOwnEmail, or updateAdminAccount with another address.
ChangeEmail ==
  /\ link' = LinksInvalidated
  /\ UNCHANGED <<enabled, totp, session, passed, codes, resets, clock, made>>

\* requestPasswordReset reads the account, and stores the link afterwards.
RequestPasswordReset(l) ==
  /\ enabled /\ link[l] = "free"
  /\ link' = [link EXCEPT ![l] = "asked"]
  /\ UNCHANGED <<enabled, totp, session, passed, codes, resets, clock, made>>

StoreLink(l) ==
  /\ link[l] = "asked"
  /\ link' = [link EXCEPT ![l] = "open"]
  /\ UNCHANGED <<enabled, totp, session, passed, codes, resets, clock, made>>

\* After 30 minutes; purgePasswordResets deletes it after seven days.
LinkExpires(l) ==
  /\ link[l] = "open"
  /\ link' = [link EXCEPT ![l] = "used"]
  /\ UNCHANGED <<enabled, totp, session, passed, codes, resets, clock, made>>

\* Mutant: a used link is only told apart by its age.
LinkWorks_Age(l) == link[l] \in {"open", "used"} /\ enabled

\* lookupReset
LinkWorks(l) == link[l] = "open" /\ enabled

\* resetPasswordWithToken, on the locked rows of link and account; the other
\* links of the account end with it, and so does every session.
ResetPassword(l) ==
  /\ LinkWorks(l) /\ Len(resets) <= Cardinality(Link)
  /\ resets' = Append(resets, l)
  /\ session' = LoggedOut
  /\ link' = LinksInvalidated
  /\ UNCHANGED <<enabled, totp, passed, codes, clock, made>>

-----------------------------------------------------------------------------
LogIn(b) ==
  \/ AuthenticatePassword(b) \/ StartSession(b) \/ OpenSetup(b) \/ StartTotpEnrollment(b)
  \/ \E s \in 1..(MaxStep + 1) : ConfirmTotpEnrollment(b, s) \/ VerifyUserTotp(b, s)
  \/ SessionEnds(b)

Account == ChangeEmail \/ \E b \in Browser : ChangeOwnPassword(b)

Links(l) == RequestPasswordReset(l) \/ StoreLink(l) \/ LinkExpires(l) \/ ResetPassword(l)

LoginNext ==
  \/ NextStep
  \/ Account
  \/ \E on, reset2fa \in BOOLEAN : OthersAct(on, reset2fa)
  \/ \E b \in Browser : LogIn(b)
  \/ \E l \in Link : Links(l)

LoginSpec == LoginInit /\ [][LoginNext]_loginVars

-----------------------------------------------------------------------------
(* Properties.                                                             *)

\* Every variable has its type.
LoginTypeOK ==
  /\ enabled \in BOOLEAN
  /\ totp \in [pending : 0..MaxSecrets, secret : 0..MaxSecrets, last : 0..(MaxStep + 1)]
  /\ session \in [Browser -> {"none", "half", "full"}]
  /\ passed \in [Browser -> {"nothing", "password", "setup", "code"}]
  /\ codes \in Seq((1..MaxSecrets) \X (1..(MaxStep + 1)))
  /\ link \in [Link -> {"free", "asked", "open", "used"}]
  /\ resets \in Seq(Link)
  /\ clock \in 1..MaxStep
  /\ made \in [secrets : 0..MaxSecrets, logins : 0..MaxLogins]

\* A one-time code opens one session at most (totp.ts: the same code is not
\* used twice): also when it just confirmed an enrolment, when two browsers
\* are half logged in or enrol side by side, and one step early or late.
CodeOnce == IsInjective(codes)

\* A reset link sets a password at most once (recovery.ts), whatever ends,
\* renews or disables the account between mail and click.
LinkOnce == IsInjective(resets)
=============================================================================
