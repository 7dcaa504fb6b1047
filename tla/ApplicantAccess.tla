-------------------------- MODULE ApplicantAccess --------------------------
(***************************************************************************)
(* How an applicant gets to the pages of their applications by e-mail: a   *)
(* code is asked for, mailed, and typed in, from several browsers at once  *)
(* (server/applicant/auth.ts).  This is one address; the mail itself is in *)
(* NotificationQueue.                                                      *)
(*                                                                         *)
(* verifyLoginCode selects the newest code that counts, for update, limit  *)
(* one.  What it goes through is what counted when it began; each row is   *)
(* locked and looked at as it is by then, and one that was consumed is     *)
(* passed over for the next older one.                                     *)
(***************************************************************************)
EXTENDS Naturals, Sequences, FiniteSets

CONSTANTS
  Visitor,             \* browsers at work at the same time
  MAX_CODES_PER_HOUR,  \* codes in an hour (5 in the code)
  MAX_GUESSES,         \* wrong guesses a code stands (MAX_ATTEMPTS, 5)
  MaxCodes             \* bound: codes in all

ASSUME AccessBounds == {MAX_CODES_PER_HOUR, MAX_GUESSES, MaxCodes} \subseteq Nat

VARIABLES
  otps,     \* applicant_otps, in the order of their creation
  visit,    \* visit[v]: what a request of v has read
  history   \* history[i]: sessions that code i opened, wrong guesses at it

accessVars == <<otps, visit, history>>

-----------------------------------------------------------------------------
Away == [at |-> "away"]

AccessInit ==
  /\ otps = <<>>
  /\ visit = [v \in Visitor |-> Away]
  /\ history = <<>>

\* requestLoginCode counts the codes of the last hour...
CountCodes(v) ==
  /\ visit[v] = Away
  /\ Cardinality({i \in DOMAIN otps : otps[i].age # "old"}) < MAX_CODES_PER_HOUR
  /\ visit' = [visit EXCEPT ![v] = [at |-> "counted"]]
  /\ UNCHANGED <<otps, history>>

\* ... and stores one more, whatever others stored meanwhile.
StoreCode(v) ==
  /\ visit[v].at = "counted" /\ Len(otps) < MaxCodes
  /\ otps' = Append(otps, [consumed |-> FALSE, attempts |-> 0, age |-> "fresh"])
  /\ history' = Append(history, [opened |-> 0, guessed |-> 0])
  /\ visit' = [visit EXCEPT ![v] = Away]

\* Ten minutes after, a code has expired; an hour after, it does not count
\* for the limit.  The older code comes first.
GrowOld(i) ==
  \E a \in {<<"fresh", "expired">>, <<"expired", "old">>} :
    /\ otps[i].age = a[1]
    /\ \A j \in 1 .. (i - 1) : otps[j].age # a[1]
    /\ otps' = [otps EXCEPT ![i].age = a[2]]
    /\ UNCHANGED <<visit, history>>

-----------------------------------------------------------------------------
\* The codes that are neither consumed nor expired.
Counting == {i \in DOMAIN otps : ~otps[i].consumed /\ otps[i].age = "fresh"}

\* A code is typed in: that of some mail, or 0 for a wrong one.
SelectCode(v, code) ==
  /\ visit[v] = Away
  /\ visit' = [visit EXCEPT ![v] = [at |-> "selected", code |-> code, rows |-> [i \in Counting |-> otps[i]]]]
  /\ UNCHANGED <<otps, history>>

\* Mutant: without "for update" it goes on with the rows it selected.
Rows_Selected(q) == q.rows

\* The rows of the query under the lock.
Rows(q) == [i \in DOMAIN q.rows |-> otps[i]]

NewestCode(q) ==
  LET good == {i \in DOMAIN Rows(q) : ~Rows(q)[i].consumed}
  IN {i \in good : \A j \in good : j <= i}

WrongCode(i, row) ==
  /\ otps' = [otps EXCEPT ![i].attempts = row.attempts + 1]
  /\ history' = [history EXCEPT ![i].guessed = @ + 1]

RightCode(i) ==
  /\ otps' = [otps EXCEPT ![i].consumed = TRUE]
  /\ history' = [history EXCEPT ![i].opened = @ + 1]

VerifyCode(v) ==
  LET q      == visit[v]
      usable == {i \in NewestCode(q) : Rows(q)[i].attempts < MAX_GUESSES}
  IN /\ q.at = "selected"
     /\ visit' = [visit EXCEPT ![v] = Away]
     /\ \/ usable = {} /\ UNCHANGED <<otps, history>>
        \/ \E i \in usable : IF q.code = i THEN RightCode(i) ELSE WrongCode(i, Rows(q)[i])

AccessNext ==
  \/ \E v \in Visitor :
       \/ CountCodes(v) \/ StoreCode(v) \/ VerifyCode(v)
       \/ \E code \in {0} \cup DOMAIN otps : SelectCode(v, code)
  \/ \E i \in DOMAIN otps : GrowOld(i)

-----------------------------------------------------------------------------
\* A code opens one session at most, and stands no more wrong guesses than it
\* should, however many browsers type at the same time and whichever newer
\* code was asked for in between.
CodeIsSpent ==
  \A i \in DOMAIN history : history[i].opened <= 1 /\ history[i].guessed <= MAX_GUESSES
=============================================================================
