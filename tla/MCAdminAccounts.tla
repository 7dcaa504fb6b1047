-------------------------- MODULE MCAdminAccounts --------------------------
(***************************************************************************)
(* Instances of AdminAccounts and AdminLogin for TLC: some behaviours are  *)
(* about all accounts and who may change them, the others about how one    *)
(* account logs in.                                                        *)
(***************************************************************************)
EXTENDS AdminAccounts, AdminLogin, TLC

CONSTANTS u1, u2, u3

VARIABLE about  \* what a behaviour is about

MCInit == Init /\ LoginInit /\ about \in {"accounts", "login"}

MCNext ==
  /\ about' = about
  /\ \/ about = "accounts" /\ Next /\ UNCHANGED loginVars
     \/ about = "login" /\ LoginNext /\ UNCHANGED vars

MCSpec == MCInit /\ [][MCNext]_<<vars, loginVars, about>>

Symmetry == Permutations(Request) \cup Permutations({u1, u2})
=============================================================================
