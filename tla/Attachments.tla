---------------------------- MODULE Attachments ----------------------------
(***************************************************************************)
(* The files of an application form: rows in the database, bytes in the    *)
(* storage, and no transaction around the two.                             *)
(***************************************************************************)
EXTENDS Naturals, FiniteSets

CONSTANTS
  File,       \* files that are uploaded, each under a key of its own
  MaxCount    \* application.attachmentMaxCount

VARIABLES
  row,     \* row[f]: no row, a row of the form, or a row of the application
  stored,  \* the keys in the storage
  doing,   \* doing[f]: what some request or job is about to do about f
  form     \* "open", "read": submitting and past its check, "sent", "gone": deleted

fileVars == <<row, stored, doing, form>>

-----------------------------------------------------------------------------
FileInit ==
  /\ row = [f \in File |-> "none"]
  /\ stored = {}
  /\ doing = [f \in File |-> "nothing"]
  /\ form = "open"

PendingFiles == {f \in File : row[f] = "pending"}

\* uploadAttachment counts what the form has and scans, then stores, then
\* inserts the row.
StartUpload(f) ==
  /\ form = "open"
  /\ row[f] = "none" /\ doing[f] = "nothing" /\ f \notin stored
  /\ Cardinality(PendingFiles) < MaxCount
  /\ doing' = [doing EXCEPT ![f] = "put"]
  /\ UNCHANGED <<row, stored, form>>

Put(f) ==
  /\ doing[f] = "put"
  /\ stored' = stored \cup {f}
  /\ doing' = [doing EXCEPT ![f] = "insert"]
  /\ UNCHANGED <<row, form>>

InsertRow(f) ==
  /\ doing[f] = "insert"
  /\ row' = [row EXCEPT ![f] = "pending"]
  /\ doing' = [doing EXCEPT ![f] = "nothing"]
  /\ UNCHANGED <<stored, form>>

\* removePendingAttachment and purgeOrphanAttachments: rows that belong to no
\* application go in one statement, the files after it, one by one.
Removable(f) == row[f] = "pending"

\* Mutant: the files go first, the rows after them.
DeleteRow_FileFirst(F) ==
  /\ stored' = stored \ F
  /\ UNCHANGED <<row, doing, form>>

DeleteRow(F) ==
  /\ row' = [f \in File |-> IF f \in F THEN "none" ELSE row[f]]
  /\ doing' = [f \in File |-> IF f \in F THEN "remove" ELSE doing[f]]
  /\ UNCHANGED <<stored, form>>

Remove(f) == Removable(f) /\ DeleteRow({f})

Purge ==
  /\ \E F \in SUBSET {f \in File : Removable(f)} : F # {} /\ DeleteRow(F)

RemoveFile(f) ==
  /\ doing[f] = "remove"
  /\ stored' = stored \ {f}
  /\ doing' = [doing EXCEPT ![f] = "nothing"]
  /\ UNCHANGED <<row, form>>

\* The process dies between the two.
Crash(f) ==
  /\ doing[f] # "nothing"
  /\ doing' = [doing EXCEPT ![f] = "nothing"]
  /\ UNCHANGED <<row, stored, form>>

-----------------------------------------------------------------------------
\* submitApplication reads the rows, and much later its transaction attaches
\* what is there by then, if there was anything when it looked.
ReadFiles ==
  /\ form = "open"
  /\ form' = IF PendingFiles = {} THEN "read_none" ELSE "read"
  /\ UNCHANGED <<row, stored, doing>>

Attach ==
  /\ form \in {"read", "read_none"}
  /\ row' = [f \in File |-> IF form = "read" /\ row[f] = "pending" THEN "attached" ELSE row[f]]
  /\ form' = "sent"
  /\ UNCHANGED <<stored, doing>>

SubmitFails ==
  /\ form \in {"read", "read_none"}
  /\ form' = "open"
  /\ UNCHANGED <<row, stored, doing>>

\* deleteApplication: the rows go with the application, then the files.
DeleteApplication ==
  /\ form = "sent"
  /\ form' = "gone"
  /\ row' = [f \in File |-> IF row[f] = "attached" THEN "none" ELSE row[f]]
  /\ doing' = [f \in File |-> IF row[f] = "attached" THEN "remove" ELSE doing[f]]
  /\ UNCHANGED stored

Upload(f) == StartUpload(f) \/ Put(f) \/ InsertRow(f)

FilesNext ==
  \/ \E f \in File :
       \/ Upload(f)
       \/ Remove(f) \/ RemoveFile(f) \/ Crash(f)
  \/ Purge
  \/ ReadFiles \/ Attach \/ SubmitFails \/ DeleteApplication

-----------------------------------------------------------------------------
\* Every row of an attachment has its file, crashes at any point and removal,
\* purge and submission at the same time included: what the administrator
\* sees in the list can be opened.
RowHasFile == \A f \in File : row[f] # "none" => f \in stored
=============================================================================
