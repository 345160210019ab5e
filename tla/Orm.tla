-------------------------------- MODULE Orm --------------------------------
(***************************************************************************)
(* How a handler's changes reach the database.  Every HTTP request and     *)
(* every background task works on its own session                          *)
(* (infrastructure/database.py): it reads a row once, keeps that copy for  *)
(* as long as it runs (expire_on_commit and autoflush are off, no row is   *)
(* locked, no row carries a version), changes the copy and commits.  The   *)
(* UPDATE the ORM then sends names the columns whose value in the copy     *)
(* differs from the value that was loaded, and no others.                  *)
(***************************************************************************)

\* Mutant: the whole copy is written back, changed or not.
FlushWholeRow(row, loaded, new) == new

(***************************************************************************)
(* The row after a session that loaded it as `loaded` commits its copy     *)
(* `new`.  A column set to the value it was loaded with is not sent.       *)
(***************************************************************************)
Flush(row, loaded, new) ==
  [c \in DOMAIN row |-> IF new[c] = loaded[c] THEN row[c] ELSE new[c]]

=============================================================================
