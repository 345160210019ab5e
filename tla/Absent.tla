------------------------------- MODULE Absent -------------------------------
(***************************************************************************)
(* The value that stands for none: a NULL of the database, None of the     *)
(* program.  Declared once for the modules an instance puts side by side.  *)
(***************************************************************************)
CONSTANT NONE
=============================================================================
