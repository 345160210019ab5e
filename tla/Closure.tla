------------------------------ MODULE Closure ------------------------------
(***************************************************************************)
(* What the closure contour of a nonconformity promises                    *)
(* (nonconformity/models.py: "Статусы обязательны к прохождению"): the     *)
(* stages are passed in their order and none twice, the verdict, the       *)
(* executor and the verifier are recorded once, an accepted risk goes no   *)
(* further than its verdict, and the verifier is neither the owner nor the *)
(* executor.                                                               *)
(***************************************************************************)
EXTENDS Naturals, Sequences

CONSTANTS
  Users,
  Owners,  \* what may stand in the owner field
  NULL

STATUS_FLOW == <<"IDENTIFIED", "EVALUATED", "DECIDED", "MEASURE_ASSIGNED",
                 "IN_PROGRESS", "EXECUTED", "VERIFIED">>

VERDICTS == {"ELIMINATE", "COMPENSATE", "ACCEPT"}

VARIABLES status, owner, verdict, executor, verifier

vars == <<status, owner, verdict, executor, verifier>>

Init ==
  /\ status = "IDENTIFIED"
  /\ owner \in Owners
  /\ verdict = NULL /\ executor = NULL /\ verifier = NULL

\* From one stage to the stage after it.
Pass(from, to) == status = from /\ status' = to /\ UNCHANGED owner

Evaluate ==
  Pass("IDENTIFIED", "EVALUATED") /\ UNCHANGED <<verdict, executor, verifier>>

Decide ==
  /\ Pass("EVALUATED", "DECIDED")
  /\ verdict' \in VERDICTS
  /\ UNCHANGED <<executor, verifier>>

Assign ==
  /\ Pass("DECIDED", "MEASURE_ASSIGNED")
  /\ verdict # "ACCEPT"
  /\ UNCHANGED <<verdict, executor, verifier>>

Start ==
  Pass("MEASURE_ASSIGNED", "IN_PROGRESS") /\ UNCHANGED <<verdict, executor, verifier>>

Execute ==
  /\ Pass("IN_PROGRESS", "EXECUTED")
  /\ executor' \in Users
  /\ UNCHANGED <<verdict, verifier>>

Verify ==
  /\ Pass("EXECUTED", "VERIFIED")
  /\ verifier' \in Users \ {owner, executor}
  /\ UNCHANGED <<verdict, executor>>

Next == Evaluate \/ Decide \/ Assign \/ Start \/ Execute \/ Verify

Spec == Init /\ [][Next]_vars

=============================================================================
