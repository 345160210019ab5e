------------------------------ MODULE MCNightly ------------------------------
(***************************************************************************)
(* The instance for TLC of the two nightly tasks of the measures:          *)
(* auto_escalate_overdue_measures (Nonconformity, its users acting one     *)
(* after another) and the pricing of overdue measures (Inaction, with a    *)
(* button beside it).  They share no variable, so a behaviour is of one of *)
(* them, chosen in the initial state (part), as in MCOverlaps.             *)
(***************************************************************************)
EXTENDS MCNonconformity, Inaction

CONSTANTS Parts, removing, compensating, button

VARIABLE part

nightlyVars == <<part, vars, inactionVars>>

MCCards == {removing, compensating}
MCCompensating == {compensating}

\* The part a behaviour is not of begins in one way only.
NightlyInit ==
  /\ part \in Parts /\ Init /\ InactionInit
  /\ part = "inaction" => nc = NewRow(outsider, "MAJOR", FALSE)
  /\ part = "nonconformity" => \A c \in Cards : card[c].due = NONE /\ ~ card[c].approved /\ loss[c] = 0

Closing(A) == part = "nonconformity" /\ A /\ UNCHANGED <<part, inactionVars>>
Pricing(A) == part = "inaction" /\ A /\ UNCHANGED <<part, vars>>

NightlyNext == Closing(Next) \/ Pricing(InactionNext)

\* The fairness of FairSpec of Nonconformity and of InactionSpec.
NightlySpec ==
  /\ NightlyInit /\ [][NightlyNext]_nightlyVars
  /\ \A s \in Requests : WF_nightlyVars(Closing(Abandon(s)))
  /\ SF_nightlyVars(Closing(TaskLoad))
  /\ SF_nightlyVars(Closing(TaskEscalate))
  /\ WF_nightlyVars(Pricing(TaskStep))

\* The two type invariants.
NightlyTypeOK == TypeOK /\ InactionTypeOK

=============================================================================
