----------------------------- MODULE MCMeasure -----------------------------
(***************************************************************************)
(* Instances of Measure for TLC: one card, a top manager, a quality        *)
(* manager and an executor.                                                *)
(***************************************************************************)
EXTENDS Measure, TLC

CONSTANTS top, qm, om, r1, r2

TopAndExecutor == {top, om}
TopAndManager == {top, qm}
MCOwners == {om}
NoOwners == {}
MCRole == top :> "TOP" @@ qm :> "QUALITY_MANAGER" @@ om :> "EXECUTOR"

OneByOne == {r1}
Overlapping == {r1, r2}

\* Everything that can reach the verdict, its author, the frozen effect, the
\* marks of execution or the escalation of the card.
LifeOps == {"decide", "meta", "edit", "annotate", "execution", "work",
            "economics", "recompute", "escalate", "rule",
            "resolve", "auto", "assign"}

\* The handlers whose columns meet: the decision against execution, blocking
\* flag and figures.
RaceOps == {"decide", "execution", "actuals", "assign", "work", "effort", "brief",
            "task", "revalue"}

\* One claim of the sources each.
DecideOps == {"decide"}
TaskOps == {"task"}

Symmetric == Permutations({r1, r2})

=============================================================================
