--------------------------- MODULE Nonconformity ---------------------------
(***************************************************************************)
(* The life of one nonconformity (nonconformity/service.py): the handlers  *)
(* that pass it from stage to stage and the nightly task that raises it    *)
(* when nobody decides.  Reading and committing are separate steps, as in  *)
(* Measure.  The task has a slot of its own; an instance in which that     *)
(* slot is the only one runs everything one after another.                 *)
(***************************************************************************)
EXTENDS Naturals, Sequences, Orm

CONSTANTS
  Users,
  Editors, Deciders, Verifiers, \* holders of nonconformity.edit, nonconformity.decide, risk.verify
  Owners,           \* what may stand in the owner field: user names and other texts
  Measures,         \* the measures that may be assigned
  Requests,         \* the slots of user handlers
  Task,             \* the slot of the nightly task
  SlaDays,          \* nc_sla_days (a zero in the settings counts as the default)
  SlaDaysCritical,  \* nc_sla_days_critical (likewise)
  MaxDay,           \* bound: the last day of the calendar
  MaxLog,           \* bound: entries of the history
  NULL

ASSUME UsersAssumption ==
  Editors \subseteq Users /\ Deciders \subseteq Users /\ Verifiers \subseteq Users
ASSUME NumbersAssumption ==
  /\ SlaDays \in Nat \ {0} /\ SlaDaysCritical \in Nat \ {0}
  /\ MaxDay \in Nat /\ MaxLog \in Nat
ASSUME NullAssumption ==
  /\ NULL \notin Users /\ NULL \notin Measures /\ NULL \notin Nat
  /\ NULL \notin {"ELIMINATE", "COMPENSATE", "ACCEPT"}

STATUS_FLOW == <<"IDENTIFIED", "EVALUATED", "DECIDED", "MEASURE_ASSIGNED",
                 "IN_PROGRESS", "EXECUTED", "VERIFIED">>

Statuses == {"IDENTIFIED", "EVALUATED", "DECIDED", "MEASURE_ASSIGNED",
             "IN_PROGRESS", "EXECUTED", "VERIFIED"}

VERDICTS == {"ELIMINATE", "COMPENSATE", "ACCEPT"}

Slots == Requests \cup {Task}

(***************************************************************************)
(* The columns.  review_date: whether it is set.                           *)
(***************************************************************************)
Actions == {"evaluate", "decide", "assign_measure", "start", "execute", "verify",
            "auto_escalate_sla"}

Entry == [action : Actions, from : Statuses, to : Statuses, by : Users \cup {"system"}]

Row ==
  [status           : Statuses,
   owner            : Owners,
   level            : {"MAJOR", "CRITICAL"},
   is_blocking      : BOOLEAN,
   sla_due          : Nat \cup {NULL},
   decision_verdict : VERDICTS \cup {NULL},
   signed_by        : Users \cup {NULL},
   review_date      : BOOLEAN,
   proposal_id      : Measures \cup {NULL},
   executed_by      : Users \cup {NULL},
   verified_by      : Users \cup {NULL},
   sla_escalated    : BOOLEAN,
   history          : Seq(Entry)]

VARIABLES
  nc,        \* the committed row
  override,  \* the measures whose is_blocking_override is set
  req,       \* what each handler in flight has read
  now        \* today

vars == <<nc, override, req, now>>

Request == [pc : {"idle", "loaded"}, by : Users \cup {NULL}, seen : Row]

(***************************************************************************)
(* Type correctness.                                                       *)
(***************************************************************************)
TypeOK ==
  /\ nc \in Row
  /\ Len(nc.history) <= MaxLog
  /\ override \subseteq Measures
  /\ req \in [Slots -> Request]
  /\ now \in 0 .. MaxDay

-----------------------------------------------------------------------------
\* What create saves.
NewRow(owner, level, blocking) ==
  [status |-> "IDENTIFIED", owner |-> owner, level |-> level, is_blocking |-> blocking,
   sla_due |-> NULL, decision_verdict |-> NULL, signed_by |-> NULL,
   review_date |-> FALSE, proposal_id |-> NULL, executed_by |-> NULL,
   verified_by |-> NULL, sla_escalated |-> FALSE, history |-> <<>>]

Init ==
  /\ \E owner \in Owners, level \in {"MAJOR", "CRITICAL"}, blocking \in BOOLEAN :
       nc = NewRow(owner, level, blocking)
  /\ override = {}
  /\ req = [s \in Slots |-> [pc |-> "idle", by |-> NULL, seen |-> nc]]
  /\ now = 0

-----------------------------------------------------------------------------
\* Nothing is in flight in the slot s.
Free(s) == [req EXCEPT ![s] =
  [pc |-> "idle", by |-> NULL, seen |-> NewRow(nc.owner, nc.level, nc.is_blocking)]]

\* A user's request starts: the row is read.
Load(s, u) ==
  /\ s \in Requests /\ req[s].pc = "idle"
  /\ req' = [req EXCEPT ![s] = [pc |-> "loaded", by |-> u, seen |-> nc]]
  /\ UNCHANGED <<nc, override, now>>

\* It is refused, or its process dies: nothing is written.
Abandon(s) ==
  /\ req[s].pc = "loaded"
  /\ req' = Free(s)
  /\ UNCHANGED <<nc, override, now>>

Commit(s, new) ==
  /\ nc' = Flush(nc, req[s].seen, new)
  /\ req' = Free(s)
  /\ UNCHANGED now

\* _log: the history with one more entry, written as a whole.
Logged(p, by, action, to) ==
  Append(p.history, [action |-> action, from |-> p.status, to |-> to, by |-> by])

\* Mutant: the status is not looked at.
HandlesAnyStatus(s, holders, status) ==
  /\ req[s].pc = "loaded" /\ req[s].by \in holders
  /\ Len(req[s].seen.history) < MaxLog

\* A handler of user u, who must hold the permission, on a row it has read
\* in the status it requires (_require_status).
Handles(s, holders, status) ==
  /\ req[s].pc = "loaded" /\ req[s].by \in holders
  /\ req[s].seen.status = status
  /\ Len(req[s].seen.history) < MaxLog

Evaluate(s) ==
  LET p   == req[s].seen
      sla == IF p.level = "CRITICAL" THEN SlaDaysCritical ELSE SlaDays
  IN
  /\ Handles(s, Editors, "IDENTIFIED")
  /\ Commit(s, [p EXCEPT !.history = Logged(p, req[s].by, "evaluate", "EVALUATED"),
                         !.sla_due = now + sla,
                         !.status = "EVALUATED"])
  /\ UNCHANGED override

\* Mutant: an acceptance needs no signature.
DecideUnsigned(s, verdict, signer) ==
  LET p == req[s].seen
      q == [p EXCEPT !.history = Logged(p, req[s].by, "decide", "DECIDED"),
                     !.decision_verdict = verdict,
                     !.status = "DECIDED"]
  IN
  /\ Handles(s, Deciders, "EVALUATED")
  /\ Commit(s, IF verdict = "ACCEPT"
               THEN [q EXCEPT !.signed_by = signer, !.review_date = TRUE] ELSE q)
  /\ UNCHANGED override

\* signer NULL: the request names nobody, which ACCEPT does not allow.
Decide(s, verdict, signer) ==
  LET p == req[s].seen
      q == [p EXCEPT !.history = Logged(p, req[s].by, "decide", "DECIDED"),
                     !.decision_verdict = verdict,
                     !.status = "DECIDED"]
  IN
  /\ Handles(s, Deciders, "EVALUATED")
  /\ verdict = "ACCEPT" => signer # NULL
  /\ Commit(s, IF verdict = "ACCEPT"
               THEN [q EXCEPT !.signed_by = signer, !.review_date = TRUE] ELSE q)
  /\ UNCHANGED override

AssignMeasure(s, measure) ==
  LET p == req[s].seen IN
  /\ Handles(s, Editors, "DECIDED")
  /\ p.decision_verdict \in {"ELIMINATE", "COMPENSATE"}
  /\ Commit(s, [p EXCEPT !.history = Logged(p, req[s].by, "assign_measure", "MEASURE_ASSIGNED"),
                         !.proposal_id = measure,
                         !.status = "MEASURE_ASSIGNED"])
  /\ override' = IF p.is_blocking THEN override \cup {measure} ELSE override

Start(s) ==
  LET p == req[s].seen IN
  /\ Handles(s, Editors, "MEASURE_ASSIGNED")
  /\ Commit(s, [p EXCEPT !.history = Logged(p, req[s].by, "start", "IN_PROGRESS"),
                         !.status = "IN_PROGRESS"])
  /\ UNCHANGED override

Execute(s) ==
  LET p == req[s].seen IN
  /\ Handles(s, Editors, "IN_PROGRESS")
  /\ Commit(s, [p EXCEPT !.history = Logged(p, req[s].by, "execute", "EXECUTED"),
                         !.executed_by = req[s].by,
                         !.status = "EXECUTED"])
  /\ UNCHANGED override

\* Mutant: the executor may verify.
VerifyByExecutor(s) ==
  LET p == req[s].seen IN
  /\ Handles(s, Verifiers, "EXECUTED")
  /\ req[s].by # p.owner
  /\ Commit(s, [p EXCEPT !.history = Logged(p, req[s].by, "verify", "VERIFIED"),
                         !.verified_by = req[s].by,
                         !.status = "VERIFIED"])
  /\ UNCHANGED override

Verify(s) ==
  LET p == req[s].seen IN
  /\ Handles(s, Verifiers, "EXECUTED")
  /\ req[s].by \notin {p.owner, p.executed_by}
  /\ Commit(s, [p EXCEPT !.history = Logged(p, req[s].by, "verify", "VERIFIED"),
                         !.verified_by = req[s].by,
                         !.status = "VERIFIED"])
  /\ UNCHANGED override

-----------------------------------------------------------------------------
\* Mutant: the comparison is the wrong way round.
OverdueBeforeTerm(p) ==
  p.status = "EVALUATED" /\ p.sla_due # NULL /\ now < p.sla_due /\ ~ p.sla_escalated

\* auto_escalate_overdue: its SELECT ...
Overdue(p) ==
  p.status = "EVALUATED" /\ p.sla_due # NULL /\ p.sla_due < now /\ ~ p.sla_escalated

TaskLoad ==
  /\ req[Task].pc = "idle"
  /\ Overdue(nc)
  /\ req' = [req EXCEPT ![Task] = [pc |-> "loaded", by |-> NULL, seen |-> nc]]
  /\ UNCHANGED <<nc, override, now>>

\* ... and its commit.
TaskEscalate ==
  LET p == req[Task].seen IN
  /\ req[Task].pc = "loaded" /\ req[Task].by = NULL
  /\ Len(p.history) < MaxLog
  /\ Commit(Task, [p EXCEPT !.history = Logged(p, "system", "auto_escalate_sla", p.status),
                            !.sla_escalated = TRUE])
  /\ UNCHANGED override

\* Midnight; no handler is in flight across it.
Tick ==
  /\ now < MaxDay
  /\ \A s \in Slots : req[s].pc = "idle"
  /\ now' = now + 1
  /\ UNCHANGED <<nc, override, req>>

Handler(s) ==
  \/ \E u \in Users : Load(s, u)
  \/ Abandon(s)
  \/ Evaluate(s)
  \/ \E verdict \in VERDICTS, signer \in Users \cup {NULL} : Decide(s, verdict, signer)
  \/ \E measure \in Measures : AssignMeasure(s, measure)
  \/ Start(s)
  \/ Execute(s)
  \/ Verify(s)

Next == (\E s \in Slots : Handler(s)) \/ TaskLoad \/ TaskEscalate \/ Tick

Spec == Init /\ [][Next]_vars

(***************************************************************************)
(* Every request ends, with a commit or without one.  Celery beat starts   *)
(* the task every day (infrastructure/workers.py) and the task waits for   *)
(* no handler: it gets its turn however busy the row is.  A run may die    *)
(* before its commit, but not every run does.                              *)
(***************************************************************************)
FairSpec ==
  /\ Spec
  /\ \A s \in Requests : WF_vars(Abandon(s))
  /\ SF_vars(TaskLoad)
  /\ SF_vars(TaskEscalate)

-----------------------------------------------------------------------------
(***************************************************************************)
(* What holds while the handlers and the task run one after another.       *)
(***************************************************************************)

Contour == INSTANCE Closure WITH
  status <- nc.status, owner <- nc.owner, verdict <- nc.decision_verdict,
  executor <- nc.executed_by, verifier <- nc.verified_by

(***************************************************************************)
(* The handlers implement the contour: no stage is skipped or passed       *)
(* twice, what was recorded is not recorded again, an accepted risk stays  *)
(* where it is, and the verifier is neither the owner nor the executor.    *)
(***************************************************************************)
ContourHonoured == Contour!Spec

(***************************************************************************)
(* A nonconformity nobody decides on in time does not stay silent: it is   *)
(* decided after all or raised to top management (auto_escalate_overdue).  *)
(***************************************************************************)
OverdueNeverSilent ==
  (nc.status = "EVALUATED" /\ nc.sla_due < now)
    ~> (nc.status # "EVALUATED" \/ nc.sla_escalated)

(***************************************************************************)
(* What holds however the handlers overlap.                                *)
(***************************************************************************)

(***************************************************************************)
(* A stage is never without what the stages before it have to leave        *)
(* behind: the deadline, the verdict, the measure, the executor and the    *)
(* verifier, even when an old copy has set the status back.                *)
(***************************************************************************)
MilestonesKept ==
  /\ nc.status # "IDENTIFIED" => nc.sla_due # NULL
  /\ nc.status \notin {"IDENTIFIED", "EVALUATED"} => nc.decision_verdict # NULL
  /\ nc.status \in {"MEASURE_ASSIGNED", "IN_PROGRESS", "EXECUTED", "VERIFIED"}
       => nc.proposal_id # NULL
  /\ nc.status \in {"EXECUTED", "VERIFIED"} => nc.executed_by # NULL
  /\ nc.status = "VERIFIED" => nc.verified_by # NULL

(***************************************************************************)
(* An accepted risk carries a signature and a date of review, even when    *)
(* two verdicts have met on it (decide).                                   *)
(***************************************************************************)
AcceptanceSigned ==
  nc.decision_verdict = "ACCEPT" => nc.signed_by # NULL /\ nc.review_date

-----------------------------------------------------------------------------
(***************************************************************************)
(* What the sources say and the code does not do: the verifier is "НЕ тот, *)
(* кто оценивал/исполнял" (nonconformity/service.py).                      *)
(***************************************************************************)
IndependentVerification ==
  nc.status = "VERIFIED" =>
    \A i \in 1 .. Len(nc.history) :
      nc.history[i].action \in {"evaluate", "execute"} => nc.history[i].by # nc.verified_by

=============================================================================
