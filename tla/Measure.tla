------------------------------ MODULE Measure ------------------------------
(***************************************************************************)
(* The life of one quality measure (table `proposals`,                     *)
(* governance/service.py): decision, execution, deadline, escalation, and  *)
(* the two writers outside the governance service, the nonconformity that  *)
(* assigns the measure and the nightly SLA task.                           *)
(*                                                                         *)
(* A handler reads the row (Load), checks its guards on the copy it has    *)
(* read and commits the columns it has changed (Orm!Flush).  Between the   *)
(* two steps other handlers run.  decide awaits further queries on the     *)
(* way (Route).  Requests is the set of handlers that may be in flight on  *)
(* the card at once: with one element they run one after another.          *)
(***************************************************************************)
EXTENDS Naturals, Orm

CONSTANTS
  Users,          \* people who act on the measure
  Owners,         \* those of them a measure may be given to
  Role,           \* Role[u]: the role of u, one of Roles
  Requests,       \* handlers that may be in flight at the same time
  Ops,            \* the handlers an instance lets run
  Money,          \* possible values of delta_ale_cash
  LinkedDelta,    \* the effect recompute_economics derives from the risks
  SlaDays,        \* nc_sla_days (a zero in the settings counts as the default)
  SlaDaysCritical,\* nc_sla_days_critical (likewise)
  DueDates,       \* the dates a deadline may be set to
  MaxDay,         \* bound: the last day of the calendar
  MaxRaised,      \* bound: escalations of the card
  Garbled,        \* a due_date text parse_ru_date cannot read
  NULL            \* SQL NULL

Roles == {"TOP", "QUALITY_MANAGER", "EXECUTOR"}

ASSUME RoleAssumption == (\A u \in Users : Role[u] \in Roles) /\ Owners \subseteq Users
ASSUME NumbersAssumption ==
  /\ SlaDays \in Nat \ {0} /\ SlaDaysCritical \in Nat \ {0}
  /\ MaxDay \in Nat /\ MaxRaised \in Nat /\ DueDates \subseteq Nat
ASSUME LinkedDeltaAssumption == LinkedDelta \in Money
ASSUME NullAssumption ==
  /\ NULL \notin Users /\ NULL \notin Money /\ NULL \notin Nat
  /\ NULL \notin {"DONE", "NOT_DONE", "IGNORE", "REQUEST_MEASURES"}
  /\ Garbled \notin Nat /\ Garbled # NULL

Days == 0 .. MaxDay

(***************************************************************************)
(* The columns the handlers read or write.  escalation_reason is the       *)
(* number of the escalation it was written for (0: none yet).  history is  *)
(* the JSON audit list, written as a whole by every handler that adds to   *)
(* it: the code reads of it whether it holds the entry autoEscalatedSla;   *)
(* odd, the parity of its length, makes an appended list differ from the   *)
(* one it was appended to.                                                 *)
(***************************************************************************)
History == [odd : BOOLEAN, autoEscalatedSla : BOOLEAN]

Proposal ==
  [status                : {"PENDING_APPROVAL", "APPROVED", "REJECTED"},
   decided_by            : Users \cup {NULL},
   delta_ale_cash        : Money \cup {NULL},
   delta_ale_at_decision : Money \cup {NULL},
   execution             : {"DONE", "NOT_DONE", NULL},
   effort_hours          : BOOLEAN,   \* has been estimated
   executor_brief        : BOOLEAN,   \* has been written
   actuals               : BOOLEAN,   \* plan/fact figures have been entered
   taken_to_work         : BOOLEAN,
   owner_user_id         : Owners \cup {NULL},
   due_date              : DueDates \cup {Garbled, NULL},
   due_on                : DueDates \cup {NULL},
   escalated             : BOOLEAN,
   escalation_reason     : 0 .. MaxRaised,
   escalation_decision   : {"IGNORE", "REQUEST_MEASURES", NULL},
   is_blocking_override  : BOOLEAN,
   history               : History]

VARIABLES
  row,        \* the committed row
  req,        \* what each handler in flight has read
  exposure,   \* what the linked risks say of the measure
  critical,   \* a CRITICAL nonconformity is linked to it
  now,        \* today
  past        \* what has happened to the card (no handler reads it)

vars == <<row, req, exposure, critical, now, past>>

(***************************************************************************)
(* "unlinked": no risk event and not a process measure; "minor": below the *)
(* routing threshold; "major": over it, or under a regulatory veto.        *)
(***************************************************************************)
Exposures == {"unlinked", "minor", "major"}

Request == [pc : {"idle", "loaded", "routed"}, by : Users \cup {NULL}, seen : Proposal]

Past == [approved : BOOLEAN,        \* some decide has approved the card
         done     : BOOLEAN,        \* some handler has reported DONE
         raised   : 0 .. MaxRaised, \* escalations so far
         auto     : 0 .. MaxRaised, \* of them, by the nightly task
         ruledOn  : 0 .. MaxRaised] \* the escalation the last ruling was about

(***************************************************************************)
(* Type correctness of the row, the handlers' copies and the rest.         *)
(***************************************************************************)
TypeOK ==
  /\ row \in Proposal
  /\ req \in [Requests -> Request]
  /\ exposure \in Exposures
  /\ critical \in BOOLEAN
  /\ now \in Days
  /\ past \in Past

-----------------------------------------------------------------------------
\* Mutant: a text that is no date is kept as it is.
parse_ru_date_unchecked(text) == text

(***************************************************************************)
(* shared/dates.py: the date a ДД.ММ.ГГГГ text stands for, or None.        *)
(***************************************************************************)
parse_ru_date(text) == IF text \in {Garbled, NULL} THEN NULL ELSE text

(***************************************************************************)
(* A measure as create leaves it.  Its owner may have been matched to a    *)
(* user since (scripts/match_owners_to_users.py).                          *)
(***************************************************************************)
NewProposal(due, owner) ==
  [status |-> "PENDING_APPROVAL", decided_by |-> NULL,
   delta_ale_cash |-> NULL, delta_ale_at_decision |-> NULL,
   execution |-> NULL, effort_hours |-> FALSE, executor_brief |-> FALSE,
   actuals |-> FALSE, taken_to_work |-> FALSE, owner_user_id |-> owner,
   due_date |-> due, due_on |-> parse_ru_date(due),
   escalated |-> FALSE, escalation_reason |-> 0, escalation_decision |-> NULL,
   is_blocking_override |-> FALSE,
   history |-> [odd |-> FALSE, autoEscalatedSla |-> FALSE]]

Idle == [pc |-> "idle", by |-> NULL, seen |-> NewProposal(NULL, NULL)]

Init ==
  /\ \E due \in DueDates \cup {Garbled, NULL}, owner \in Owners \cup {NULL} :
       row = NewProposal(due, owner)
  /\ req = [r \in Requests |-> Idle]
  /\ exposure \in Exposures
  /\ critical = FALSE
  /\ now = 0
  /\ past = [approved |-> FALSE, done |-> FALSE, raised |-> 0, auto |-> 0, ruledOn |-> 0]

-----------------------------------------------------------------------------
(***************************************************************************)
(* A handler in flight.                                                    *)
(***************************************************************************)

\* get_or_404, or the task's SELECT: the handler takes its copy of the row.
Load(r) ==
  /\ req[r].pc = "idle"
  /\ req' = [req EXCEPT ![r] = [pc |-> "loaded", by |-> NULL, seen |-> row]]
  /\ UNCHANGED <<row, exposure, critical, now, past>>

\* A validation or conflict error: the session is closed, nothing is written.
Refuse(r) ==
  /\ req[r].pc # "idle"
  /\ req' = [req EXCEPT ![r] = Idle]
  /\ UNCHANGED <<row, exposure, critical, now, past>>

\* The commit of the copy `new`.
Commit(r, new) ==
  /\ row' = Flush(row, req[r].seen, new)
  /\ req' = [req EXCEPT ![r] = Idle]
  /\ UNCHANGED <<exposure, critical, now>>

Running(r, op) == op \in Ops /\ req[r].pc = "loaded"

\* An audit list with one more entry.
Logged(history) == [history EXCEPT !.odd = ~ @]

-----------------------------------------------------------------------------
(***************************************************************************)
(* The decision.                                                           *)
(***************************************************************************)

\* route_measure: does the measure need top management's decision?
route_measure(p) == p.is_blocking_override \/ exposure = "major"

\* can_self_decide: the holder of decide.minor may settle it without them.
can_self_decide(p, u) ==
  /\ ~ route_measure(p)
  /\ \/ Role[u] = "QUALITY_MANAGER"
     \/ Role[u] = "EXECUTOR" /\ p.owner_user_id = u

\* Mutant: the status of the card is not looked at.
RouteAnyStatus(r, u) ==
  /\ Running(r, "decide")
  /\ exposure # "unlinked"
  /\ Role[u] = "TOP" \/ can_self_decide(req[r].seen, u)
  /\ req' = [req EXCEPT ![r].pc = "routed", ![r].by = u]
  /\ UNCHANGED <<row, exposure, critical, now, past>>

\* The first half of decide: its checks, with the queries they await.
Route(r, u) ==
  /\ Running(r, "decide")
  /\ req[r].seen.status = "PENDING_APPROVAL"
  /\ exposure # "unlinked"                       \* _ensure_routable
  /\ Role[u] = "TOP" \/ can_self_decide(req[r].seen, u)
  /\ req' = [req EXCEPT ![r].pc = "routed", ![r].by = u]
  /\ UNCHANGED <<row, exposure, critical, now, past>>

\* The verdict, its author and, on approval, the effect frozen with it.
Decided(p, u, approve) ==
  [p EXCEPT !.status = IF approve THEN "APPROVED" ELSE "REJECTED",
            !.decided_by = u,
            !.delta_ale_at_decision = IF approve THEN p.delta_ale_cash ELSE @]

\* The second half of decide.
Decide(r, approve) ==
  /\ req[r].pc = "routed"
  /\ Commit(r, Decided(req[r].seen, req[r].by, approve))
  /\ past' = [past EXCEPT !.approved = @ \/ approve]

-----------------------------------------------------------------------------
(***************************************************************************)
(* Deadline and text edits.                                                *)
(***************************************************************************)

\* _apply_with_history on due_date: the text, the date and an audit entry.
WithDue(p, due) ==
  IF due = p.due_date THEN p
  ELSE [p EXCEPT !.due_date = due, !.due_on = parse_ru_date(due),
                 !.history = Logged(@)]

\* update_meta: only before the decision.
UpdateMeta(r, due) ==
  LET p == req[r].seen IN
  /\ Running(r, "meta")
  /\ p.status = "PENDING_APPROVAL"
  /\ due # p.due_date
  /\ Commit(r, WithDue(p, due))
  /\ UNCHANGED past

\* edit: at any time, by top management.
Edit(r, due) ==
  LET p == req[r].seen IN
  /\ Running(r, "edit")
  /\ due # p.due_date
  /\ Commit(r, WithDue(p, due))
  /\ UNCHANGED past

\* update_task: the columns of the request, as they are.
UpdateTask(r, due) ==
  /\ Running(r, "task")
  /\ Commit(r, [req[r].seen EXCEPT !.due_date = due])
  /\ UNCHANGED past

\* Edits that touch no other column of the model: texts, owner's name,
\* set_systemic_scope, set_alternative_solutions.
Annotate(r) ==
  LET p == req[r].seen IN
  /\ Running(r, "annotate")
  /\ Commit(r, [p EXCEPT !.history = Logged(@)])
  /\ UNCHANGED past

-----------------------------------------------------------------------------
(***************************************************************************)
(* Execution, all of it on an approved measure only.                       *)
(***************************************************************************)

SetExecution(r, status) ==
  /\ Running(r, "execution")
  /\ req[r].seen.status = "APPROVED"
  /\ Commit(r, [req[r].seen EXCEPT !.execution = status])
  /\ past' = [past EXCEPT !.done = @ \/ status = "DONE"]

SetEffortHours(r) ==
  /\ Running(r, "effort")
  /\ req[r].seen.status = "APPROVED"
  /\ Commit(r, [req[r].seen EXCEPT !.effort_hours = TRUE])
  /\ UNCHANGED past

RewriteForExecutor(r) ==
  /\ Running(r, "brief")
  /\ req[r].seen.status = "APPROVED"
  /\ Commit(r, [req[r].seen EXCEPT !.executor_brief = TRUE])
  /\ UNCHANGED past

\* Mutant: figures are accepted before the measure is done.
SetActualsEarly(r) ==
  /\ Running(r, "actuals")
  /\ req[r].seen.status = "APPROVED"
  /\ Commit(r, [req[r].seen EXCEPT !.actuals = TRUE])
  /\ UNCHANGED past

SetActuals(r) ==
  /\ Running(r, "actuals")
  /\ req[r].seen.status = "APPROVED" /\ req[r].seen.execution = "DONE"
  /\ Commit(r, [req[r].seen EXCEPT !.actuals = TRUE])
  /\ UNCHANGED past

\* take_to_work: executor, deadline, effort, text and audit in one commit.
\* An owner no user answers to (NULL) leaves owner_user_id as it was.
TakenToWork(p, owner, due, effort) ==
  LET d == IF due = NULL THEN p.due_date ELSE due IN
  [p EXCEPT !.owner_user_id = IF owner = NULL THEN @ ELSE owner,
            !.due_date = d,
            !.due_on = IF d = p.due_date THEN @ ELSE parse_ru_date(d),
            !.effort_hours = IF effort THEN TRUE ELSE @,
            !.executor_brief = TRUE,
            !.taken_to_work = TRUE,
            !.history = Logged(@)]

TakeToWork(r, owner, due, effort) ==
  /\ Running(r, "work")
  /\ req[r].seen.status = "APPROVED"
  /\ Commit(r, TakenToWork(req[r].seen, owner, due, effort))
  /\ UNCHANGED past

-----------------------------------------------------------------------------
(***************************************************************************)
(* The effect of the measure in money.                                     *)
(***************************************************************************)

\* set_measure_economics: what the request says, NULL included, at any time.
SetMeasureEconomics(r, delta) ==
  /\ Running(r, "economics")
  /\ Commit(r, [req[r].seen EXCEPT !.delta_ale_cash = delta])
  /\ UNCHANGED past

\* recompute_economics: from the linked risks unless entered by hand.
RecomputeEconomics(r) ==
  /\ Running(r, "recompute")
  /\ Commit(r, [req[r].seen EXCEPT
       !.delta_ale_cash = IF @ = NULL THEN LinkedDelta ELSE @])
  /\ UNCHANGED past

-----------------------------------------------------------------------------
(***************************************************************************)
(* Escalation.                                                             *)
(***************************************************************************)

\* Mutant: the ruling on the previous escalation is kept.
RaisedKeepingRuling(p) == [p EXCEPT !.escalated = TRUE, !.escalation_reason = past.raised + 1]

\* A new escalation: its reason, and no ruling on it yet.
Raised(p) == [p EXCEPT !.escalated = TRUE, !.escalation_reason = past.raised + 1,
                       !.escalation_decision = NULL]

\* escalate: in any status of the measure.
Escalate(r) ==
  /\ Running(r, "escalate")
  /\ past.raised < MaxRaised
  /\ Commit(r, Raised(req[r].seen))
  /\ past' = [past EXCEPT !.raised = @ + 1]

DecideEscalation(r, decision) ==
  /\ Running(r, "rule")
  /\ req[r].seen.escalated
  /\ Commit(r, [req[r].seen EXCEPT !.escalation_decision = decision])
  /\ past' = [past EXCEPT !.ruledOn = req[r].seen.escalation_reason]

ResolveEscalation(r) ==
  /\ Running(r, "resolve")
  /\ Commit(r, [req[r].seen EXCEPT !.escalated = FALSE])
  /\ UNCHANGED past

\* Mutant: no audit entry says that the task has been here.
AutoEscalatedUnlogged(p) == Raised(p)

AutoEscalated(p) == [Raised(p) EXCEPT !.history = [odd |-> ~ @.odd, autoEscalatedSla |-> TRUE]]

\* auto_escalate_overdue_measures: approved, not done, not escalated, past
\* its SLA, and never escalated by the task before.
AutoEscalate(r) ==
  LET p   == req[r].seen
      sla == IF p.is_blocking_override \/ critical THEN SlaDaysCritical ELSE SlaDays
  IN
  /\ Running(r, "auto")
  /\ p.status = "APPROVED" /\ p.execution # "DONE" /\ ~ p.escalated
  /\ p.due_on # NULL
  /\ p.due_on + sla < now
  /\ ~ p.history.autoEscalatedSla
  /\ past.raised < MaxRaised
  /\ Commit(r, AutoEscalated(p))
  /\ past' = [past EXCEPT !.raised = @ + 1, !.auto = @ + 1]

-----------------------------------------------------------------------------
(***************************************************************************)
(* The nonconformity's side, and the world around the card.                *)
(***************************************************************************)

\* nonconformity assign_measure: what it writes into the proposal.  It
\* looks at neither the status nor the execution of the measure.
AssignMeasure(r, blocking, level) ==
  /\ Running(r, "assign")
  /\ row' = Flush(row, req[r].seen,
                  [req[r].seen EXCEPT !.is_blocking_override = @ \/ blocking])
  /\ req' = [req EXCEPT ![r] = Idle]
  /\ critical' = (critical \/ level = "CRITICAL")
  /\ UNCHANGED <<exposure, now, past>>

\* Risk events are linked, unlinked and revalued by the risk register.
Revalue ==
  /\ "revalue" \in Ops
  /\ exposure' \in Exposures \ {exposure}
  /\ UNCHANGED <<row, req, critical, now, past>>

\* Midnight.  Handlers take seconds, deadlines and SLAs count days: none is
\* in flight across it.
Tick ==
  /\ now < MaxDay
  /\ \A r \in Requests : req[r].pc = "idle"
  /\ now' = now + 1
  /\ UNCHANGED <<row, req, exposure, critical, past>>

Handler(r) ==
  \/ Load(r)
  \/ Refuse(r)
  \/ \E u \in Users : Route(r, u)
  \/ \E approve \in BOOLEAN : Decide(r, approve)
  \/ \E due \in DueDates \cup {Garbled} : UpdateMeta(r, due) \/ Edit(r, due) \/ UpdateTask(r, due)
  \/ Annotate(r)
  \/ \E status \in {"DONE", "NOT_DONE"} : SetExecution(r, status)
  \/ SetEffortHours(r)
  \/ RewriteForExecutor(r)
  \/ SetActuals(r)
  \/ \E owner \in Owners \cup {NULL}, due \in DueDates \cup {Garbled, NULL}, effort \in BOOLEAN :
       TakeToWork(r, owner, due, effort)
  \/ \E delta \in Money \cup {NULL} : SetMeasureEconomics(r, delta)
  \/ RecomputeEconomics(r)
  \/ Escalate(r)
  \/ \E decision \in {"IGNORE", "REQUEST_MEASURES"} : DecideEscalation(r, decision)
  \/ ResolveEscalation(r)
  \/ AutoEscalate(r)
  \/ \E blocking \in BOOLEAN, level \in {"MAJOR", "CRITICAL"} : AssignMeasure(r, blocking, level)

Next == (\E r \in Requests : Handler(r)) \/ Revalue \/ Tick

Spec == Init /\ [][Next]_vars

-----------------------------------------------------------------------------
(***************************************************************************)
(* What holds while handlers on the card run one after another.            *)
(***************************************************************************)
Serial == \A r, s \in Requests : r = s

(***************************************************************************)
(* A decision is taken once, on a waiting measure: nothing that happens    *)
(* later (edits, execution, escalation, the nightly task, a nonconformity) *)
(* changes the verdict, its author or the effect frozen with it.           *)
(* service.decide: "Решение можно принять только по мере, ожидающей        *)
(* одобрения".                                                             *)
(***************************************************************************)
DecisionFinal ==
  [][row.status # "PENDING_APPROVAL" =>
       /\ row'.status = row.status
       /\ row'.decided_by = row.decided_by
       /\ row'.delta_ale_at_decision = row.delta_ale_at_decision]_vars

(***************************************************************************)
(* Every trace of execution (the mark, the hours, the executor's text, the *)
(* actuals, the task) is on an approved measure: set_execution,            *)
(* set_effort_hours, rewrite_for_executor, set_actuals, take_to_work.      *)
(***************************************************************************)
WorkOnlyOnApproved ==
  (\/ row.execution # NULL \/ row.effort_hours \/ row.executor_brief
   \/ row.actuals \/ row.taken_to_work) => row.status = "APPROVED"

(***************************************************************************)
(* The ruling shown on the card is a ruling on the escalation shown on it, *)
(* never on an earlier one (escalate, auto_escalate_overdue_measures and   *)
(* decide_escalation write the two halves of the pair).                    *)
(***************************************************************************)
RulingMatchesEscalation ==
  row.escalation_decision # NULL => past.ruledOn = row.escalation_reason

(***************************************************************************)
(* The nightly task escalates a card once in its life, whatever is edited, *)
(* resolved or taken to work in between (auto_escalate_overdue_measures:   *)
(* "один раз на карточку").                                                *)
(***************************************************************************)
AutoEscalatedOnce == past.auto <= 1

(***************************************************************************)
(* A measure that closes a blocking nonconformity is decided by top        *)
(* management (route_measure: is_blocking overrides the threshold).        *)
(***************************************************************************)
BlockingDecidedByTop ==
  [][row.is_blocking_override /\ row'.status # row.status
       => Role[row'.decided_by] = "TOP"]_vars

(***************************************************************************)
(* What holds however the handlers overlap.                                *)
(***************************************************************************)

(***************************************************************************)
(* A handler that works on an old copy of the row takes back nothing       *)
(* another one has recorded: not the fact that the measure was decided,    *)
(* nor its execution, task, figures, or the blocking flag.                 *)
(***************************************************************************)
NothingForgotten ==
  [][/\ row.status # "PENDING_APPROVAL" => row'.status # "PENDING_APPROVAL"
     /\ row.execution # NULL => row'.execution # NULL
     /\ row.taken_to_work => row'.taken_to_work
     /\ row.actuals => row'.actuals
     /\ row.is_blocking_override => row'.is_blocking_override]_vars

(***************************************************************************)
(* Work is recorded only on a card some decision has approved, and figures *)
(* only on one that was reported done, even when the handler that wrote    *)
(* them had read the row before others changed it.                         *)
(***************************************************************************)
WorkFollowsApproval ==
  /\ (\/ row.execution # NULL \/ row.effort_hours \/ row.executor_brief
      \/ row.taken_to_work) => past.approved
  /\ row.actuals => past.done

(***************************************************************************)
(* The verdict and its author stay together: there is one exactly when     *)
(* there is the other (decide sets both, in one of two commits that may    *)
(* meet on the card).                                                      *)
(***************************************************************************)
VerdictHasAuthor == (row.status = "PENDING_APPROVAL") <=> (row.decided_by = NULL)

-----------------------------------------------------------------------------
(***************************************************************************)
(* What the sources say of the measure and the code does not do.           *)
(***************************************************************************)

(***************************************************************************)
(* due_on is the date the text due_date stands for (_apply_with_history:   *)
(* "due_on должен пересчитываться при каждой правке").                     *)
(***************************************************************************)
DueDatesAgree == row.due_on = parse_ru_date(row.due_date)

=============================================================================
