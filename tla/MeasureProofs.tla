--------------------------- MODULE MeasureProofs ---------------------------
(***************************************************************************)
(* Proofs about Measure, for every set of users, handlers, dates and every *)
(* bound.                                                                  *)
(***************************************************************************)
EXTENDS Measure, TLAPS

-----------------------------------------------------------------------------
(***************************************************************************)
(* What a commit does to the row.                                          *)
(***************************************************************************)

(***************************************************************************)
(* Committing a well-formed copy leaves a well-formed row.                 *)
(***************************************************************************)
LEMMA FlushType ==
  ASSUME NEW cur \in Proposal, NEW loaded \in Proposal, NEW new \in Proposal
  PROVE  Flush(cur, loaded, new) \in Proposal
BY DEF Flush, Proposal

LEMMA ParsedDateType ==
  ASSUME NEW text \in DueDates \cup {Garbled, NULL}
  PROVE  parse_ru_date(text) \in DueDates \cup {NULL}
BY DEF parse_ru_date

LEMMA NewProposalType ==
  ASSUME NEW due \in DueDates \cup {Garbled, NULL}, NEW owner \in Owners \cup {NULL}
  PROVE  NewProposal(due, owner) \in Proposal
BY ParsedDateType, NumbersAssumption DEF NewProposal, Proposal, History

(***************************************************************************)
(* What the handlers write is a well-formed row.                           *)
(***************************************************************************)
LEMMA DecidedType ==
  ASSUME NEW p \in Proposal, NEW u \in Users \cup {NULL}, NEW approve \in BOOLEAN
  PROVE  Decided(p, u, approve) \in Proposal
<1>1. ASSUME NEW s \in {"PENDING_APPROVAL", "APPROVED", "REJECTED"},
             NEW m \in Money \cup {NULL}
      PROVE  [p EXCEPT !.status = s, !.decided_by = u, !.delta_ale_at_decision = m]
               \in Proposal
  BY DEF Proposal
<1>2. /\ p.delta_ale_cash \in Money \cup {NULL}
      /\ p.delta_ale_at_decision \in Money \cup {NULL}
  BY DEF Proposal
<1> QED
  BY <1>1, <1>2, Zenon DEF Decided

LEMMA LoggedType ==
  ASSUME NEW h \in History
  PROVE  Logged(h) \in History
BY DEF Logged, History

LEMMA AnnotatedType ==
  ASSUME NEW p \in Proposal
  PROVE  [p EXCEPT !.history = Logged(@)] \in Proposal
<1>1. Logged(p.history) \in History
  BY LoggedType DEF Proposal
<1> QED
  BY <1>1 DEF Proposal

LEMMA WithDueType ==
  ASSUME NEW p \in Proposal, NEW due \in DueDates \cup {Garbled, NULL}
  PROVE  WithDue(p, due) \in Proposal
<1>1. ASSUME NEW on \in DueDates \cup {NULL}, NEW h \in History
      PROVE  [p EXCEPT !.due_date = due, !.due_on = on, !.history = h] \in Proposal
  BY DEF Proposal
<1>2. Logged(p.history) \in History
  BY LoggedType DEF Proposal
<1> QED
  BY <1>1, <1>2, ParsedDateType, Zenon DEF WithDue

LEMMA TakenToWorkType ==
  ASSUME NEW p \in Proposal, NEW owner \in Owners \cup {NULL},
         NEW due \in DueDates \cup {Garbled, NULL}, NEW effort \in BOOLEAN
  PROVE  TakenToWork(p, owner, due, effort) \in Proposal
<1> DEFINE o    == IF owner = NULL THEN p.owner_user_id ELSE owner
           text == IF due = NULL THEN p.due_date ELSE due
           on   == IF text = p.due_date THEN p.due_on ELSE parse_ru_date(text)
           e    == IF effort THEN TRUE ELSE p.effort_hours
           h    == Logged(p.history)
<1>1. /\ p.owner_user_id \in Owners \cup {NULL}
      /\ p.due_date \in DueDates \cup {Garbled, NULL}
      /\ p.due_on \in DueDates \cup {NULL}
      /\ p.effort_hours \in BOOLEAN
      /\ p.history \in History
  BY DEF Proposal
<1>2. o \in Owners \cup {NULL}
  BY <1>1
<1>3. text \in DueDates \cup {Garbled, NULL}
  BY <1>1
<1>4. on \in DueDates \cup {NULL}
  BY <1>1, <1>3, ParsedDateType
<1>5. e \in BOOLEAN
  BY <1>1
<1>6. h \in History
  BY <1>1, LoggedType
<1>7. TakenToWork(p, owner, due, effort)
        = [p EXCEPT !.owner_user_id = o, !.due_date = text, !.due_on = on,
                    !.effort_hours = e, !.executor_brief = TRUE,
                    !.taken_to_work = TRUE, !.history = h]
  BY Zenon DEF TakenToWork
<1> HIDE DEF o, text, on, e, h
<1> DEFINE p1 == [p EXCEPT !.owner_user_id = o]
           p2 == [p1 EXCEPT !.due_date = text]
           p3 == [p2 EXCEPT !.due_on = on]
           p4 == [p3 EXCEPT !.effort_hours = e]
           p5 == [p4 EXCEPT !.executor_brief = TRUE]
           p6 == [p5 EXCEPT !.taken_to_work = TRUE]
           p7 == [p6 EXCEPT !.history = h]
<1>8. p1 \in Proposal
  BY <1>2 DEF Proposal
<1> HIDE DEF p1
<1>9. p2 \in Proposal
  BY <1>3, <1>8 DEF Proposal
<1> HIDE DEF p2
<1>10. p3 \in Proposal
  BY <1>4, <1>9 DEF Proposal
<1> HIDE DEF p3
<1>11. p4 \in Proposal
  BY <1>5, <1>10 DEF Proposal
<1> HIDE DEF p4
<1>12. p5 \in Proposal
  BY <1>11 DEF Proposal
<1> HIDE DEF p5
<1>13. p6 \in Proposal
  BY <1>12 DEF Proposal
<1> HIDE DEF p6
<1>14. p7 \in Proposal
  BY <1>6, <1>13 DEF Proposal
<1> QED
  BY <1>7, <1>14 DEF p1, p2, p3, p4, p5, p6

LEMMA RaisedType ==
  ASSUME TypeOK, past.raised < MaxRaised, NEW p \in Proposal
  PROVE  /\ Raised(p) \in Proposal
         /\ AutoEscalated(p) \in Proposal
         /\ past.raised + 1 \in 0 .. MaxRaised
<1>1. past.raised + 1 \in 0 .. MaxRaised
  BY NumbersAssumption DEF TypeOK, Past
<1>2. Raised(p) \in Proposal
  BY <1>1 DEF Raised, Proposal
<1>3. ASSUME NEW q \in Proposal, NEW h \in History
      PROVE  [q EXCEPT !.history = h] \in Proposal
  BY DEF Proposal
<1>4. ASSUME NEW odd \in BOOLEAN
      PROVE  [odd |-> odd, autoEscalatedSla |-> TRUE] \in History
  BY DEF History
<1>5. (~ Raised(p).history.odd) \in BOOLEAN
  OBVIOUS
<1> QED
  BY <1>1, <1>2, <1>3, <1>4, <1>5, Zenon DEF AutoEscalated

LEMMA IdleType == Idle \in Request
BY NewProposalType DEF Idle, Request

LEMMA CommitType ==
  ASSUME TypeOK, NEW r \in Requests, NEW new \in Proposal, Commit(r, new)
  PROVE  /\ row' \in Proposal
         /\ req' \in [Requests -> Request]
         /\ exposure' \in Exposures
         /\ critical' \in BOOLEAN
         /\ now' \in Days
<1>1. req[r].seen \in Proposal
  BY DEF TypeOK, Request
<1>2. row' \in Proposal
  BY <1>1, FlushType DEF TypeOK, Commit
<1>3. req' \in [Requests -> Request]
  BY IdleType DEF TypeOK, Commit
<1> QED
  BY <1>2, <1>3 DEF TypeOK, Commit
-----------------------------------------------------------------------------
(***************************************************************************)
(* Type correctness.                                                       *)
(***************************************************************************)

LEMMA InitType == Init => TypeOK
<1> SUFFICES ASSUME Init PROVE TypeOK
  OBVIOUS
<1>1. row \in Proposal
  BY NewProposalType DEF Init
<1>2. req \in [Requests -> Request]
  BY IdleType DEF Init
<1>3. now \in Days /\ past \in Past
  BY NumbersAssumption DEF Init, Days, Past
<1> QED
  BY <1>1, <1>2, <1>3 DEF Init, TypeOK

(***************************************************************************)
(* The nightly task's escalations are among all of them.                   *)
(***************************************************************************)
AutoCounted == past.auto <= past.raised

LEMMA AutoCountedKept ==
  ASSUME TypeOK, AutoCounted, [Next]_vars
  PROVE  AutoCounted'
<1>0. past.auto \in Nat /\ past.raised \in Nat /\ past \in Past
  BY NumbersAssumption DEF TypeOK, Past
<1>1. ASSUME NEW r \in Requests, Handler(r) PROVE AutoCounted'
  <2>1. CASE Escalate(r)
    BY <1>0, <2>1 DEF Escalate, AutoCounted, Past
  <2>2. CASE AutoEscalate(r)
    BY <1>0, <2>2 DEF AutoEscalate, AutoCounted, Past
  <2>3. CASE past'.auto = past.auto /\ past'.raised = past.raised
    BY <2>3 DEF AutoCounted
  <2>4. ASSUME NEW approve \in BOOLEAN, Decide(r, approve) PROVE AutoCounted'
    BY <1>0, <2>4 DEF Decide, AutoCounted, Past
  <2>5. ASSUME NEW status \in {"DONE", "NOT_DONE"}, SetExecution(r, status)
        PROVE  AutoCounted'
    BY <1>0, <2>5 DEF SetExecution, AutoCounted, Past
  <2>6. ASSUME NEW decision \in {"IGNORE", "REQUEST_MEASURES"},
               DecideEscalation(r, decision)
        PROVE  AutoCounted'
    BY <1>0, <2>6 DEF DecideEscalation, AutoCounted, Past
  <2> QED
    BY <1>1, <2>1, <2>2, <2>3, <2>4, <2>5, <2>6
    DEF Handler, Load, Refuse, Route, UpdateMeta, Edit, UpdateTask, Annotate,
        SetEffortHours, RewriteForExecutor, SetActuals, TakeToWork,
        SetMeasureEconomics, RecomputeEconomics, ResolveEscalation, AssignMeasure
<1> QED
  BY <1>1 DEF Next, Revalue, Tick, vars, AutoCounted

(***************************************************************************)
(* Each handler keeps the types.                                           *)
(***************************************************************************)
LEMMA HandlerType ==
  ASSUME TypeOK, AutoCounted, NEW r \in Requests, Handler(r)
  PROVE  TypeOK'
<1> DEFINE p == req[r].seen
<1>p. p \in Proposal /\ req[r].by \in Users \cup {NULL}
  BY DEF TypeOK, Request
<1>c. ASSUME NEW new \in Proposal, Commit(r, new), past' \in Past
      PROVE  TypeOK'
  BY <1>c, CommitType DEF TypeOK
<1>1. CASE Load(r)
  BY <1>1 DEF Load, TypeOK, Request
<1>2. CASE Refuse(r)
  BY <1>2, IdleType DEF Refuse, TypeOK
<1>3. ASSUME NEW u \in Users, Route(r, u)
      PROVE  TypeOK'
  BY <1>3 DEF Route, TypeOK, Request
<1>4. ASSUME NEW approve \in BOOLEAN, Decide(r, approve)
      PROVE  TypeOK'
  <2>1. Commit(r, Decided(p, req[r].by, approve)) /\ past' \in Past
    BY <1>4 DEF Decide, TypeOK, Past
  <2> QED
    BY <2>1, <1>p, <1>c, DecidedType
<1>5. ASSUME NEW due \in DueDates \cup {Garbled}, UpdateMeta(r, due) \/ Edit(r, due)
      PROVE  TypeOK'
  <2>1. Commit(r, WithDue(p, due)) /\ past' \in Past
    BY <1>5 DEF UpdateMeta, Edit, TypeOK
  <2> QED
    BY <2>1, <1>p, <1>c, WithDueType
<1>6. ASSUME NEW due \in DueDates \cup {Garbled}, UpdateTask(r, due)
      PROVE  TypeOK'
  <2>1. [p EXCEPT !.due_date = due] \in Proposal
    BY <1>p DEF Proposal
  <2>2. Commit(r, [p EXCEPT !.due_date = due]) /\ past' \in Past
    BY <1>6 DEF UpdateTask, TypeOK
  <2> QED
    BY <2>1, <2>2, <1>c
<1>7. CASE Annotate(r)
  <2>1. Commit(r, [p EXCEPT !.history = Logged(@)]) /\ past' \in Past
    BY <1>7 DEF Annotate, TypeOK
  <2> QED
    BY <2>1, <1>p, <1>c, AnnotatedType
<1>8. ASSUME NEW status \in {"DONE", "NOT_DONE"}, SetExecution(r, status)
      PROVE  TypeOK'
  <2>1. [p EXCEPT !.execution = status] \in Proposal
    BY <1>p DEF Proposal
  <2>2. Commit(r, [p EXCEPT !.execution = status]) /\ past' \in Past
    BY <1>8 DEF SetExecution, TypeOK, Past
  <2> QED
    BY <2>1, <2>2, <1>c
<1>9. CASE SetEffortHours(r)
  <2>1. [p EXCEPT !.effort_hours = TRUE] \in Proposal
    BY <1>p DEF Proposal
  <2> QED
    BY <2>1, <1>9, <1>c DEF SetEffortHours, TypeOK
<1>10. CASE RewriteForExecutor(r)
  <2>1. [p EXCEPT !.executor_brief = TRUE] \in Proposal
    BY <1>p DEF Proposal
  <2> QED
    BY <2>1, <1>10, <1>c DEF RewriteForExecutor, TypeOK
<1>11. CASE SetActuals(r)
  <2>1. [p EXCEPT !.actuals = TRUE] \in Proposal
    BY <1>p DEF Proposal
  <2> QED
    BY <2>1, <1>11, <1>c DEF SetActuals, TypeOK
<1>12. ASSUME NEW owner \in Owners \cup {NULL},
              NEW due \in DueDates \cup {Garbled, NULL},
              NEW effort \in BOOLEAN,
              TakeToWork(r, owner, due, effort)
       PROVE  TypeOK'
  <2>1. Commit(r, TakenToWork(p, owner, due, effort)) /\ past' \in Past
    BY <1>12 DEF TakeToWork, TypeOK
  <2> QED
    BY <2>1, <1>p, <1>c, TakenToWorkType
<1>13. ASSUME NEW delta \in Money \cup {NULL}, SetMeasureEconomics(r, delta)
       PROVE  TypeOK'
  <2>1. [p EXCEPT !.delta_ale_cash = delta] \in Proposal
    BY <1>p DEF Proposal
  <2> QED
    BY <2>1, <1>13, <1>c DEF SetMeasureEconomics, TypeOK
<1>14. CASE RecomputeEconomics(r)
  <2> DEFINE new == [p EXCEPT !.delta_ale_cash = IF @ = NULL THEN LinkedDelta ELSE @]
  <2>1. new \in Proposal
    BY <1>p, LinkedDeltaAssumption DEF Proposal
  <2>2. Commit(r, new) /\ past' \in Past
    BY <1>14 DEF RecomputeEconomics, TypeOK
  <2> QED
    BY <2>1, <2>2, <1>c
<1>15. CASE Escalate(r)
  <2>1. past.raised < MaxRaised /\ Commit(r, Raised(p))
    BY <1>15 DEF Escalate
  <2>2. past' \in Past
    BY <1>15, <1>p, <2>1, RaisedType DEF Escalate, TypeOK, Past
  <2> QED
    BY <2>1, <2>2, <1>p, <1>c, RaisedType
<1>16. ASSUME NEW decision \in {"IGNORE", "REQUEST_MEASURES"},
              DecideEscalation(r, decision)
       PROVE  TypeOK'
  <2>1. [p EXCEPT !.escalation_decision = decision] \in Proposal
    BY <1>p DEF Proposal
  <2>2. p.escalation_reason \in 0 .. MaxRaised
    BY <1>p DEF Proposal
  <2>3. Commit(r, [p EXCEPT !.escalation_decision = decision]) /\ past' \in Past
    BY <1>16, <2>2 DEF DecideEscalation, TypeOK, Past
  <2> QED
    BY <2>1, <2>3, <1>c
<1>17. CASE ResolveEscalation(r)
  <2>1. [p EXCEPT !.escalated = FALSE] \in Proposal
    BY <1>p DEF Proposal
  <2> QED
    BY <2>1, <1>17, <1>c DEF ResolveEscalation, TypeOK
<1>18. CASE AutoEscalate(r)
  <2>1. past.raised < MaxRaised /\ Commit(r, AutoEscalated(p))
    BY <1>18 DEF AutoEscalate
  <2>2. past.auto + 1 \in 0 .. MaxRaised
    BY <2>1, NumbersAssumption DEF AutoCounted, TypeOK, Past
  <2>3. past' \in Past
    BY <1>18, <1>p, <2>1, <2>2, RaisedType DEF AutoEscalate, TypeOK, Past
  <2> QED
    BY <2>1, <2>3, <1>p, <1>c, RaisedType
<1>19. ASSUME NEW blocking \in BOOLEAN, NEW level \in {"MAJOR", "CRITICAL"},
              AssignMeasure(r, blocking, level)
       PROVE  TypeOK'
  <2> DEFINE new == [p EXCEPT !.is_blocking_override = @ \/ blocking]
  <2>1. new \in Proposal
    BY <1>p DEF Proposal
  <2>2. Flush(row, p, new) \in Proposal
    BY <2>1, <1>p, FlushType DEF TypeOK
  <2> QED
    BY <1>19, <2>2, IdleType DEF AssignMeasure, TypeOK
<1> QED
  BY <1>1, <1>2, <1>3, <1>4, <1>5, <1>6, <1>7, <1>8, <1>9, <1>10, <1>11, <1>12,
     <1>13, <1>14, <1>15, <1>16, <1>17, <1>18, <1>19
  DEF Handler

(***************************************************************************)
(* The row, the copies the handlers hold and the calendar keep their       *)
(* types, whatever handlers run and however they overlap.                  *)
(***************************************************************************)
THEOREM TypeCorrect == Spec => []TypeOK
<1>1. Init => TypeOK /\ AutoCounted
  BY InitType DEF Init, AutoCounted
<1>2. TypeOK /\ AutoCounted /\ [Next]_vars => TypeOK' /\ AutoCounted'
  <2> SUFFICES ASSUME TypeOK, AutoCounted, [Next]_vars PROVE TypeOK'
    BY AutoCountedKept
  <2>1. ASSUME NEW r \in Requests, Handler(r) PROVE TypeOK'
    BY <2>1, HandlerType
  <2>2. CASE Revalue
    BY <2>2 DEF Revalue, TypeOK
  <2>3. CASE Tick
    BY <2>3, NumbersAssumption DEF Tick, TypeOK, Days
  <2>4. CASE UNCHANGED vars
    BY <2>4 DEF vars, TypeOK
  <2> QED
    BY <2>1, <2>2, <2>3, <2>4 DEF Next
<1> QED
  BY <1>1, <1>2, PTL DEF Spec

-----------------------------------------------------------------------------
(***************************************************************************)
(* Handlers that overlap.  A handler may commit a copy that is older than  *)
(* the row.  The invariant says of every copy in flight what it says of    *)
(* the row, and that the row still has all that the copy has.              *)
(***************************************************************************)

\* What the card p says of approval, execution and authorship is so.
Truthful(p, approved, done) ==
  /\ (\/ p.status = "APPROVED" \/ p.execution # NULL \/ p.effort_hours
      \/ p.executor_brief \/ p.taken_to_work) => approved
  /\ (p.execution = "DONE" \/ p.actuals) => done
  /\ (p.status = "PENDING_APPROVAL") <=> (p.decided_by = NULL)

\* The card q still records what p records.
Kept(p, q) ==
  /\ p.status # "PENDING_APPROVAL" => q.status # "PENDING_APPROVAL"
  /\ p.execution # NULL => q.execution # NULL
  /\ p.taken_to_work => q.taken_to_work
  /\ p.actuals => q.actuals
  /\ p.is_blocking_override => q.is_blocking_override

OverlapInv ==
  /\ Truthful(row, past.approved, past.done)
  /\ \A r \in Requests :
       /\ Truthful(req[r].seen, past.approved, past.done)
       /\ Kept(req[r].seen, row)
       /\ req[r].pc = "routed" =>
            req[r].by \in Users /\ req[r].seen.status = "PENDING_APPROVAL"

\* A handler changes the verdict and its author together or not at all.
PairedChange(p, new) ==
  (new.status = p.status) <=> (new.decided_by = p.decided_by)

LEMMA FlushColumns ==
  ASSUME NEW cur \in Proposal, NEW loaded \in Proposal, NEW new \in Proposal
  PROVE  LET f == Flush(cur, loaded, new) IN
         /\ f.status = IF new.status = loaded.status THEN cur.status ELSE new.status
         /\ f.decided_by = IF new.decided_by = loaded.decided_by THEN cur.decided_by ELSE new.decided_by
         /\ f.execution = IF new.execution = loaded.execution THEN cur.execution ELSE new.execution
         /\ f.effort_hours = IF new.effort_hours = loaded.effort_hours THEN cur.effort_hours ELSE new.effort_hours
         /\ f.executor_brief = IF new.executor_brief = loaded.executor_brief THEN cur.executor_brief ELSE new.executor_brief
         /\ f.actuals = IF new.actuals = loaded.actuals THEN cur.actuals ELSE new.actuals
         /\ f.taken_to_work = IF new.taken_to_work = loaded.taken_to_work THEN cur.taken_to_work ELSE new.taken_to_work
         /\ f.is_blocking_override = IF new.is_blocking_override = loaded.is_blocking_override THEN cur.is_blocking_override ELSE new.is_blocking_override
BY DEF Flush, Proposal

(***************************************************************************)
(* Merging a copy into a newer row takes nothing back.                     *)
(***************************************************************************)
LEMMA FlushKeeps ==
  ASSUME NEW cur \in Proposal, NEW loaded \in Proposal, NEW new \in Proposal,
         Kept(loaded, cur), Kept(loaded, new)
  PROVE  Kept(cur, Flush(cur, loaded, new))
<1> DEFINE f == Flush(cur, loaded, new)
<1>1. cur.status # "PENDING_APPROVAL" => f.status # "PENDING_APPROVAL"
  BY FlushColumns DEF Kept
<1>2. cur.execution # NULL => f.execution # NULL
  BY FlushColumns DEF Kept
<1>3. cur.taken_to_work => f.taken_to_work
  BY FlushColumns DEF Kept, Proposal
<1>4. cur.actuals => f.actuals
  BY FlushColumns DEF Kept, Proposal
<1>5. cur.is_blocking_override => f.is_blocking_override
  BY FlushColumns DEF Kept, Proposal
<1> QED
  BY <1>1, <1>2, <1>3, <1>4, <1>5 DEF Kept

(***************************************************************************)
(* The mixture of a truthful row and a truthful copy is truthful.          *)
(***************************************************************************)
LEMMA FlushTruthful ==
  ASSUME NEW cur \in Proposal, NEW loaded \in Proposal, NEW new \in Proposal,
         NEW approved \in BOOLEAN, NEW done \in BOOLEAN,
         Truthful(cur, approved, done), Truthful(new, approved, done),
         PairedChange(loaded, new)
  PROVE  Truthful(Flush(cur, loaded, new), approved, done)
<1> DEFINE f == Flush(cur, loaded, new)
<1>1. f.status = "APPROVED" => approved
  BY FlushColumns DEF Truthful
<1>2. f.execution # NULL => approved
  BY FlushColumns DEF Truthful
<1>3. f.effort_hours => approved
  BY FlushColumns DEF Truthful, Proposal
<1>4. f.executor_brief => approved
  BY FlushColumns DEF Truthful, Proposal
<1>5. f.taken_to_work => approved
  BY FlushColumns DEF Truthful, Proposal
<1>6. f.execution = "DONE" => done
  BY FlushColumns DEF Truthful
<1>7. f.actuals => done
  BY FlushColumns DEF Truthful, Proposal
<1>8. (f.status = "PENDING_APPROVAL") <=> (f.decided_by = NULL)
  BY FlushColumns DEF Truthful, PairedChange
<1> QED
  BY <1>1, <1>2, <1>3, <1>4, <1>5, <1>6, <1>7, <1>8 DEF Truthful

LEMMA KeptTransitive ==
  ASSUME NEW p, NEW q, NEW s, Kept(p, q), Kept(q, s)
  PROVE  Kept(p, s)
BY DEF Kept

LEMMA NewColumns ==
  ASSUME NEW due, NEW owner
  PROVE  LET p == NewProposal(due, owner) IN
         /\ p.status = "PENDING_APPROVAL" /\ p.decided_by = NULL /\ p.execution = NULL
         /\ p.effort_hours = FALSE /\ p.executor_brief = FALSE
         /\ p.actuals = FALSE /\ p.taken_to_work = FALSE
         /\ p.is_blocking_override = FALSE
BY DEF NewProposal

LEMMA BlankKeeps ==
  ASSUME NEW p, p.status = "PENDING_APPROVAL", p.decided_by = NULL, p.execution = NULL,
         p.effort_hours = FALSE, p.executor_brief = FALSE, p.actuals = FALSE,
         p.taken_to_work = FALSE, p.is_blocking_override = FALSE
  PROVE  /\ \A approved, done : Truthful(p, approved, done)
         /\ \A q : Kept(p, q)
<1>1. p.execution # "DONE" /\ p.status # "APPROVED"
  BY NullAssumption
<1> QED
  BY <1>1 DEF Truthful, Kept

LEMMA NewKeeps ==
  ASSUME NEW due, NEW owner
  PROVE  /\ \A approved, done : Truthful(NewProposal(due, owner), approved, done)
         /\ \A q : Kept(NewProposal(due, owner), q)
BY NewColumns, BlankKeeps

LEMMA IdleKeeps ==
  /\ Idle.pc = "idle"
  /\ \A approved, done : Truthful(Idle.seen, approved, done)
  /\ \A q : Kept(Idle.seen, q)
BY NewKeeps DEF Idle

(***************************************************************************)
(* A commit keeps the invariant and takes nothing back when the copy it    *)
(* writes keeps what its handler has read, is truthful, and changes the    *)
(* verdict and its author together.                                        *)
(***************************************************************************)
LEMMA CommitKeeps ==
  ASSUME TypeOK, OverlapInv, NEW r \in Requests, NEW new \in Proposal,
         row' = Flush(row, req[r].seen, new),
         req' = [req EXCEPT ![r] = Idle],
         past' \in Past, past.approved => past'.approved, past.done => past'.done,
         Kept(req[r].seen, new), PairedChange(req[r].seen, new),
         Truthful(new, past'.approved, past'.done)
  PROVE  OverlapInv' /\ Kept(row, row')
<1>1. row \in Proposal /\ \A s \in Requests : req[s].seen \in Proposal
  BY DEF TypeOK, Request
<1>2. past'.approved \in BOOLEAN /\ past'.done \in BOOLEAN
  BY DEF Past
<1>3. \A q : Truthful(q, past.approved, past.done) => Truthful(q, past'.approved, past'.done)
  BY DEF Truthful
<1>4. Kept(row, row')
  BY <1>1, FlushKeeps DEF OverlapInv
<1>5. Truthful(row', past'.approved, past'.done)
  BY <1>1, <1>2, <1>3, FlushTruthful DEF OverlapInv
<1>6. ASSUME NEW s \in Requests
      PROVE  /\ Truthful(req'[s].seen, past'.approved, past'.done)
             /\ Kept(req'[s].seen, row')
             /\ req'[s].pc = "routed" =>
                  req'[s].by \in Users /\ req'[s].seen.status = "PENDING_APPROVAL"
  <2>1. CASE s = r
    <3>1. req'[s] = Idle
      BY <2>1 DEF TypeOK
    <3> QED
      BY <3>1, IdleKeeps
  <2>2. CASE s # r
    <3>1. req'[s] = req[s]
      BY <2>2 DEF TypeOK
    <3>2. Kept(req[s].seen, row')
      BY <1>4, KeptTransitive DEF OverlapInv
    <3> QED
      BY <1>3, <3>1, <3>2 DEF OverlapInv
  <2> QED
    BY <2>1, <2>2
<1> QED
  BY <1>4, <1>5, <1>6 DEF OverlapInv

\* new differs from p in no column the invariant speaks of.
Bystander(p, new) ==
  /\ new.status = p.status /\ new.decided_by = p.decided_by
  /\ new.execution = p.execution /\ new.effort_hours = p.effort_hours
  /\ new.executor_brief = p.executor_brief /\ new.actuals = p.actuals
  /\ new.taken_to_work = p.taken_to_work
  /\ new.is_blocking_override = p.is_blocking_override

LEMMA BystanderKeeps ==
  ASSUME NEW p, NEW new, NEW approved, NEW done,
         Truthful(p, approved, done), Bystander(p, new)
  PROVE  Kept(p, new) /\ PairedChange(p, new) /\ Truthful(new, approved, done)
BY DEF Bystander, Kept, PairedChange, Truthful

LEMMA Bystanders ==
  ASSUME NEW p \in Proposal
  PROVE  /\ \A due : Bystander(p, WithDue(p, due))
         /\ \A due : Bystander(p, [p EXCEPT !.due_date = due])
         /\ \A h : Bystander(p, [p EXCEPT !.history = h])
         /\ \A delta : Bystander(p, [p EXCEPT !.delta_ale_cash = delta])
         /\ Bystander(p, Raised(p)) /\ Bystander(p, AutoEscalated(p))
         /\ \A d : Bystander(p, [p EXCEPT !.escalation_decision = d])
         /\ Bystander(p, [p EXCEPT !.escalated = FALSE])
<1>1. \A due : Bystander(p, WithDue(p, due))
  BY DEF Bystander, WithDue, Proposal
<1>2. \A due : Bystander(p, [p EXCEPT !.due_date = due])
  BY DEF Bystander, Proposal
<1>3. \A h : Bystander(p, [p EXCEPT !.history = h])
  BY DEF Bystander, Proposal
<1>4. \A delta : Bystander(p, [p EXCEPT !.delta_ale_cash = delta])
  BY DEF Bystander, Proposal
<1>5. Bystander(p, Raised(p))
  BY DEF Bystander, Raised, Proposal
<1>6. Bystander(p, AutoEscalated(p))
  BY DEF Bystander, AutoEscalated, Raised, Proposal
<1>7. \A d : Bystander(p, [p EXCEPT !.escalation_decision = d])
  BY DEF Bystander, Proposal
<1>8. Bystander(p, [p EXCEPT !.escalated = FALSE])
  BY DEF Bystander, Proposal
<1> QED
  BY <1>1, <1>2, <1>3, <1>4, <1>5, <1>6, <1>7, <1>8

LEMMA DecidedColumns ==
  ASSUME NEW p \in Proposal, NEW u, NEW approve \in BOOLEAN
  PROVE  LET new == Decided(p, u, approve) IN
         /\ new.status = IF approve THEN "APPROVED" ELSE "REJECTED"
         /\ new.decided_by = u
         /\ new.execution = p.execution /\ new.effort_hours = p.effort_hours
         /\ new.executor_brief = p.executor_brief /\ new.actuals = p.actuals
         /\ new.taken_to_work = p.taken_to_work
         /\ new.is_blocking_override = p.is_blocking_override
BY DEF Decided, Proposal

LEMMA TakenToWorkColumns ==
  ASSUME NEW p \in Proposal, NEW owner, NEW due, NEW effort
  PROVE  LET new == TakenToWork(p, owner, due, effort) IN
         /\ new.status = p.status /\ new.decided_by = p.decided_by
         /\ new.execution = p.execution /\ new.actuals = p.actuals
         /\ new.taken_to_work
         /\ new.is_blocking_override = p.is_blocking_override
BY DEF TakenToWork, Proposal

(***************************************************************************)
(* Each handler, on whatever copy it has read.                             *)
(***************************************************************************)
LEMMA HandlerKeeps ==
  ASSUME TypeOK, TypeOK', OverlapInv, NEW r \in Requests, Handler(r)
  PROVE  OverlapInv' /\ Kept(row, row')
<1> DEFINE p == req[r].seen
<1>p. p \in Proposal /\ row \in Proposal
  BY DEF TypeOK, Request
<1>t. Truthful(p, past.approved, past.done) /\ Kept(p, row)
  BY DEF OverlapInv
<1>k. Kept(row, row)
  BY DEF Kept
\* A handler that changes none of the columns and none of the past.
<1>b. ASSUME NEW new \in Proposal, Bystander(p, new), Commit(r, new),
             past'.approved = past.approved, past'.done = past.done
      PROVE  OverlapInv' /\ Kept(row, row')
  <2>1. Kept(p, new) /\ PairedChange(p, new) /\ Truthful(new, past'.approved, past'.done)
    BY <1>b, <1>t, BystanderKeeps
  <2>2. past' \in Past
    BY DEF TypeOK
  <2> QED
    BY <2>1, <2>2, <1>b, CommitKeeps DEF Commit
<1>1. CASE Load(r)
  <2>1. row' = row /\ past' = past
    BY <1>1 DEF Load
  <2>2. ASSUME NEW s \in Requests
        PROVE  req'[s] = IF s = r THEN [pc |-> "loaded", by |-> NULL, seen |-> row] ELSE req[s]
    BY <1>1 DEF Load, TypeOK
  <2> QED
    BY <2>1, <2>2, <1>k DEF OverlapInv
<1>2. CASE Refuse(r)
  <2>1. row' = row /\ past' = past
    BY <1>2 DEF Refuse
  <2>2. ASSUME NEW s \in Requests
        PROVE  req'[s] = IF s = r THEN Idle ELSE req[s]
    BY <1>2 DEF Refuse, TypeOK
  <2> QED
    BY <2>1, <2>2, <1>k, IdleKeeps DEF OverlapInv
<1>3. ASSUME NEW u \in Users, Route(r, u)
      PROVE  OverlapInv' /\ Kept(row, row')
  <2>1. row' = row /\ past' = past /\ p.status = "PENDING_APPROVAL"
    BY <1>3 DEF Route
  <2>2. ASSUME NEW s \in Requests
        PROVE  /\ req'[s].seen = req[s].seen
               /\ s # r => req'[s] = req[s]
               /\ s = r => req'[s].by = u
    BY <1>3 DEF Route, TypeOK, Request
  <2> QED
    BY <2>1, <2>2, <1>k DEF OverlapInv
<1>4. ASSUME NEW approve \in BOOLEAN, Decide(r, approve)
      PROVE  OverlapInv' /\ Kept(row, row')
  <2> DEFINE u == req[r].by
             new == Decided(p, u, approve)
  <2>1. u \in Users /\ p.status = "PENDING_APPROVAL" /\ u # NULL /\ p.decided_by = NULL
    BY <1>4, <1>t, NullAssumption DEF Decide, OverlapInv, Truthful
  <2>2. new \in Proposal
    BY <1>p, <2>1, DecidedType
  <2>3. Kept(p, new) /\ PairedChange(p, new)
    BY <1>p, <2>1, DecidedColumns DEF Kept, PairedChange
  <2>4. /\ past'.approved = (past.approved \/ approve) /\ past'.done = past.done
        /\ past' \in Past
    BY <1>4 DEF Decide, TypeOK, Past
  <2>5. Truthful(new, past'.approved, past'.done)
    <3>1. /\ new.status = "APPROVED" => approve
          /\ new.status # "PENDING_APPROVAL" /\ new.decided_by # NULL
      BY <1>p, <2>1, DecidedColumns
    <3>2. /\ past.approved => past'.approved
          /\ approve => past'.approved
          /\ past.done => past'.done
      BY <2>4
    <3>3. /\ new.execution = p.execution /\ new.effort_hours = p.effort_hours
          /\ new.executor_brief = p.executor_brief /\ new.actuals = p.actuals
          /\ new.taken_to_work = p.taken_to_work
      BY <1>p, DecidedColumns
    <3> HIDE DEF new
    <3> QED
      BY <1>t, <3>1, <3>2, <3>3 DEF Truthful
  <2>6. Commit(r, new)
    BY <1>4 DEF Decide
  <2> QED
    BY <2>2, <2>3, <2>4, <2>5, <2>6, CommitKeeps DEF Commit
<1>5. ASSUME NEW due \in DueDates \cup {Garbled}, UpdateMeta(r, due) \/ Edit(r, due)
      PROVE  OverlapInv' /\ Kept(row, row')
  <2>1. Commit(r, WithDue(p, due)) /\ past' = past
    BY <1>5 DEF UpdateMeta, Edit
  <2> QED
    BY <2>1, <1>p, <1>b, WithDueType, Bystanders
<1>6. ASSUME NEW due \in DueDates \cup {Garbled}, UpdateTask(r, due)
      PROVE  OverlapInv' /\ Kept(row, row')
  <2>1. Commit(r, [p EXCEPT !.due_date = due]) /\ past' = past
    BY <1>6 DEF UpdateTask
  <2>2. [p EXCEPT !.due_date = due] \in Proposal
    BY <1>p DEF Proposal
  <2> QED
    BY <2>1, <2>2, <1>p, <1>b, Bystanders
<1>7. CASE Annotate(r)
  <2>1. Commit(r, [p EXCEPT !.history = Logged(@)]) /\ past' = past
    BY <1>7 DEF Annotate
  <2> QED
    BY <2>1, <1>p, <1>b, AnnotatedType, Bystanders
<1>8. ASSUME NEW status \in {"DONE", "NOT_DONE"}, SetExecution(r, status)
      PROVE  OverlapInv' /\ Kept(row, row')
  <2> DEFINE new == [p EXCEPT !.execution = status]
  <2>1. new \in Proposal
    BY <1>p DEF Proposal
  <2>2. p.status = "APPROVED" /\ Commit(r, new)
    BY <1>8 DEF SetExecution
  <2>3. /\ past'.approved = past.approved /\ past'.done = (past.done \/ status = "DONE")
        /\ past' \in Past
    BY <1>8 DEF SetExecution, TypeOK, Past
  <2>n. status # NULL
    BY NullAssumption
  <2>4. /\ new.execution = status
        /\ new.status = p.status /\ new.decided_by = p.decided_by
        /\ new.actuals = p.actuals /\ new.taken_to_work = p.taken_to_work
        /\ new.is_blocking_override = p.is_blocking_override
        /\ new.effort_hours = p.effort_hours /\ new.executor_brief = p.executor_brief
    BY <1>p DEF Proposal
  <2> HIDE DEF new
  <2>5. Kept(p, new) /\ PairedChange(p, new)
    BY <2>4, <2>n DEF Kept, PairedChange
  <2>6. Truthful(new, past'.approved, past'.done)
    BY <1>t, <2>2, <2>3, <2>4 DEF Truthful
  <2> QED
    BY <2>1, <2>2, <2>3, <2>5, <2>6, CommitKeeps DEF Commit
\* A handler that marks something on an approved card.
<1>m. ASSUME NEW new \in Proposal, p.status = "APPROVED", Commit(r, new), past' = past,
             Kept(p, new), new.status = p.status, new.decided_by = p.decided_by,
             new.execution = p.execution,
             new.actuals => p.actuals \/ p.execution = "DONE"
      PROVE  OverlapInv' /\ Kept(row, row')
  <2>1. PairedChange(p, new)
    BY <1>m DEF PairedChange
  <2>2. Truthful(new, past'.approved, past'.done)
    BY <1>m, <1>t DEF Truthful
  <2>3. past' \in Past
    BY DEF TypeOK
  <2> QED
    BY <2>1, <2>2, <2>3, <1>m, CommitKeeps DEF Commit
<1>9. CASE SetEffortHours(r)
  <2> DEFINE new == [p EXCEPT !.effort_hours = TRUE]
  <2>1. p.status = "APPROVED" /\ Commit(r, new) /\ past' = past
    BY <1>9 DEF SetEffortHours
  <2>2. new \in Proposal
    BY <1>p DEF Proposal
  <2>3. /\ new.status = p.status /\ new.decided_by = p.decided_by
        /\ new.execution = p.execution /\ new.actuals = p.actuals
        /\ new.taken_to_work = p.taken_to_work
        /\ new.is_blocking_override = p.is_blocking_override
    BY <1>p DEF Proposal
  <2> QED
    BY <2>1, <2>2, <2>3, <1>m DEF Kept
<1>10. CASE RewriteForExecutor(r)
  <2> DEFINE new == [p EXCEPT !.executor_brief = TRUE]
  <2>1. p.status = "APPROVED" /\ Commit(r, new) /\ past' = past
    BY <1>10 DEF RewriteForExecutor
  <2>2. new \in Proposal
    BY <1>p DEF Proposal
  <2>3. /\ new.status = p.status /\ new.decided_by = p.decided_by
        /\ new.execution = p.execution /\ new.actuals = p.actuals
        /\ new.taken_to_work = p.taken_to_work
        /\ new.is_blocking_override = p.is_blocking_override
    BY <1>p DEF Proposal
  <2> QED
    BY <2>1, <2>2, <2>3, <1>m DEF Kept
<1>11. CASE SetActuals(r)
  <2> DEFINE new == [p EXCEPT !.actuals = TRUE]
  <2>1. /\ p.status = "APPROVED" /\ p.execution = "DONE"
        /\ Commit(r, new) /\ past' = past
    BY <1>11 DEF SetActuals
  <2>2. new \in Proposal
    BY <1>p DEF Proposal
  <2>3. /\ new.status = p.status /\ new.decided_by = p.decided_by
        /\ new.execution = p.execution /\ new.actuals
        /\ new.taken_to_work = p.taken_to_work
        /\ new.is_blocking_override = p.is_blocking_override
    BY <1>p DEF Proposal
  <2> QED
    BY <2>1, <2>2, <2>3, <1>m DEF Kept
<1>12. ASSUME NEW owner \in Owners \cup {NULL},
              NEW due \in DueDates \cup {Garbled, NULL},
              NEW effort \in BOOLEAN,
              TakeToWork(r, owner, due, effort)
       PROVE  OverlapInv' /\ Kept(row, row')
  <2> DEFINE new == TakenToWork(p, owner, due, effort)
  <2>1. p.status = "APPROVED" /\ Commit(r, new) /\ past' = past
    BY <1>12 DEF TakeToWork
  <2>2. new \in Proposal
    BY <1>p, TakenToWorkType
  <2>3. /\ new.status = p.status /\ new.decided_by = p.decided_by
        /\ new.execution = p.execution /\ new.actuals = p.actuals
        /\ new.taken_to_work
        /\ new.is_blocking_override = p.is_blocking_override
    BY <1>p, TakenToWorkColumns
  <2> HIDE DEF new
  <2> QED
    BY <2>1, <2>2, <2>3, <1>m DEF Kept
<1>13. ASSUME NEW delta \in Money \cup {NULL}, SetMeasureEconomics(r, delta)
       PROVE  OverlapInv' /\ Kept(row, row')
  <2>1. Commit(r, [p EXCEPT !.delta_ale_cash = delta]) /\ past' = past
    BY <1>13 DEF SetMeasureEconomics
  <2>2. [p EXCEPT !.delta_ale_cash = delta] \in Proposal
    BY <1>p DEF Proposal
  <2> QED
    BY <2>1, <2>2, <1>p, <1>b, Bystanders
<1>14. CASE RecomputeEconomics(r)
  <2> DEFINE delta == IF p.delta_ale_cash = NULL THEN LinkedDelta ELSE p.delta_ale_cash
  <2>1. Commit(r, [p EXCEPT !.delta_ale_cash = delta]) /\ past' = past
    BY <1>14 DEF RecomputeEconomics
  <2>2. delta \in Money \cup {NULL}
    BY <1>p, LinkedDeltaAssumption DEF Proposal
  <2>3. [p EXCEPT !.delta_ale_cash = delta] \in Proposal
    BY <1>p, <2>2 DEF Proposal
  <2> QED
    BY <2>1, <2>3, <1>p, <1>b, Bystanders
<1>15. CASE Escalate(r)
  <2>1. past.raised < MaxRaised /\ Commit(r, Raised(p))
    BY <1>15 DEF Escalate
  <2>2. past'.approved = past.approved /\ past'.done = past.done
    BY <1>15 DEF Escalate, TypeOK, Past
  <2> QED
    BY <2>1, <2>2, <1>p, <1>b, RaisedType, Bystanders
<1>16. ASSUME NEW decision \in {"IGNORE", "REQUEST_MEASURES"},
              DecideEscalation(r, decision)
       PROVE  OverlapInv' /\ Kept(row, row')
  <2>1. Commit(r, [p EXCEPT !.escalation_decision = decision])
    BY <1>16 DEF DecideEscalation
  <2>2. past'.approved = past.approved /\ past'.done = past.done
    BY <1>16 DEF DecideEscalation, TypeOK, Past
  <2>3. [p EXCEPT !.escalation_decision = decision] \in Proposal
    BY <1>p DEF Proposal
  <2> QED
    BY <2>1, <2>2, <2>3, <1>p, <1>b, Bystanders
<1>17. CASE ResolveEscalation(r)
  <2>1. Commit(r, [p EXCEPT !.escalated = FALSE]) /\ past' = past
    BY <1>17 DEF ResolveEscalation
  <2>2. [p EXCEPT !.escalated = FALSE] \in Proposal
    BY <1>p DEF Proposal
  <2> QED
    BY <2>1, <2>2, <1>p, <1>b, Bystanders
<1>18. CASE AutoEscalate(r)
  <2>1. past.raised < MaxRaised /\ Commit(r, AutoEscalated(p))
    BY <1>18 DEF AutoEscalate
  <2>2. past'.approved = past.approved /\ past'.done = past.done
    BY <1>18 DEF AutoEscalate, TypeOK, Past
  <2> QED
    BY <2>1, <2>2, <1>p, <1>b, RaisedType, Bystanders
<1>19. ASSUME NEW blocking \in BOOLEAN, NEW level \in {"MAJOR", "CRITICAL"},
              AssignMeasure(r, blocking, level)
       PROVE  OverlapInv' /\ Kept(row, row')
  <2> DEFINE new == [p EXCEPT !.is_blocking_override = @ \/ blocking]
  <2>1. new \in Proposal
    BY <1>p DEF Proposal
  <2>2. /\ new.status = p.status /\ new.decided_by = p.decided_by
        /\ new.execution = p.execution /\ new.effort_hours = p.effort_hours
        /\ new.executor_brief = p.executor_brief /\ new.actuals = p.actuals
        /\ new.taken_to_work = p.taken_to_work
        /\ p.is_blocking_override => new.is_blocking_override
    BY <1>p DEF Proposal
  <2>3. row' = Flush(row, p, new) /\ req' = [req EXCEPT ![r] = Idle] /\ past' = past
    BY <1>19 DEF AssignMeasure
  <2>4. Kept(p, new) /\ PairedChange(p, new) /\ Truthful(new, past'.approved, past'.done)
    BY <2>2, <2>3, <1>t DEF Kept, PairedChange, Truthful
  <2>5. past' \in Past
    BY DEF TypeOK
  <2> HIDE DEF new
  <2> QED
    BY <2>1, <2>3, <2>4, <2>5, CommitKeeps
<1> QED
  BY <1>1, <1>2, <1>3, <1>4, <1>5, <1>6, <1>7, <1>8, <1>9, <1>10, <1>11, <1>12,
     <1>13, <1>14, <1>15, <1>16, <1>17, <1>18, <1>19
  DEF Handler

LEMMA StepKeeps ==
  ASSUME TypeOK, TypeOK', OverlapInv, [Next]_vars
  PROVE  OverlapInv' /\ Kept(row, row')
<1>1. ASSUME NEW r \in Requests, Handler(r) PROVE OverlapInv' /\ Kept(row, row')
  BY <1>1, HandlerKeeps
<1>2. CASE UNCHANGED <<row, req, past>>
  BY <1>2 DEF OverlapInv, Kept
<1> QED
  BY <1>1, <1>2 DEF Next, Revalue, Tick, vars

LEMMA InitOverlap == Init => OverlapInv
<1> SUFFICES ASSUME Init PROVE OverlapInv
  OBVIOUS
<1>1. PICK due, owner : row = NewProposal(due, owner)
  BY DEF Init
<1>2. Truthful(row, past.approved, past.done)
  BY <1>1, NewKeeps
<1>3. \A r \in Requests : req[r] = Idle
  BY DEF Init
<1> QED
  BY <1>2, <1>3, IdleKeeps DEF OverlapInv

LEMMA OverlapInvariant == Spec => [](TypeOK /\ OverlapInv)
<1>1. TypeOK /\ OverlapInv /\ TypeOK' /\ [Next]_vars => OverlapInv'
  BY StepKeeps
<1> QED
  BY <1>1, InitOverlap, TypeCorrect, PTL DEF Spec

(***************************************************************************)
(* However many handlers overlap on the card, work is recorded only after  *)
(* an approval, and figures only after the measure was reported done.      *)
(***************************************************************************)
THEOREM WorkFollowsApprovalAlways == Spec => []WorkFollowsApproval
<1>1. OverlapInv => WorkFollowsApproval
  BY DEF OverlapInv, Truthful, WorkFollowsApproval
<1> QED
  BY <1>1, OverlapInvariant, PTL

(***************************************************************************)
(* However many handlers overlap, the card has a verdict exactly when it   *)
(* has the author of a verdict.                                            *)
(***************************************************************************)
THEOREM VerdictHasAuthorAlways == Spec => []VerdictHasAuthor
<1>1. OverlapInv => VerdictHasAuthor
  BY DEF OverlapInv, Truthful, VerdictHasAuthor
<1> QED
  BY <1>1, OverlapInvariant, PTL

(***************************************************************************)
(* However many handlers overlap, no commit takes back what another one    *)
(* has recorded.                                                           *)
(***************************************************************************)
THEOREM NothingForgottenAlways == Spec => NothingForgotten
<1> DEFINE Step == /\ row.status # "PENDING_APPROVAL" => row'.status # "PENDING_APPROVAL"
                   /\ row.execution # NULL => row'.execution # NULL
                   /\ row.taken_to_work => row'.taken_to_work
                   /\ row.actuals => row'.actuals
                   /\ row.is_blocking_override => row'.is_blocking_override
<1>1. TypeOK /\ OverlapInv /\ TypeOK' /\ [Next]_vars => [Step]_vars
  BY StepKeeps DEF Kept
<1>2. Spec => [][Step]_vars
  BY <1>1, OverlapInvariant, PTL DEF Spec
<1> QED
  BY <1>2 DEF NothingForgotten

-----------------------------------------------------------------------------
(***************************************************************************)
(* Handlers that run one after another.  The copy a handler has read is    *)
(* then the row itself, and what it commits is the row that follows.       *)
(***************************************************************************)

SeenIsRow == \A r \in Requests : req[r].pc # "idle" => req[r].seen = row

\* The audit entry of the task is there as soon as it has raised the card.
AutoLogged ==
  /\ past.auto <= 1
  /\ past.auto > 0 => row.history.autoEscalatedSla

SerialInv ==
  /\ SeenIsRow
  /\ WorkOnlyOnApproved
  /\ RulingMatchesEscalation
  /\ AutoLogged

LEMMA FlushFresh ==
  ASSUME NEW p \in Proposal, NEW new \in Proposal
  PROVE  Flush(p, p, new) = new
BY DEF Flush, Proposal

LEMMA SerialCommit ==
  ASSUME Serial, TypeOK, SeenIsRow, NEW r \in Requests, NEW new \in Proposal,
         req[r].pc # "idle",
         row' = Flush(row, req[r].seen, new),
         req' = [req EXCEPT ![r] = Idle]
  PROVE  row' = new /\ req[r].seen = row /\ SeenIsRow'
<1>1. req[r].seen = row
  BY DEF SeenIsRow
<1>2. row' = new
  BY <1>1, FlushFresh DEF TypeOK
<1>3. ASSUME NEW s \in Requests PROVE req'[s] = Idle
  BY DEF Serial, TypeOK
<1> QED
  BY <1>1, <1>2, <1>3, IdleKeeps DEF SeenIsRow

\* The columns of the verdict, of the escalation and the task's audit entry.
SameVerdict(p, new) ==
  /\ new.status = p.status /\ new.decided_by = p.decided_by
  /\ new.delta_ale_at_decision = p.delta_ale_at_decision

\* What a step may do to the verdict of the card: nothing, or pass it on a
\* waiting card in the name of the user whose right to it was checked.
VerdictStep ==
  \/ SameVerdict(row, row')
  \/ /\ row.status = "PENDING_APPROVAL"
     /\ \E r \in Requests : req[r].pc = "routed" /\ row'.decided_by = req[r].by

SameEscalation(p, new) ==
  /\ new.escalation_reason = p.escalation_reason
  /\ new.escalation_decision = p.escalation_decision

SameAudit(p, new) ==
  new.history.autoEscalatedSla = p.history.autoEscalatedSla

SameWork(p, new) ==
  /\ new.execution = p.execution /\ new.effort_hours = p.effort_hours
  /\ new.executor_brief = p.executor_brief /\ new.actuals = p.actuals
  /\ new.taken_to_work = p.taken_to_work

LEMMA EditColumns ==
  ASSUME NEW p \in Proposal
  PROVE  /\ \A due : LET new == WithDue(p, due) IN
              /\ SameVerdict(p, new) /\ SameEscalation(p, new)
              /\ SameAudit(p, new) /\ SameWork(p, new)
         /\ \A due : LET new == [p EXCEPT !.due_date = due] IN
              /\ SameVerdict(p, new) /\ SameEscalation(p, new)
              /\ SameAudit(p, new) /\ SameWork(p, new)
         /\ LET new == [p EXCEPT !.history = Logged(@)] IN
              /\ SameVerdict(p, new) /\ SameEscalation(p, new)
              /\ SameAudit(p, new) /\ SameWork(p, new)
<1>1. p.history \in History
  BY DEF Proposal
<1>2. Logged(p.history).autoEscalatedSla = p.history.autoEscalatedSla
  BY <1>1 DEF Logged, History
<1>3. ASSUME NEW h, h.autoEscalatedSla = p.history.autoEscalatedSla
      PROVE  LET new == [p EXCEPT !.history = h] IN
             /\ SameVerdict(p, new) /\ SameEscalation(p, new)
             /\ SameAudit(p, new) /\ SameWork(p, new)
  BY <1>3 DEF SameVerdict, SameEscalation, SameAudit, SameWork, Proposal
<1>4. ASSUME NEW due
      PROVE  LET new == [p EXCEPT !.due_date = due] IN
             /\ SameVerdict(p, new) /\ SameEscalation(p, new)
             /\ SameAudit(p, new) /\ SameWork(p, new)
  BY DEF SameVerdict, SameEscalation, SameAudit, SameWork, Proposal
<1>5. ASSUME NEW due, NEW on, NEW h, h.autoEscalatedSla = p.history.autoEscalatedSla
      PROVE  LET new == [p EXCEPT !.due_date = due, !.due_on = on, !.history = h] IN
             /\ SameVerdict(p, new) /\ SameEscalation(p, new)
             /\ SameAudit(p, new) /\ SameWork(p, new)
  BY <1>5 DEF SameVerdict, SameEscalation, SameAudit, SameWork, Proposal
<1>6. ASSUME NEW due
      PROVE  LET new == WithDue(p, due) IN
             /\ SameVerdict(p, new) /\ SameEscalation(p, new)
             /\ SameAudit(p, new) /\ SameWork(p, new)
  <2>1. CASE due = p.due_date
    BY <2>1 DEF WithDue, SameVerdict, SameEscalation, SameAudit, SameWork
  <2>2. CASE due # p.due_date
    BY <2>2, <1>2, <1>5, Zenon DEF WithDue
  <2> QED
    BY <2>1, <2>2
<1> QED
  BY <1>2, <1>3, <1>4, <1>6

LEMMA MoneyAndFlagColumns ==
  ASSUME NEW p \in Proposal
  PROVE  /\ \A delta : LET new == [p EXCEPT !.delta_ale_cash = delta] IN
              /\ SameVerdict(p, new) /\ SameEscalation(p, new)
              /\ SameAudit(p, new) /\ SameWork(p, new)
         /\ LET new == [p EXCEPT !.escalated = FALSE] IN
              /\ SameVerdict(p, new) /\ SameEscalation(p, new)
              /\ SameAudit(p, new) /\ SameWork(p, new)
         /\ \A b : LET new == [p EXCEPT !.is_blocking_override = b] IN
              /\ SameVerdict(p, new) /\ SameEscalation(p, new)
              /\ SameAudit(p, new) /\ SameWork(p, new)
BY DEF SameVerdict, SameEscalation, SameAudit, SameWork, Proposal

LEMMA MarkColumns ==
  ASSUME NEW p \in Proposal
  PROVE  /\ \A v : LET new == [p EXCEPT !.execution = v] IN
              SameVerdict(p, new) /\ SameEscalation(p, new) /\ SameAudit(p, new)
         /\ LET new == [p EXCEPT !.effort_hours = TRUE] IN
              SameVerdict(p, new) /\ SameEscalation(p, new) /\ SameAudit(p, new)
         /\ LET new == [p EXCEPT !.executor_brief = TRUE] IN
              SameVerdict(p, new) /\ SameEscalation(p, new) /\ SameAudit(p, new)
         /\ LET new == [p EXCEPT !.actuals = TRUE] IN
              SameVerdict(p, new) /\ SameEscalation(p, new) /\ SameAudit(p, new)
BY DEF SameVerdict, SameEscalation, SameAudit, Proposal

LEMMA TakenToWorkSerial ==
  ASSUME NEW p \in Proposal, NEW owner, NEW due, NEW effort
  PROVE  LET new == TakenToWork(p, owner, due, effort) IN
         SameVerdict(p, new) /\ SameEscalation(p, new) /\ SameAudit(p, new)
<1>1. p.history \in History
  BY DEF Proposal
<1>2. Logged(p.history).autoEscalatedSla = p.history.autoEscalatedSla
  BY <1>1 DEF Logged, History
<1>3. TakenToWork(p, owner, due, effort).history = Logged(p.history)
  BY DEF TakenToWork, Proposal
<1>4. SameVerdict(p, TakenToWork(p, owner, due, effort))
  BY DEF TakenToWork, SameVerdict, Proposal
<1>5. SameEscalation(p, TakenToWork(p, owner, due, effort))
  BY DEF TakenToWork, SameEscalation, Proposal
<1> QED
  BY <1>2, <1>3, <1>4, <1>5 DEF SameAudit

LEMMA RaisedColumns ==
  ASSUME NEW p \in Proposal
  PROVE  /\ SameVerdict(p, Raised(p)) /\ SameWork(p, Raised(p)) /\ SameAudit(p, Raised(p))
         /\ Raised(p).escalation_decision = NULL
         /\ SameVerdict(p, AutoEscalated(p)) /\ SameWork(p, AutoEscalated(p))
         /\ AutoEscalated(p).history.autoEscalatedSla
         /\ AutoEscalated(p).escalation_decision = NULL
<1>1. /\ SameVerdict(p, Raised(p)) /\ SameWork(p, Raised(p)) /\ SameAudit(p, Raised(p))
      /\ Raised(p).escalation_decision = NULL
  BY DEF Raised, SameVerdict, SameWork, SameAudit, Proposal
<1>2. /\ SameVerdict(p, AutoEscalated(p)) /\ SameWork(p, AutoEscalated(p))
      /\ AutoEscalated(p).escalation_decision = NULL
  BY DEF Raised, AutoEscalated, SameVerdict, SameWork, Proposal
<1>3. AutoEscalated(p).history.autoEscalatedSla
  BY DEF Raised, AutoEscalated, Proposal
<1> QED
  BY <1>1, <1>2, <1>3

(***************************************************************************)
(* A step that leaves the verdict alone, and the work too unless the card  *)
(* is approved.                                                            *)
(***************************************************************************)
LEMMA SerialEdit ==
  ASSUME Serial, TypeOK, SerialInv, NEW r \in Requests, NEW new \in Proposal,
         req[r].pc # "idle",
         row' = Flush(row, req[r].seen, new),
         req' = [req EXCEPT ![r] = Idle],
         SameVerdict(row, new),
         SameWork(row, new) \/ row.status = "APPROVED"
  PROVE  /\ row' = new /\ SeenIsRow' /\ WorkOnlyOnApproved' /\ VerdictStep
<1>1. row' = new /\ SeenIsRow'
  BY SerialCommit DEF SerialInv
<1>2. WorkOnlyOnApproved'
  BY <1>1 DEF SerialInv, WorkOnlyOnApproved, SameVerdict, SameWork
<1>3. VerdictStep
  BY <1>1 DEF VerdictStep
<1> QED
  BY <1>1, <1>2, <1>3

(***************************************************************************)
(* Such a step that also leaves the escalation and its audit entry alone.  *)
(***************************************************************************)
LEMMA SerialBystander ==
  ASSUME Serial, TypeOK, SerialInv, NEW r \in Requests, NEW new \in Proposal,
         req[r].pc # "idle",
         row' = Flush(row, req[r].seen, new),
         req' = [req EXCEPT ![r] = Idle],
         past'.ruledOn = past.ruledOn, past'.auto = past.auto,
         SameVerdict(row, new), SameEscalation(row, new), SameAudit(row, new),
         SameWork(row, new) \/ row.status = "APPROVED"
  PROVE  SerialInv' /\ VerdictStep
<1>1. row' = new /\ SeenIsRow' /\ WorkOnlyOnApproved' /\ VerdictStep
  BY SerialEdit
<1>2. RulingMatchesEscalation'
  BY <1>1 DEF SerialInv, RulingMatchesEscalation, SameEscalation
<1>3. AutoLogged'
  BY <1>1 DEF SerialInv, AutoLogged, SameAudit
<1> QED
  BY <1>1, <1>2, <1>3 DEF SerialInv

LEMMA SerialHandler ==
  ASSUME Serial, TypeOK, TypeOK', OverlapInv, SerialInv, NEW r \in Requests, Handler(r)
  PROVE  SerialInv' /\ VerdictStep
<1> DEFINE p == req[r].seen
<1>p. p \in Proposal /\ row \in Proposal
  BY DEF TypeOK, Request
<1>s. req[r].pc # "idle" => p = row
  BY DEF SerialInv, SeenIsRow
<1>n. past.auto \in Nat /\ past.auto <= 1 /\ past \in Past
  BY NumbersAssumption DEF TypeOK, Past, SerialInv, AutoLogged
\* A handler that concerns neither verdict, escalation nor audit entry.
<1>b. ASSUME NEW new \in Proposal, req[r].pc # "idle", Commit(r, new),
             past'.ruledOn = past.ruledOn, past'.auto = past.auto,
             SameVerdict(p, new), SameEscalation(p, new), SameAudit(p, new),
             SameWork(p, new) \/ p.status = "APPROVED"
      PROVE  SerialInv' /\ VerdictStep
  <2>1. p = row
    BY <1>b, <1>s
  <2> QED
    BY <1>b, <2>1, SerialBystander DEF Commit
<1>0. ASSUME row' = row, past' = past, SeenIsRow'
      PROVE  SerialInv' /\ VerdictStep
  BY <1>0
  DEF SerialInv, WorkOnlyOnApproved, RulingMatchesEscalation, AutoLogged, VerdictStep, SameVerdict
<1>1. CASE Load(r)
  <2>1. row' = row /\ past' = past
    BY <1>1 DEF Load
  <2>2. ASSUME NEW s \in Requests PROVE req'[s].seen = row
    BY <1>1 DEF Load, TypeOK, Serial
  <2> QED
    BY <2>1, <2>2, <1>0 DEF SeenIsRow
<1>2. CASE Refuse(r)
  <2>1. row' = row /\ past' = past
    BY <1>2 DEF Refuse
  <2>2. ASSUME NEW s \in Requests PROVE req'[s] = Idle
    BY <1>2 DEF Refuse, TypeOK, Serial
  <2> QED
    BY <2>1, <2>2, <1>0, IdleKeeps DEF SeenIsRow
<1>3. ASSUME NEW u \in Users, Route(r, u)
      PROVE  SerialInv' /\ VerdictStep
  <2>1. row' = row /\ past' = past /\ p = row
    BY <1>3, <1>s DEF Route, Running
  <2>2. ASSUME NEW s \in Requests PROVE req'[s].seen = row
    BY <1>3, <2>1 DEF Route, TypeOK, Serial, Request
  <2> QED
    BY <2>1, <2>2, <1>0 DEF SeenIsRow
<1>4. ASSUME NEW approve \in BOOLEAN, Decide(r, approve)
      PROVE  SerialInv' /\ VerdictStep
  <2> DEFINE new == Decided(p, req[r].by, approve)
  <2>1. /\ req[r].pc = "routed" /\ Commit(r, new) /\ p = row
        /\ row.status = "PENDING_APPROVAL"
    BY <1>4, <1>s DEF Decide, OverlapInv
  <2>2. new \in Proposal
    BY <1>p, DecidedType DEF TypeOK, Request
  <2>3. row' = new /\ SeenIsRow'
    BY <2>1, <2>2, SerialCommit DEF SerialInv, Commit
  <2>4. past'.auto = past.auto /\ past'.ruledOn = past.ruledOn
    BY <1>4, <1>n DEF Decide, Past
  <2>5. /\ SameWork(row, new)
        /\ SameEscalation(row, new)
        /\ SameAudit(row, new)
    BY <2>1, <1>p DEF Decided, SameWork, SameEscalation, SameAudit, Proposal
  <2> HIDE DEF new
  <2>6. WorkOnlyOnApproved'
    BY <2>1, <2>3, <2>5 DEF SerialInv, WorkOnlyOnApproved, SameWork
  <2>7. RulingMatchesEscalation' /\ AutoLogged'
    BY <2>3, <2>4, <2>5
    DEF SerialInv, RulingMatchesEscalation, AutoLogged, SameEscalation, SameAudit
  <2>8. VerdictStep
    BY <2>1, <2>3, <1>p, DecidedColumns DEF VerdictStep, new
  <2> QED
    BY <2>3, <2>6, <2>7, <2>8 DEF SerialInv
<1>5. ASSUME NEW due \in DueDates \cup {Garbled}, UpdateMeta(r, due) \/ Edit(r, due)
      PROVE  SerialInv' /\ VerdictStep
  <2>1. req[r].pc # "idle" /\ Commit(r, WithDue(p, due)) /\ past' = past
    BY <1>5 DEF UpdateMeta, Edit, Running
  <2> QED
    BY <2>1, <1>p, <1>b, WithDueType, EditColumns
<1>6. ASSUME NEW due \in DueDates \cup {Garbled}, UpdateTask(r, due)
      PROVE  SerialInv' /\ VerdictStep
  <2>1. req[r].pc # "idle" /\ Commit(r, [p EXCEPT !.due_date = due]) /\ past' = past
    BY <1>6 DEF UpdateTask, Running
  <2>2. [p EXCEPT !.due_date = due] \in Proposal
    BY <1>p DEF Proposal
  <2> QED
    BY <2>1, <2>2, <1>p, <1>b, EditColumns
<1>7. CASE Annotate(r)
  <2>1. req[r].pc # "idle" /\ Commit(r, [p EXCEPT !.history = Logged(@)]) /\ past' = past
    BY <1>7 DEF Annotate, Running
  <2> QED
    BY <2>1, <1>p, <1>b, AnnotatedType, EditColumns
<1>8. ASSUME NEW status \in {"DONE", "NOT_DONE"}, SetExecution(r, status)
      PROVE  SerialInv' /\ VerdictStep
  <2>1. /\ req[r].pc # "idle" /\ p.status = "APPROVED"
        /\ Commit(r, [p EXCEPT !.execution = status])
    BY <1>8 DEF SetExecution, Running
  <2>2. past'.ruledOn = past.ruledOn /\ past'.auto = past.auto
    BY <1>8, <1>n DEF SetExecution, Past
  <2>3. [p EXCEPT !.execution = status] \in Proposal
    BY <1>p DEF Proposal
  <2> QED
    BY <2>1, <2>2, <2>3, <1>p, <1>b, MarkColumns
<1>9. CASE SetEffortHours(r)
  <2>1. /\ req[r].pc # "idle" /\ p.status = "APPROVED"
        /\ Commit(r, [p EXCEPT !.effort_hours = TRUE]) /\ past' = past
    BY <1>9 DEF SetEffortHours, Running
  <2>2. [p EXCEPT !.effort_hours = TRUE] \in Proposal
    BY <1>p DEF Proposal
  <2> QED
    BY <2>1, <2>2, <1>p, <1>b, MarkColumns
<1>10. CASE RewriteForExecutor(r)
  <2>1. /\ req[r].pc # "idle" /\ p.status = "APPROVED"
        /\ Commit(r, [p EXCEPT !.executor_brief = TRUE]) /\ past' = past
    BY <1>10 DEF RewriteForExecutor, Running
  <2>2. [p EXCEPT !.executor_brief = TRUE] \in Proposal
    BY <1>p DEF Proposal
  <2> QED
    BY <2>1, <2>2, <1>p, <1>b, MarkColumns
<1>11. CASE SetActuals(r)
  <2>1. /\ req[r].pc # "idle" /\ p.status = "APPROVED"
        /\ Commit(r, [p EXCEPT !.actuals = TRUE]) /\ past' = past
    BY <1>11 DEF SetActuals, Running
  <2>2. [p EXCEPT !.actuals = TRUE] \in Proposal
    BY <1>p DEF Proposal
  <2> QED
    BY <2>1, <2>2, <1>p, <1>b, MarkColumns
<1>12. ASSUME NEW owner \in Owners \cup {NULL},
              NEW due \in DueDates \cup {Garbled, NULL},
              NEW effort \in BOOLEAN,
              TakeToWork(r, owner, due, effort)
       PROVE  SerialInv' /\ VerdictStep
  <2>1. /\ req[r].pc # "idle" /\ p.status = "APPROVED"
        /\ Commit(r, TakenToWork(p, owner, due, effort)) /\ past' = past
    BY <1>12 DEF TakeToWork, Running
  <2> QED
    BY <2>1, <1>p, <1>b, TakenToWorkType, TakenToWorkSerial
<1>13. ASSUME NEW delta \in Money \cup {NULL}, SetMeasureEconomics(r, delta)
       PROVE  SerialInv' /\ VerdictStep
  <2>1. req[r].pc # "idle" /\ Commit(r, [p EXCEPT !.delta_ale_cash = delta]) /\ past' = past
    BY <1>13 DEF SetMeasureEconomics, Running
  <2>2. [p EXCEPT !.delta_ale_cash = delta] \in Proposal
    BY <1>p DEF Proposal
  <2> QED
    BY <2>1, <2>2, <1>p, <1>b, MoneyAndFlagColumns
<1>14. CASE RecomputeEconomics(r)
  <2> DEFINE delta == IF p.delta_ale_cash = NULL THEN LinkedDelta ELSE p.delta_ale_cash
  <2>1. req[r].pc # "idle" /\ Commit(r, [p EXCEPT !.delta_ale_cash = delta]) /\ past' = past
    BY <1>14 DEF RecomputeEconomics, Running
  <2>2. delta \in Money \cup {NULL}
    BY <1>p, LinkedDeltaAssumption DEF Proposal
  <2>3. [p EXCEPT !.delta_ale_cash = delta] \in Proposal
    BY <1>p, <2>2 DEF Proposal
  <2> QED
    BY <2>1, <2>3, <1>p, <1>b, MoneyAndFlagColumns
<1>15. CASE Escalate(r)
  <2>1. /\ req[r].pc # "idle" /\ past.raised < MaxRaised
        /\ Commit(r, Raised(p)) /\ p = row
    BY <1>15, <1>s DEF Escalate, Running
  <2>2. past'.auto = past.auto
    BY <1>15, <1>n DEF Escalate, Past
  <2>3. row' = Raised(row) /\ SeenIsRow' /\ WorkOnlyOnApproved' /\ VerdictStep
    BY <2>1, <1>p, RaisedType, RaisedColumns, SerialEdit DEF Commit
  <2>4. RulingMatchesEscalation' /\ AutoLogged'
    BY <2>2, <2>3, <1>p, RaisedColumns
    DEF SerialInv, RulingMatchesEscalation, AutoLogged, SameAudit
  <2> QED
    BY <2>3, <2>4 DEF SerialInv
<1>16. ASSUME NEW decision \in {"IGNORE", "REQUEST_MEASURES"},
              DecideEscalation(r, decision)
       PROVE  SerialInv' /\ VerdictStep
  <2> DEFINE new == [p EXCEPT !.escalation_decision = decision]
  <2>1. req[r].pc # "idle" /\ Commit(r, new) /\ p = row
    BY <1>16, <1>s DEF DecideEscalation, Running
  <2>2. past'.auto = past.auto /\ past'.ruledOn = p.escalation_reason
    BY <1>16, <1>n DEF DecideEscalation, Past
  <2>3. new \in Proposal
    BY <1>p DEF Proposal
  <2>4. /\ SameVerdict(p, new) /\ SameWork(p, new) /\ SameAudit(p, new)
        /\ new.escalation_reason = p.escalation_reason
    BY <1>p DEF SameVerdict, SameWork, SameAudit, Proposal
  <2> HIDE DEF new
  <2>5. row' = new /\ SeenIsRow' /\ WorkOnlyOnApproved' /\ VerdictStep
    BY <2>1, <2>3, <2>4, SerialEdit DEF Commit
  <2>6. RulingMatchesEscalation' /\ AutoLogged'
    BY <2>1, <2>2, <2>4, <2>5
    DEF SerialInv, RulingMatchesEscalation, AutoLogged, SameAudit
  <2> QED
    BY <2>5, <2>6 DEF SerialInv
<1>17. CASE ResolveEscalation(r)
  <2>1. req[r].pc # "idle" /\ Commit(r, [p EXCEPT !.escalated = FALSE]) /\ past' = past
    BY <1>17 DEF ResolveEscalation, Running
  <2>2. [p EXCEPT !.escalated = FALSE] \in Proposal
    BY <1>p DEF Proposal
  <2> QED
    BY <2>1, <2>2, <1>p, <1>b, MoneyAndFlagColumns
<1>18. CASE AutoEscalate(r)
  <2>1. /\ req[r].pc # "idle" /\ past.raised < MaxRaised
        /\ Commit(r, AutoEscalated(p)) /\ p = row
        /\ ~ row.history.autoEscalatedSla
    BY <1>18, <1>s DEF AutoEscalate, Running
  <2>2. past.auto = 0
    BY <2>1, <1>n DEF SerialInv, AutoLogged
  <2>3. past'.auto = 1
    BY <1>18, <1>n, <2>2 DEF AutoEscalate, Past
  <2>4. row' = AutoEscalated(row) /\ SeenIsRow' /\ WorkOnlyOnApproved' /\ VerdictStep
    BY <2>1, <1>p, RaisedType, RaisedColumns, SerialEdit DEF Commit
  <2>5. RulingMatchesEscalation' /\ AutoLogged'
    BY <2>3, <2>4, <1>p, RaisedColumns DEF RulingMatchesEscalation, AutoLogged
  <2> QED
    BY <2>4, <2>5 DEF SerialInv
<1>19. ASSUME NEW blocking \in BOOLEAN, NEW level \in {"MAJOR", "CRITICAL"},
              AssignMeasure(r, blocking, level)
       PROVE  SerialInv' /\ VerdictStep
  <2> DEFINE new == [p EXCEPT !.is_blocking_override = @ \/ blocking]
  <2>1. /\ req[r].pc # "idle" /\ p = row /\ past' = past
        /\ row' = Flush(row, p, new) /\ req' = [req EXCEPT ![r] = Idle]
    BY <1>19, <1>s DEF AssignMeasure, Running
  <2>2. new \in Proposal
    BY <1>p DEF Proposal
  <2>3. SameVerdict(p, new) /\ SameEscalation(p, new) /\ SameAudit(p, new) /\ SameWork(p, new)
    BY <1>p, MoneyAndFlagColumns
  <2> HIDE DEF new
  <2> QED
    BY <2>1, <2>2, <2>3, SerialBystander
<1> QED
  BY <1>1, <1>2, <1>3, <1>4, <1>5, <1>6, <1>7, <1>8, <1>9, <1>10, <1>11, <1>12,
     <1>13, <1>14, <1>15, <1>16, <1>17, <1>18, <1>19
  DEF Handler

LEMMA SerialStep ==
  ASSUME Serial, TypeOK, TypeOK', OverlapInv, SerialInv, [Next]_vars
  PROVE  SerialInv' /\ VerdictStep
<1>1. ASSUME NEW r \in Requests, Handler(r) PROVE SerialInv' /\ VerdictStep
  BY <1>1, SerialHandler
<1>2. CASE UNCHANGED <<row, req, past>>
  BY <1>2 DEF SerialInv, SeenIsRow, WorkOnlyOnApproved, RulingMatchesEscalation,
              AutoLogged, VerdictStep, SameVerdict
<1> QED
  BY <1>1, <1>2 DEF Next, Revalue, Tick, vars

LEMMA SerialInit == Init => SerialInv
<1> SUFFICES ASSUME Init PROVE SerialInv
  OBVIOUS
<1>1. PICK due, owner : row = NewProposal(due, owner)
  BY DEF Init
<1>2. WorkOnlyOnApproved /\ RulingMatchesEscalation
  BY <1>1 DEF NewProposal, WorkOnlyOnApproved, RulingMatchesEscalation
<1>3. SeenIsRow /\ AutoLogged
  BY IdleKeeps DEF Init, SeenIsRow, AutoLogged
<1> QED
  BY <1>2, <1>3 DEF SerialInv

LEMMA SerialInvariant ==
  ASSUME Serial
  PROVE  Spec => [](TypeOK /\ OverlapInv /\ SerialInv)
<1>1. TypeOK /\ OverlapInv /\ SerialInv /\ TypeOK' /\ [Next]_vars => SerialInv'
  BY SerialStep
<1> QED
  BY <1>1, SerialInit, OverlapInvariant, PTL DEF Spec

(***************************************************************************)
(* One handler at a time: every trace of execution is on an approved card. *)
(***************************************************************************)
THEOREM WorkOnlyOnApprovedSerially ==
  ASSUME Serial PROVE Spec => []WorkOnlyOnApproved
<1>1. SerialInv => WorkOnlyOnApproved
  BY DEF SerialInv
<1> QED
  BY <1>1, SerialInvariant, PTL

(***************************************************************************)
(* One handler at a time: the ruling on the card is a ruling on the        *)
(* escalation on the card.                                                 *)
(***************************************************************************)
THEOREM RulingMatchesSerially ==
  ASSUME Serial PROVE Spec => []RulingMatchesEscalation
<1>1. SerialInv => RulingMatchesEscalation
  BY DEF SerialInv
<1> QED
  BY <1>1, SerialInvariant, PTL

(***************************************************************************)
(* One handler at a time: the nightly task raises a card once in its life. *)
(***************************************************************************)
THEOREM AutoEscalatedOnceSerially ==
  ASSUME Serial PROVE Spec => []AutoEscalatedOnce
<1>1. SerialInv => AutoEscalatedOnce
  BY DEF SerialInv, AutoLogged, AutoEscalatedOnce
<1> QED
  BY <1>1, SerialInvariant, PTL

(***************************************************************************)
(* One handler at a time: a decision once taken is never changed.          *)
(***************************************************************************)
THEOREM DecisionFinalSerially ==
  ASSUME Serial PROVE Spec => DecisionFinal
<1> DEFINE Frozen == row.status # "PENDING_APPROVAL" =>
                       /\ row'.status = row.status
                       /\ row'.decided_by = row.decided_by
                       /\ row'.delta_ale_at_decision = row.delta_ale_at_decision
<1>1. TypeOK /\ OverlapInv /\ SerialInv /\ TypeOK' /\ [Next]_vars => [Frozen]_vars
  BY SerialStep DEF VerdictStep, SameVerdict
<1>2. Spec => [][Frozen]_vars
  BY <1>1, SerialInvariant, PTL DEF Spec
<1> QED
  BY <1>2 DEF DecisionFinal

(***************************************************************************)
(* A handler that has passed the checks of decide on a blocking measure    *)
(* acts for top management, whatever has been revalued since.              *)
(***************************************************************************)
RoutedByTop ==
  \A r \in Requests :
    req[r].pc = "routed" /\ req[r].seen.is_blocking_override => Role[req[r].by] = "TOP"

LEMMA RoutedInvariant == Spec => []RoutedByTop
<1>1. Init => RoutedByTop
  BY IdleKeeps DEF Init, RoutedByTop
<1>2. TypeOK /\ RoutedByTop /\ [Next]_vars => RoutedByTop'
  <2> SUFFICES ASSUME TypeOK, RoutedByTop, [Next]_vars PROVE RoutedByTop'
    OBVIOUS
  <2>1. ASSUME NEW r \in Requests, Handler(r) PROVE RoutedByTop'
    <3>1. CASE req' = [req EXCEPT ![r] = Idle]
      BY <3>1, IdleKeeps DEF RoutedByTop, TypeOK
    <3>2. CASE Load(r)
      BY <3>2 DEF Load, RoutedByTop, TypeOK
    <3>3. ASSUME NEW u \in Users, Route(r, u) PROVE RoutedByTop'
      <4>1. req[r].seen.is_blocking_override => Role[u] = "TOP"
        BY <3>3 DEF Route, can_self_decide, route_measure
      <4>2. ASSUME NEW s \in Requests
            PROVE  /\ s # r => req'[s] = req[s]
                   /\ s = r => req'[s].by = u /\ req'[s].seen = req[s].seen
        BY <3>3 DEF Route, TypeOK, Request
      <4> QED
        BY <4>1, <4>2 DEF RoutedByTop
    <3> QED
      BY <2>1, <3>1, <3>2, <3>3
      DEF Handler, Refuse, Decide, Commit, UpdateMeta, Edit, UpdateTask, Annotate,
          SetExecution, SetEffortHours, RewriteForExecutor, SetActuals, TakeToWork,
          SetMeasureEconomics, RecomputeEconomics, Escalate, DecideEscalation,
          ResolveEscalation, AutoEscalate, AssignMeasure
  <2>2. CASE UNCHANGED req
    BY <2>2 DEF RoutedByTop
  <2> QED
    BY <2>1, <2>2 DEF Next, Revalue, Tick, vars
<1> QED
  BY <1>1, <1>2, TypeCorrect, PTL DEF Spec

(***************************************************************************)
(* One handler at a time: a measure that closes a blocking nonconformity   *)
(* is decided by top management.                                           *)
(***************************************************************************)
THEOREM BlockingDecidedByTopSerially ==
  ASSUME Serial PROVE Spec => BlockingDecidedByTop
<1> DEFINE Top == row.is_blocking_override /\ row'.status # row.status
                    => Role[row'.decided_by] = "TOP"
<1>1. TypeOK /\ OverlapInv /\ SerialInv /\ RoutedByTop /\ TypeOK' /\ [Next]_vars
        => [Top]_vars
  <2> SUFFICES ASSUME TypeOK, OverlapInv, SerialInv, RoutedByTop, TypeOK', [Next]_vars,
                      row.is_blocking_override, row'.status # row.status
               PROVE  Role[row'.decided_by] = "TOP"
    OBVIOUS
  <2>1. PICK r \in Requests : req[r].pc = "routed" /\ row'.decided_by = req[r].by
    BY SerialStep DEF VerdictStep, SameVerdict
  <2>2. req[r].seen = row
    BY <2>1 DEF SerialInv, SeenIsRow
  <2> QED
    BY <2>1, <2>2 DEF RoutedByTop
<1>2. Spec => [][Top]_vars
  BY <1>1, SerialInvariant, RoutedInvariant, PTL DEF Spec
<1> QED
  BY <1>2 DEF BlockingDecidedByTop

=============================================================================
