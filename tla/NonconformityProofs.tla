------------------------ MODULE NonconformityProofs ------------------------
(***************************************************************************)
(* Proofs about Nonconformity, for every set of users, owners, measures    *)
(* and slots and every bound: what holds however handlers overlap, and     *)
(* that one after another they implement the contour of Closure.           *)
(***************************************************************************)
EXTENDS MCNightly, TLAPS, FiniteSetTheorems

(***************************************************************************)
(* What a stage must have left behind, of any copy of the row.             *)
(***************************************************************************)
Milestones(p) ==
  /\ p.status # "IDENTIFIED" => p.sla_due # NULL
  /\ p.status \notin {"IDENTIFIED", "EVALUATED"} => p.decision_verdict # NULL
  /\ p.status \in {"MEASURE_ASSIGNED", "IN_PROGRESS", "EXECUTED", "VERIFIED"}
       => p.proposal_id # NULL
  /\ p.status \in {"EXECUTED", "VERIFIED"} => p.executed_by # NULL
  /\ p.status = "VERIFIED" => p.verified_by # NULL

Signed(p) == p.decision_verdict = "ACCEPT" => p.signed_by # NULL /\ p.review_date

(***************************************************************************)
(* What p records q records too, if not the same: no handler empties a     *)
(* column.  The status is not among them: an old copy sets it back.        *)
(***************************************************************************)
Records(q, p) ==
  /\ p.sla_due # NULL => q.sla_due # NULL
  /\ p.decision_verdict # NULL => q.decision_verdict # NULL
  /\ p.signed_by # NULL => q.signed_by # NULL
  /\ p.review_date => q.review_date
  /\ p.proposal_id # NULL => q.proposal_id # NULL
  /\ p.executed_by # NULL => q.executed_by # NULL
  /\ p.verified_by # NULL => q.verified_by # NULL

(***************************************************************************)
(* MilestonesKept is not inductive: a commit sets the status of its copy   *)
(* on the row, so that what the stages before it left must be in both.     *)
(***************************************************************************)
CopiesFit ==
  \A s \in Slots :
    LET p == req[s].seen
    IN /\ Milestones(p) /\ Signed(p)
       /\ Records(nc, p)
       /\ Len(p.history) <= MaxLog

ContourInv == TypeOK /\ Milestones(nc) /\ Signed(nc) /\ CopiesFit

-----------------------------------------------------------------------------
(***************************************************************************)
(* A commit, column by column.                                             *)
(***************************************************************************)
LEMMA Flushed ==
  ASSUME NEW cur \in Row, NEW loaded \in Row, NEW new \in Row
  PROVE  LET q == Flush(cur, loaded, new)
         IN /\ q \in Row
            /\ q.status = IF new.status = loaded.status THEN cur.status ELSE new.status
            /\ q.sla_due = IF new.sla_due = loaded.sla_due THEN cur.sla_due ELSE new.sla_due
            /\ q.decision_verdict = IF new.decision_verdict = loaded.decision_verdict
                                    THEN cur.decision_verdict ELSE new.decision_verdict
            /\ q.signed_by = IF new.signed_by = loaded.signed_by
                             THEN cur.signed_by ELSE new.signed_by
            /\ cur.review_date /\ (loaded.review_date => new.review_date) => q.review_date
            /\ new.review_date /\ (loaded.review_date => cur.review_date) => q.review_date
            /\ q.proposal_id = IF new.proposal_id = loaded.proposal_id
                               THEN cur.proposal_id ELSE new.proposal_id
            /\ q.executed_by = IF new.executed_by = loaded.executed_by
                               THEN cur.executed_by ELSE new.executed_by
            /\ q.verified_by = IF new.verified_by = loaded.verified_by
                               THEN cur.verified_by ELSE new.verified_by
            /\ q.history = IF new.history = loaded.history THEN cur.history ELSE new.history
<1> DEFINE q == Flush(cur, loaded, new)
<1>1. /\ q \in Row
      /\ q.status = IF new.status = loaded.status THEN cur.status ELSE new.status
      /\ q.sla_due = IF new.sla_due = loaded.sla_due THEN cur.sla_due ELSE new.sla_due
      /\ q.decision_verdict = IF new.decision_verdict = loaded.decision_verdict
                              THEN cur.decision_verdict ELSE new.decision_verdict
      /\ q.signed_by = IF new.signed_by = loaded.signed_by
                       THEN cur.signed_by ELSE new.signed_by
      /\ q.proposal_id = IF new.proposal_id = loaded.proposal_id
                         THEN cur.proposal_id ELSE new.proposal_id
      /\ q.executed_by = IF new.executed_by = loaded.executed_by
                         THEN cur.executed_by ELSE new.executed_by
      /\ q.verified_by = IF new.verified_by = loaded.verified_by
                         THEN cur.verified_by ELSE new.verified_by
      /\ q.history = IF new.history = loaded.history THEN cur.history ELSE new.history
  BY DEF Flush, Row
<1>2. q.review_date = IF new.review_date = loaded.review_date
                      THEN cur.review_date ELSE new.review_date
  BY DEF Flush, Row
<1>3. cur.review_date \in BOOLEAN /\ loaded.review_date \in BOOLEAN /\ new.review_date \in BOOLEAN
  BY DEF Row
<1>4. cur.review_date /\ (loaded.review_date => new.review_date) => q.review_date
  BY <1>2, <1>3
<1>5. new.review_date /\ (loaded.review_date => cur.review_date) => q.review_date
  BY <1>2, <1>3
<1> QED
  BY <1>1, <1>4, <1>5

LEMMA NewRowFits ==
  ASSUME NEW owner \in Owners, NEW level \in {"MAJOR", "CRITICAL"}, NEW blocking \in BOOLEAN
  PROVE  /\ NewRow(owner, level, blocking) \in Row
         /\ Milestones(NewRow(owner, level, blocking))
         /\ Signed(NewRow(owner, level, blocking))
         /\ \A q : Records(q, NewRow(owner, level, blocking))
         /\ NewRow(owner, level, blocking).history = <<>>
         /\ Len(NewRow(owner, level, blocking).history) = 0
BY NullAssumption DEF NewRow, Row, Statuses, Milestones, Signed, Records

(***************************************************************************)
(* Whatever copy it was made from, committing a copy that fits and empties *)
(* nothing leaves a row that fits, and fits every other copy.              *)
(***************************************************************************)
LEMMA CommitFits ==
  ASSUME NEW cur \in Row, NEW loaded \in Row, NEW new \in Row,
         Milestones(cur), Signed(cur), Milestones(new), Signed(new),
         Records(cur, loaded), Records(new, loaded)
  PROVE  LET q == Flush(cur, loaded, new)
         IN Milestones(q) /\ Signed(q) /\ Records(q, cur)
<1> DEFINE q == Flush(cur, loaded, new)
<1>1. Records(q, cur)
  BY Flushed DEF Records
<1>2. Milestones(q)
  BY Flushed DEF Milestones, Records
<1>3. Signed(q)
  BY Flushed DEF Signed, Records
<1> QED
  BY <1>1, <1>2, <1>3

LEMMA RecordsOnward ==
  ASSUME NEW p, NEW q, NEW r, Records(q, p), Records(r, q)
  PROVE  Records(r, p)
BY DEF Records

\* One more entry of the history.
LEMMA LoggedType ==
  ASSUME NEW p \in Row, Len(p.history) < MaxLog, NEW by \in Users \cup {"system"},
         NEW action \in Actions, NEW to \in Statuses
  PROVE  /\ Logged(p, by, action, to) \in Seq(Entry)
         /\ Len(Logged(p, by, action, to)) <= MaxLog
<1>1. [action |-> action, from |-> p.status, to |-> to, by |-> by] \in Entry
  BY DEF Row, Entry
<1>2. p.history \in Seq(Entry) /\ Len(p.history) \in Nat
  BY DEF Row
<1> QED
  BY <1>1, <1>2, NumbersAssumption DEF Logged

-----------------------------------------------------------------------------
(***************************************************************************)
(* The steps that commit.                                                  *)
(***************************************************************************)
LEMMA CopyFits ==
  ASSUME ContourInv, NEW s \in Slots
  PROVE  LET p == req[s].seen
         IN /\ p \in Row /\ Milestones(p) /\ Signed(p) /\ Records(nc, p)
            /\ req[s].by \in Users \cup {NULL} /\ Len(p.history) <= MaxLog
BY DEF ContourInv, TypeOK, CopiesFit, Request

LEMMA FreeFits ==
  ASSUME ContourInv, NEW s \in Slots
  PROVE  /\ Free(s) \in [Slots -> Request]
         /\ \A t \in Slots : /\ Free(s)[t].seen \in Row
                             /\ t # s => Free(s)[t] = req[t]
         /\ \A q : Records(q, Free(s)[s].seen)
         /\ Milestones(Free(s)[s].seen) /\ Signed(Free(s)[s].seen)
         /\ Len(Free(s)[s].seen.history) <= MaxLog
<1> DEFINE w == NewRow(nc.owner, nc.level, nc.is_blocking)
<1>1. nc.owner \in Owners /\ nc.level \in {"MAJOR", "CRITICAL"} /\ nc.is_blocking \in BOOLEAN
  BY DEF ContourInv, TypeOK, Row
<1>2. /\ w \in Row /\ Milestones(w) /\ Signed(w) /\ \A q : Records(q, w)
      /\ Len(w.history) <= MaxLog
  BY <1>1, NewRowFits, NumbersAssumption
<1> HIDE DEF w
<1>3. [pc |-> "idle", by |-> NULL, seen |-> w] \in Request
  BY <1>2 DEF Request
<1>4. /\ Free(s) = [req EXCEPT ![s] = [pc |-> "idle", by |-> NULL, seen |-> w]]
      /\ req \in [Slots -> Request]
  BY DEF Free, w, ContourInv, TypeOK
<1>5. /\ Free(s) \in [Slots -> Request]
      /\ \A t \in Slots \ {s} : Free(s)[t] = req[t]
      /\ Free(s)[s].seen = w
  BY <1>3, <1>4
<1> QED
  BY <1>2, <1>5 DEF Request

LEMMA CommitKeeps ==
  ASSUME ContourInv, NEW s \in Slots, NEW new \in Row, Commit(s, new),
         Milestones(new), Signed(new), Records(new, req[s].seen), Len(new.history) <= MaxLog,
         override' \subseteq Measures
  PROVE  ContourInv'
<1> DEFINE p == req[s].seen
<1>0. nc' = Flush(nc, p, new) /\ req' = Free(s) /\ now' = now
  BY DEF Commit
<1>1. /\ p \in Row /\ nc \in Row /\ Milestones(nc) /\ Signed(nc) /\ Records(nc, p)
      /\ Len(nc.history) <= MaxLog
  BY CopyFits DEF ContourInv, TypeOK
<1> HIDE DEF p
<1>2. Milestones(nc') /\ Signed(nc') /\ Records(nc', nc)
  BY <1>0, <1>1, CommitFits DEF p
<1>3. nc' \in Row /\ nc'.history \in {nc.history, new.history}
  BY <1>0, <1>1, Flushed
<1>4. TypeOK'
  BY <1>0, <1>1, <1>3, FreeFits DEF ContourInv, TypeOK
<1>5. CopiesFit'
  <2> SUFFICES ASSUME NEW t \in Slots
               PROVE  LET q == req'[t].seen
                      IN Milestones(q) /\ Signed(q) /\ Records(nc', q) /\ Len(q.history) <= MaxLog
    BY DEF CopiesFit, Milestones, Signed, Records
  <2>1. CASE t = s
    BY <1>0, <2>1, FreeFits
  <2>2. CASE t # s
    <3>1. req'[t] = req[t]
      BY <1>0, <2>2, FreeFits
    <3> QED
      BY <1>2, <3>1, CopyFits, RecordsOnward
  <2> QED
    BY <2>1, <2>2
<1> QED
  BY <1>2, <1>4, <1>5 DEF ContourInv, Milestones, Signed

\* The copy of a handler that may go on.
LEMMA HandlesFits ==
  ASSUME ContourInv, NEW s \in Slots, NEW holders \in SUBSET Users, NEW status,
         Handles(s, holders, status)
  PROVE  LET p == req[s].seen
         IN /\ p \in Row /\ Milestones(p) /\ Signed(p) /\ p.status = status
            /\ req[s].by \in holders /\ req[s].by \in Users /\ req[s].by # NULL
            /\ req[s].pc = "loaded"
            /\ Len(p.history) < MaxLog
<1>1. /\ req[s].seen \in Row /\ Milestones(req[s].seen) /\ Signed(req[s].seen)
      /\ req[s].seen.status = status /\ req[s].by \in holders /\ req[s].by \in Users
      /\ Len(req[s].seen.history) < MaxLog /\ req[s].pc = "loaded"
  BY CopyFits DEF Handles
<1>2. req[s].by # NULL
  BY <1>1, NullAssumption
<1> QED
  BY <1>1, <1>2

LEMMA EvaluateKeeps ==
  ASSUME ContourInv, NEW s \in Slots, Evaluate(s)
  PROVE  ContourInv'
<1> DEFINE p   == req[s].seen
           sla == IF p.level = "CRITICAL" THEN SlaDaysCritical ELSE SlaDays
           hist == Logged(p, req[s].by, "evaluate", "EVALUATED")
           term == now + sla
           new == [p EXCEPT !.history = hist, !.sla_due = term, !.status = "EVALUATED"]
<1>0. Handles(s, Editors, "IDENTIFIED") /\ Commit(s, new) /\ override' = override
  BY DEF Evaluate
<1>1. /\ p \in Row /\ Milestones(p) /\ Signed(p) /\ p.status = "IDENTIFIED"
      /\ hist \in Seq(Entry) /\ Len(hist) <= MaxLog
  <2>1. /\ p \in Row /\ Milestones(p) /\ Signed(p) /\ p.status = "IDENTIFIED"
        /\ Len(p.history) < MaxLog /\ req[s].by \in Users /\ req[s].by # NULL
    BY <1>0, HandlesFits, UsersAssumption
  <2> HIDE DEF p
  <2>2. hist \in Seq(Entry) /\ Len(hist) <= MaxLog
    BY <2>1, LoggedType DEF Statuses, Actions
  <2> QED
    BY <2>1, <2>2
<1>2. term \in Nat /\ term # NULL
  <2>1. now \in Nat /\ sla \in Nat
    BY NumbersAssumption DEF ContourInv, TypeOK
  <2> QED
    BY <2>1, NullAssumption
<1> HIDE DEF p, hist, term
<1>3. new \in Row /\ new.history = hist
  BY <1>1, <1>2 DEF Row, Statuses
<1>4. Milestones(new)
  BY <1>1, <1>2 DEF Row, Milestones
<1>5. Signed(new)
  BY <1>1 DEF Row, Signed
<1>6. Records(new, p)
  BY <1>1, <1>2 DEF Row, Records
<1>7. override' \subseteq Measures
  BY <1>0 DEF ContourInv, TypeOK
<1> HIDE DEF new
<1> QED
  BY <1>0, <1>1, <1>3, <1>4, <1>5, <1>6, <1>7, CommitKeeps DEF p

LEMMA DecideKeeps ==
  ASSUME ContourInv, NEW s \in Slots, NEW verdict \in VERDICTS, NEW signer \in Users \cup {NULL},
         Decide(s, verdict, signer)
  PROVE  ContourInv'
<1> DEFINE p    == req[s].seen
           hist == Logged(p, req[s].by, "decide", "DECIDED")
           q    == [p EXCEPT !.history = hist, !.decision_verdict = verdict, !.status = "DECIDED"]
           new  == IF verdict = "ACCEPT"
                   THEN [q EXCEPT !.signed_by = signer, !.review_date = TRUE] ELSE q
<1>0. /\ Handles(s, Deciders, "EVALUATED") /\ Commit(s, new) /\ override' = override
      /\ verdict = "ACCEPT" => signer # NULL
  BY DEF Decide
<1>1. /\ p \in Row /\ Milestones(p) /\ Signed(p) /\ p.status = "EVALUATED"
      /\ hist \in Seq(Entry) /\ Len(hist) <= MaxLog
  <2>1. /\ p \in Row /\ Milestones(p) /\ Signed(p) /\ p.status = "EVALUATED"
        /\ Len(p.history) < MaxLog /\ req[s].by \in Users /\ req[s].by # NULL
    BY <1>0, HandlesFits, UsersAssumption
  <2> HIDE DEF p
  <2>2. hist \in Seq(Entry) /\ Len(hist) <= MaxLog
    BY <2>1, LoggedType DEF Statuses, Actions
  <2> QED
    BY <2>1, <2>2
<1>2. verdict # NULL
  BY NullAssumption DEF VERDICTS
<1> HIDE DEF p, hist
<1>3. /\ q \in Row /\ q.history = hist /\ Milestones(q) /\ Records(q, p)
      /\ q.decision_verdict = verdict
  BY <1>1, <1>2 DEF Row, Statuses, Milestones, Records
<1>4. CASE verdict = "ACCEPT"
  <2> HIDE DEF q
  <2>1. /\ new \in Row /\ new.history = hist /\ Milestones(new) /\ Signed(new) /\ Records(new, q)
    BY <1>0, <1>3, <1>4 DEF Row, Milestones, Signed, Records
  <2>2. Records(new, p)
    BY <1>3, <2>1, RecordsOnward
  <2> HIDE DEF new
  <2> QED
    BY <1>0, <1>1, <2>1, <2>2, CommitKeeps DEF p, ContourInv, TypeOK
<1>5. CASE verdict # "ACCEPT"
  <2>1. new = q /\ Signed(q)
    BY <1>3, <1>5 DEF Signed
  <2> HIDE DEF new, q
  <2> QED
    BY <1>0, <1>1, <1>3, <2>1, CommitKeeps DEF p, ContourInv, TypeOK
<1> QED
  BY <1>4, <1>5

LEMMA AssignMeasureKeeps ==
  ASSUME ContourInv, NEW s \in Slots, NEW measure \in Measures, AssignMeasure(s, measure)
  PROVE  ContourInv'
<1> DEFINE p    == req[s].seen
           hist == Logged(p, req[s].by, "assign_measure", "MEASURE_ASSIGNED")
           new  == [p EXCEPT !.history = hist, !.proposal_id = measure,
                             !.status = "MEASURE_ASSIGNED"]
<1>0. /\ Handles(s, Editors, "DECIDED") /\ Commit(s, new)
      /\ override' = IF p.is_blocking THEN override \cup {measure} ELSE override
  BY DEF AssignMeasure
<1>1. /\ p \in Row /\ Milestones(p) /\ Signed(p) /\ p.status = "DECIDED"
      /\ hist \in Seq(Entry) /\ Len(hist) <= MaxLog
  <2>1. /\ p \in Row /\ Milestones(p) /\ Signed(p) /\ p.status = "DECIDED"
        /\ Len(p.history) < MaxLog /\ req[s].by \in Users /\ req[s].by # NULL
    BY <1>0, HandlesFits, UsersAssumption
  <2> HIDE DEF p
  <2>2. hist \in Seq(Entry) /\ Len(hist) <= MaxLog
    BY <2>1, LoggedType DEF Statuses, Actions
  <2> QED
    BY <2>1, <2>2
<1>2. measure # NULL
  BY NullAssumption
<1>3. override' \subseteq Measures
  BY <1>0 DEF ContourInv, TypeOK
<1> HIDE DEF p, hist
<1>4. /\ new \in Row /\ new.history = hist /\ Milestones(new) /\ Signed(new) /\ Records(new, p)
  BY <1>1, <1>2 DEF Row, Statuses, Milestones, Signed, Records
<1> HIDE DEF new
<1> QED
  BY <1>0, <1>1, <1>3, <1>4, CommitKeeps DEF p

LEMMA StartKeeps ==
  ASSUME ContourInv, NEW s \in Slots, Start(s)
  PROVE  ContourInv'
<1> DEFINE p    == req[s].seen
           hist == Logged(p, req[s].by, "start", "IN_PROGRESS")
           new  == [p EXCEPT !.history = hist, !.status = "IN_PROGRESS"]
<1>0. /\ Handles(s, Editors, "MEASURE_ASSIGNED") /\ Commit(s, new) /\ override' = override
  BY DEF Start
<1>1. /\ p \in Row /\ Milestones(p) /\ Signed(p) /\ p.status = "MEASURE_ASSIGNED"
      /\ hist \in Seq(Entry) /\ Len(hist) <= MaxLog
  <2>1. /\ p \in Row /\ Milestones(p) /\ Signed(p) /\ p.status = "MEASURE_ASSIGNED"
        /\ Len(p.history) < MaxLog /\ req[s].by \in Users /\ req[s].by # NULL
    BY <1>0, HandlesFits, UsersAssumption
  <2> HIDE DEF p
  <2>2. hist \in Seq(Entry) /\ Len(hist) <= MaxLog
    BY <2>1, LoggedType DEF Statuses, Actions
  <2> QED
    BY <2>1, <2>2
<1> HIDE DEF p, hist
<1>2. /\ new \in Row /\ new.history = hist /\ Milestones(new) /\ Signed(new) /\ Records(new, p)
  BY <1>1 DEF Row, Statuses, Milestones, Signed, Records
<1> HIDE DEF new
<1> QED
  BY <1>0, <1>1, <1>2, CommitKeeps DEF p, ContourInv, TypeOK

LEMMA ExecuteKeeps ==
  ASSUME ContourInv, NEW s \in Slots, Execute(s)
  PROVE  ContourInv'
<1> DEFINE p    == req[s].seen
           by   == req[s].by
           hist == Logged(p, req[s].by, "execute", "EXECUTED")
           new  == [p EXCEPT !.history = hist, !.executed_by = by, !.status = "EXECUTED"]
<1>0. /\ Handles(s, Editors, "IN_PROGRESS") /\ Commit(s, new) /\ override' = override
  BY DEF Execute
<1>1. /\ p \in Row /\ Milestones(p) /\ Signed(p) /\ p.status = "IN_PROGRESS"
      /\ hist \in Seq(Entry) /\ Len(hist) <= MaxLog /\ by \in Users /\ by # NULL
  <2>1. /\ p \in Row /\ Milestones(p) /\ Signed(p) /\ p.status = "IN_PROGRESS"
        /\ Len(p.history) < MaxLog /\ req[s].by \in Users /\ req[s].by # NULL
    BY <1>0, HandlesFits, UsersAssumption
  <2> HIDE DEF p
  <2>2. hist \in Seq(Entry) /\ Len(hist) <= MaxLog
    BY <2>1, LoggedType DEF Statuses, Actions
  <2> QED
    BY <2>1, <2>2
<1> HIDE DEF p, hist, by
<1>2. /\ new \in Row /\ new.history = hist /\ Milestones(new) /\ Signed(new) /\ Records(new, p)
  BY <1>1 DEF Row, Statuses, Milestones, Signed, Records
<1> HIDE DEF new
<1> QED
  BY <1>0, <1>1, <1>2, CommitKeeps DEF p, ContourInv, TypeOK

LEMMA VerifyKeeps ==
  ASSUME ContourInv, NEW s \in Slots, Verify(s)
  PROVE  ContourInv'
<1> DEFINE p    == req[s].seen
           by   == req[s].by
           hist == Logged(p, req[s].by, "verify", "VERIFIED")
           new  == [p EXCEPT !.history = hist, !.verified_by = by, !.status = "VERIFIED"]
<1>0. /\ Handles(s, Verifiers, "EXECUTED") /\ Commit(s, new) /\ override' = override
  BY DEF Verify
<1>1. /\ p \in Row /\ Milestones(p) /\ Signed(p) /\ p.status = "EXECUTED"
      /\ hist \in Seq(Entry) /\ Len(hist) <= MaxLog /\ by \in Users /\ by # NULL
  <2>1. /\ p \in Row /\ Milestones(p) /\ Signed(p) /\ p.status = "EXECUTED"
        /\ Len(p.history) < MaxLog /\ req[s].by \in Users /\ req[s].by # NULL
    BY <1>0, HandlesFits, UsersAssumption
  <2> HIDE DEF p
  <2>2. hist \in Seq(Entry) /\ Len(hist) <= MaxLog
    BY <2>1, LoggedType DEF Statuses, Actions
  <2> QED
    BY <2>1, <2>2
<1> HIDE DEF p, hist, by
<1>2. /\ new \in Row /\ new.history = hist /\ Milestones(new) /\ Signed(new) /\ Records(new, p)
  BY <1>1 DEF Row, Statuses, Milestones, Signed, Records
<1> HIDE DEF new
<1> QED
  BY <1>0, <1>1, <1>2, CommitKeeps DEF p, ContourInv, TypeOK

LEMMA TaskEscalateKeeps ==
  ASSUME ContourInv, TaskEscalate
  PROVE  ContourInv'
<1> DEFINE p    == req[Task].seen
           hist == Logged(p, "system", "auto_escalate_sla", p.status)
           new  == [p EXCEPT !.history = hist, !.sla_escalated = TRUE]
<1>0. Task \in Slots /\ Commit(Task, new) /\ override' = override /\ Len(p.history) < MaxLog
  BY DEF TaskEscalate, Slots
<1>1. p \in Row /\ Milestones(p) /\ Signed(p) /\ p.status \in Statuses
  BY <1>0, CopyFits DEF Row
<1>2. hist \in Seq(Entry) /\ Len(hist) <= MaxLog
  <2> HIDE DEF p
  <2> QED
    BY <1>0, <1>1, LoggedType DEF Actions
<1> HIDE DEF p, hist
<1>3. new \in Row /\ new.history = hist
  BY <1>1, <1>2 DEF Row
<1>4. Milestones(new) /\ Signed(new) /\ Records(new, p)
  BY <1>1 DEF Row, Milestones, Signed, Records
<1> HIDE DEF new
<1> QED
  BY <1>0, <1>2, <1>4, <1>3, CommitKeeps DEF p, ContourInv, TypeOK

-----------------------------------------------------------------------------
(***************************************************************************)
(* The steps that do not.                                                  *)
(***************************************************************************)
LEMMA ReadKeeps ==
  ASSUME ContourInv, NEW s \in Slots, NEW by \in Users \cup {NULL},
         req' = [req EXCEPT ![s] = [pc |-> "loaded", by |-> by, seen |-> nc]],
         UNCHANGED <<nc, override, now>>
  PROVE  ContourInv'
<1> DEFINE r == [pc |-> "loaded", by |-> by, seen |-> nc]
<1>1. /\ nc \in Row /\ Milestones(nc) /\ Signed(nc) /\ Len(nc.history) <= MaxLog
      /\ req \in [Slots -> Request]
  BY DEF ContourInv, TypeOK
<1>2. r \in Request /\ r.seen = nc
  BY <1>1 DEF Request
<1> HIDE DEF r
<1>3. /\ req' \in [Slots -> Request]
      /\ \A t \in Slots : req'[t] = IF t = s THEN r ELSE req[t]
  BY <1>1, <1>2 DEF r
<1>4. TypeOK'
  BY <1>3 DEF ContourInv, TypeOK
<1>5. Records(nc, nc)
  BY DEF Records
<1>6. CopiesFit'
  <2> SUFFICES ASSUME NEW t \in Slots
               PROVE  LET q == req'[t].seen
                      IN Milestones(q) /\ Signed(q) /\ Records(nc, q) /\ Len(q.history) <= MaxLog
    BY DEF CopiesFit, Milestones, Signed, Records
  <2>1. CASE t = s
    BY <1>1, <1>2, <1>3, <1>5, <2>1
  <2>2. CASE t # s
    BY <1>3, <2>2, CopyFits
  <2> QED
    BY <2>1, <2>2
<1> QED
  BY <1>4, <1>6 DEF ContourInv, Milestones, Signed

LEMMA AbandonKeeps ==
  ASSUME ContourInv, NEW s \in Slots, Abandon(s)
  PROVE  ContourInv'
<1>1. req' = Free(s) /\ UNCHANGED <<nc, override, now>>
  BY DEF Abandon
<1>2. TypeOK'
  BY <1>1, FreeFits DEF ContourInv, TypeOK
<1>3. CopiesFit'
  <2> SUFFICES ASSUME NEW t \in Slots
               PROVE  LET q == req'[t].seen
                      IN Milestones(q) /\ Signed(q) /\ Records(nc, q) /\ Len(q.history) <= MaxLog
    BY <1>1 DEF CopiesFit, Milestones, Signed, Records
  <2>1. CASE t = s
    BY <1>1, <2>1, FreeFits
  <2>2. CASE t # s
    BY <1>1, <2>2, FreeFits, CopyFits
  <2> QED
    BY <2>1, <2>2
<1> QED
  BY <1>1, <1>2, <1>3 DEF ContourInv, Milestones, Signed

LEMMA InitFits == Init => ContourInv
<1> SUFFICES ASSUME Init PROVE ContourInv
  OBVIOUS
<1>1. PICK owner \in Owners, level \in {"MAJOR", "CRITICAL"}, blocking \in BOOLEAN :
        nc = NewRow(owner, level, blocking)
  BY DEF Init
<1>2. /\ nc \in Row /\ Milestones(nc) /\ Signed(nc) /\ Records(nc, nc)
      /\ Len(nc.history) = 0
  BY <1>1, NewRowFits
<1>3. [pc |-> "idle", by |-> NULL, seen |-> nc] \in Request
  BY <1>2 DEF Request
<1>4. /\ req = [s \in Slots |-> [pc |-> "idle", by |-> NULL, seen |-> nc]]
      /\ override = {} /\ now = 0
  BY DEF Init
<1>5. TypeOK
  BY <1>2, <1>3, <1>4, NumbersAssumption DEF TypeOK
<1>6. \A s \in Slots : req[s].seen = nc
  BY <1>4
<1>7. CopiesFit
  BY <1>2, <1>6, NumbersAssumption DEF CopiesFit
<1> QED
  BY <1>2, <1>5, <1>7 DEF ContourInv

LEMMA NextKeeps == ContourInv /\ [Next]_vars => ContourInv'
<1> SUFFICES ASSUME ContourInv, [Next]_vars PROVE ContourInv'
  OBVIOUS
<1>1. ASSUME NEW s \in Slots, Handler(s) PROVE ContourInv'
  <2>1. ASSUME NEW u \in Users, Load(s, u) PROVE ContourInv'
    BY <2>1, ReadKeeps DEF Load
  <2>2. CASE Abandon(s)
    BY <2>2, AbandonKeeps
  <2>3. CASE Evaluate(s)
    BY <2>3, EvaluateKeeps
  <2>4. ASSUME NEW verdict \in VERDICTS, NEW signer \in Users \cup {NULL},
               Decide(s, verdict, signer)
        PROVE ContourInv'
    BY <2>4, DecideKeeps
  <2>5. ASSUME NEW measure \in Measures, AssignMeasure(s, measure) PROVE ContourInv'
    BY <2>5, AssignMeasureKeeps
  <2>6. CASE Start(s)
    BY <2>6, StartKeeps
  <2>7. CASE Execute(s)
    BY <2>7, ExecuteKeeps
  <2>8. CASE Verify(s)
    BY <2>8, VerifyKeeps
  <2> QED
    BY <1>1, <2>1, <2>2, <2>3, <2>4, <2>5, <2>6, <2>7, <2>8 DEF Handler
<1>2. CASE TaskLoad
  BY <1>2, ReadKeeps DEF TaskLoad, Slots
<1>3. CASE TaskEscalate
  BY <1>3, TaskEscalateKeeps
<1>4. CASE Tick
  <2>1. now' \in 0 .. MaxDay
    BY <1>4, NumbersAssumption DEF Tick, ContourInv, TypeOK
  <2> QED
    BY <1>4, <2>1 DEF Tick, ContourInv, TypeOK, CopiesFit, Milestones, Signed, Records
<1>5. CASE UNCHANGED vars
  BY <1>5 DEF vars, ContourInv, TypeOK, CopiesFit, Milestones, Signed, Records
<1> QED
  BY <1>1, <1>2, <1>3, <1>4, <1>5 DEF Next

LEMMA ContourAlways == Spec => []ContourInv
<1> QED
  BY InitFits, NextKeeps, PTL DEF Spec

-----------------------------------------------------------------------------
(***************************************************************************)
(* Every reachable state has the types the columns have, and the history   *)
(* stays within its bound (NonconformityORM).                              *)
(***************************************************************************)
THEOREM ContourTypeCorrect == Spec => []TypeOK
<1>1. ContourInv => TypeOK
  BY DEF ContourInv
<1> QED
  BY <1>1, ContourAlways, PTL

(***************************************************************************)
(* However many handlers and nightly runs overlap, and however old the     *)
(* copies they commit, a stage keeps what the stages before it left.       *)
(***************************************************************************)
THEOREM MilestonesKeptAlways == Spec => []MilestonesKept
<1>1. ContourInv => MilestonesKept
  BY DEF ContourInv, Milestones, MilestonesKept
<1> QED
  BY <1>1, ContourAlways, PTL

(***************************************************************************)
(* An acceptance of the risk is never without its signature and the date   *)
(* of its review, also where two verdicts overlap (decide).                *)
(***************************************************************************)
THEOREM AcceptanceSignedAlways == Spec => []AcceptanceSigned
<1>1. ContourInv => AcceptanceSigned
  BY DEF ContourInv, Signed, AcceptanceSigned
<1> QED
  BY <1>1, ContourAlways, PTL

-----------------------------------------------------------------------------
(***************************************************************************)
(* One slot: everything runs one after another, and what a handler has     *)
(* read is still the row when it commits.                                  *)
(***************************************************************************)
Serial == req[Task].pc = "loaded" => req[Task].seen = nc

LEMMA FlushOfTheRow ==
  ASSUME NEW cur \in Row, NEW new \in Row
  PROVE  Flush(cur, cur, new) = new
BY DEF Flush, Row

\* A commit of the only slot writes its copy as it is.
LEMMA SerialCommit ==
  ASSUME ContourInv, Serial, NEW s \in Slots, s = Task, req[s].pc = "loaded",
         NEW new \in Row, Commit(s, new)
  PROVE  nc' = new /\ Serial'
<1>1. req[s].seen = nc /\ nc \in Row /\ req \in [Slots -> Request]
  BY DEF Serial, ContourInv, TypeOK
<1>2. nc' = new
  BY <1>1, FlushOfTheRow DEF Commit
<1>3. req' = [req EXCEPT ![s] = [pc |-> "idle", by |-> NULL,
                                 seen |-> NewRow(nc.owner, nc.level, nc.is_blocking)]]
  BY DEF Commit, Free
<1>4. req'[s].pc = "idle"
  BY <1>1, <1>3
<1> QED
  BY <1>2, <1>4 DEF Serial

\* What a handler reads, and the row it will commit on, are one.
LEMMA SerialHandles ==
  ASSUME ContourInv, Serial, NEW s \in Slots, s = Task, NEW holders \in SUBSET Users,
         NEW status, Handles(s, holders, status)
  PROVE  /\ req[s].seen = nc /\ nc \in Row /\ nc.status = status
         /\ req[s].pc = "loaded" /\ req[s].by \in holders
         /\ Len(nc.history) < MaxLog
BY HandlesFits DEF Serial

LEMMA SerialEvaluate ==
  ASSUME ContourInv, Serial, NEW s \in Slots, s = Task, Evaluate(s)
  PROVE  Contour!Evaluate /\ Serial'
<1> DEFINE p   == req[s].seen
           sla == IF p.level = "CRITICAL" THEN SlaDaysCritical ELSE SlaDays
           hist == Logged(p, req[s].by, "evaluate", "EVALUATED")
           term == now + sla
           new == [p EXCEPT !.history = hist, !.sla_due = term, !.status = "EVALUATED"]
<1>0. Handles(s, Editors, "IDENTIFIED") /\ Commit(s, new)
  BY DEF Evaluate
<1>1. /\ p = nc /\ nc \in Row /\ nc.status = "IDENTIFIED" /\ req[s].pc = "loaded"
      /\ req[s].by \in Users /\ Len(nc.history) < MaxLog
  BY <1>0, SerialHandles, UsersAssumption
<1>2. hist \in Seq(Entry)
  <2> HIDE DEF p
  <2> QED
    BY <1>1, LoggedType DEF Statuses, Actions
<1>3. term \in Nat
  BY NumbersAssumption DEF ContourInv, TypeOK
<1> HIDE DEF p, hist, term
<1>4. /\ new \in Row
      /\ new.status = "EVALUATED" /\ new.owner = p.owner
      /\ new.decision_verdict = p.decision_verdict
      /\ new.executed_by = p.executed_by /\ new.verified_by = p.verified_by
  BY <1>1, <1>2, <1>3 DEF Row, Statuses
<1> HIDE DEF new
<1>5. nc' = new /\ Serial'
  BY <1>0, <1>1, <1>4, SerialCommit
<1> QED
  BY <1>1, <1>4, <1>5 DEF Contour!Evaluate, Contour!Pass

LEMMA SerialDecide ==
  ASSUME ContourInv, Serial, NEW s \in Slots, s = Task,
         NEW verdict \in VERDICTS, NEW signer \in Users \cup {NULL}, Decide(s, verdict, signer)
  PROVE  Contour!Decide /\ Serial'
<1> DEFINE p    == req[s].seen
           hist == Logged(p, req[s].by, "decide", "DECIDED")
           q    == [p EXCEPT !.history = hist, !.decision_verdict = verdict, !.status = "DECIDED"]
           new  == IF verdict = "ACCEPT"
                   THEN [q EXCEPT !.signed_by = signer, !.review_date = TRUE] ELSE q
<1>0. Handles(s, Deciders, "EVALUATED") /\ Commit(s, new)
  BY DEF Decide
<1>1. /\ p = nc /\ nc \in Row /\ nc.status = "EVALUATED" /\ req[s].pc = "loaded"
      /\ req[s].by \in Users /\ Len(nc.history) < MaxLog
  BY <1>0, SerialHandles, UsersAssumption
<1>2. hist \in Seq(Entry)
  <2> HIDE DEF p
  <2> QED
    BY <1>1, LoggedType DEF Statuses, Actions
<1> HIDE DEF p, hist
<1>3. /\ q \in Row
      /\ q.status = "DECIDED" /\ q.owner = p.owner /\ q.decision_verdict = verdict
      /\ q.executed_by = p.executed_by /\ q.verified_by = p.verified_by
  BY <1>1, <1>2 DEF Row, Statuses
<1> HIDE DEF q
<1>4. /\ new \in Row
      /\ new.status = q.status /\ new.owner = q.owner
      /\ new.decision_verdict = q.decision_verdict
      /\ new.executed_by = q.executed_by /\ new.verified_by = q.verified_by
  BY <1>3 DEF Row
<1> HIDE DEF new
<1>5. nc' = new /\ Serial'
  BY <1>0, <1>1, <1>4, SerialCommit
<1>6. verdict \in Contour!VERDICTS
  BY DEF VERDICTS, Contour!VERDICTS
<1> QED
  BY <1>1, <1>3, <1>4, <1>5, <1>6 DEF Contour!Decide, Contour!Pass

LEMMA SerialAssign ==
  ASSUME ContourInv, Serial, NEW s \in Slots, s = Task, NEW measure \in Measures,
         AssignMeasure(s, measure)
  PROVE  Contour!Assign /\ Serial'
<1> DEFINE p    == req[s].seen
           hist == Logged(p, req[s].by, "assign_measure", "MEASURE_ASSIGNED")
           new  == [p EXCEPT !.history = hist, !.proposal_id = measure,
                             !.status = "MEASURE_ASSIGNED"]
<1>0. /\ Handles(s, Editors, "DECIDED") /\ Commit(s, new)
      /\ p.decision_verdict \in {"ELIMINATE", "COMPENSATE"}
  BY DEF AssignMeasure
<1>1. /\ p = nc /\ nc \in Row /\ nc.status = "DECIDED" /\ req[s].pc = "loaded"
      /\ req[s].by \in Users /\ Len(nc.history) < MaxLog
  BY <1>0, SerialHandles, UsersAssumption
<1>2. hist \in Seq(Entry)
  <2> HIDE DEF p
  <2> QED
    BY <1>1, LoggedType DEF Statuses, Actions
<1>3. p.decision_verdict # "ACCEPT"
  BY <1>0
<1> HIDE DEF p, hist
<1>4. /\ new \in Row
      /\ new.status = "MEASURE_ASSIGNED" /\ new.owner = p.owner
      /\ new.decision_verdict = p.decision_verdict
      /\ new.executed_by = p.executed_by /\ new.verified_by = p.verified_by
  BY <1>1, <1>2 DEF Row, Statuses
<1> HIDE DEF new
<1>5. nc' = new /\ Serial'
  BY <1>0, <1>1, <1>4, SerialCommit
<1> QED
  BY <1>1, <1>3, <1>4, <1>5 DEF Contour!Assign, Contour!Pass

LEMMA SerialStart ==
  ASSUME ContourInv, Serial, NEW s \in Slots, s = Task, Start(s)
  PROVE  Contour!Start /\ Serial'
<1> DEFINE p    == req[s].seen
           hist == Logged(p, req[s].by, "start", "IN_PROGRESS")
           new  == [p EXCEPT !.history = hist, !.status = "IN_PROGRESS"]
<1>0. Handles(s, Editors, "MEASURE_ASSIGNED") /\ Commit(s, new)
  BY DEF Start
<1>1. /\ p = nc /\ nc \in Row /\ nc.status = "MEASURE_ASSIGNED" /\ req[s].pc = "loaded"
      /\ req[s].by \in Users /\ Len(nc.history) < MaxLog
  BY <1>0, SerialHandles, UsersAssumption
<1>2. hist \in Seq(Entry)
  <2> HIDE DEF p
  <2> QED
    BY <1>1, LoggedType DEF Statuses, Actions
<1> HIDE DEF p, hist
<1>3. /\ new \in Row
      /\ new.status = "IN_PROGRESS" /\ new.owner = p.owner
      /\ new.decision_verdict = p.decision_verdict
      /\ new.executed_by = p.executed_by /\ new.verified_by = p.verified_by
  BY <1>1, <1>2 DEF Row, Statuses
<1> HIDE DEF new
<1>4. nc' = new /\ Serial'
  BY <1>0, <1>1, <1>3, SerialCommit
<1> QED
  BY <1>1, <1>3, <1>4 DEF Contour!Start, Contour!Pass

LEMMA SerialExecute ==
  ASSUME ContourInv, Serial, NEW s \in Slots, s = Task, Execute(s)
  PROVE  Contour!Execute /\ Serial'
<1> DEFINE p    == req[s].seen
           by   == req[s].by
           hist == Logged(p, req[s].by, "execute", "EXECUTED")
           new  == [p EXCEPT !.history = hist, !.executed_by = by, !.status = "EXECUTED"]
<1>0. Handles(s, Editors, "IN_PROGRESS") /\ Commit(s, new)
  BY DEF Execute
<1>1. /\ p = nc /\ nc \in Row /\ nc.status = "IN_PROGRESS" /\ req[s].pc = "loaded"
      /\ by \in Users /\ Len(nc.history) < MaxLog
  BY <1>0, SerialHandles, UsersAssumption
<1>2. hist \in Seq(Entry)
  <2> HIDE DEF p
  <2> QED
    BY <1>1, LoggedType DEF Statuses, Actions
<1> HIDE DEF p, hist, by
<1>3. /\ new \in Row
      /\ new.status = "EXECUTED" /\ new.owner = p.owner
      /\ new.decision_verdict = p.decision_verdict
      /\ new.executed_by = by /\ new.verified_by = p.verified_by
  BY <1>1, <1>2 DEF Row, Statuses
<1> HIDE DEF new
<1>4. nc' = new /\ Serial'
  BY <1>0, <1>1, <1>3, SerialCommit
<1> QED
  BY <1>1, <1>3, <1>4 DEF Contour!Execute, Contour!Pass

LEMMA SerialVerify ==
  ASSUME ContourInv, Serial, NEW s \in Slots, s = Task, Verify(s)
  PROVE  Contour!Verify /\ Serial'
<1> DEFINE p    == req[s].seen
           by   == req[s].by
           hist == Logged(p, req[s].by, "verify", "VERIFIED")
           new  == [p EXCEPT !.history = hist, !.verified_by = by, !.status = "VERIFIED"]
<1>0. /\ Handles(s, Verifiers, "EXECUTED") /\ Commit(s, new)
      /\ by \notin {p.owner, p.executed_by}
  BY DEF Verify
<1>1. /\ p = nc /\ nc \in Row /\ nc.status = "EXECUTED" /\ req[s].pc = "loaded"
      /\ by \in Users /\ Len(nc.history) < MaxLog
  BY <1>0, SerialHandles, UsersAssumption
<1>2. hist \in Seq(Entry)
  <2> HIDE DEF p
  <2> QED
    BY <1>1, LoggedType DEF Statuses, Actions
<1> HIDE DEF p, hist, by
<1>3. /\ new \in Row
      /\ new.status = "VERIFIED" /\ new.owner = p.owner
      /\ new.decision_verdict = p.decision_verdict
      /\ new.executed_by = p.executed_by /\ new.verified_by = by
  BY <1>1, <1>2 DEF Row, Statuses
<1> HIDE DEF new
<1>4. nc' = new /\ Serial'
  BY <1>0, <1>1, <1>3, SerialCommit
<1> QED
  BY <1>0, <1>1, <1>3, <1>4 DEF Contour!Verify, Contour!Pass

\* The escalation is no step of the contour.
LEMMA SerialTaskEscalate ==
  ASSUME ContourInv, Serial, TaskEscalate
  PROVE  UNCHANGED Contour!vars /\ Serial'
<1> DEFINE p    == req[Task].seen
           hist == Logged(p, "system", "auto_escalate_sla", p.status)
           new  == [p EXCEPT !.history = hist, !.sla_escalated = TRUE]
<1>0. /\ Task \in Slots /\ req[Task].pc = "loaded" /\ Commit(Task, new)
      /\ Len(p.history) < MaxLog
  BY DEF TaskEscalate, Slots
<1>1. p = nc /\ nc \in Row /\ p.status \in Statuses
  BY <1>0 DEF Serial, ContourInv, TypeOK, Row
<1>2. hist \in Seq(Entry)
  <2> HIDE DEF p
  <2> QED
    BY <1>0, <1>1, LoggedType DEF Actions
<1> HIDE DEF p, hist
<1>3. /\ new \in Row
      /\ new.status = p.status /\ new.owner = p.owner
      /\ new.decision_verdict = p.decision_verdict
      /\ new.executed_by = p.executed_by /\ new.verified_by = p.verified_by
  BY <1>1, <1>2 DEF Row
<1> HIDE DEF new
<1>4. nc' = new /\ Serial'
  BY <1>0, <1>1, <1>3, SerialCommit
<1> QED
  BY <1>1, <1>3, <1>4 DEF Contour!vars

\* Reading and giving up leave the row alone.
LEMMA SerialQuiet ==
  ASSUME ContourInv, Serial, NEW s \in Slots, s = Task, nc' = nc,
         \/ \E by : req' = [req EXCEPT ![s] = [pc |-> "loaded", by |-> by, seen |-> nc]]
         \/ req' = Free(s)
  PROVE  UNCHANGED Contour!vars /\ Serial'
<1>1. req \in [Slots -> Request]
  BY DEF ContourInv, TypeOK
<1>2. ASSUME NEW by, req' = [req EXCEPT ![s] = [pc |-> "loaded", by |-> by, seen |-> nc]]
      PROVE  Serial'
  BY <1>1, <1>2 DEF Serial
<1>3. ASSUME req' = Free(s) PROVE Serial'
  <2>1. req'[s].pc = "idle"
    BY <1>1, <1>3 DEF Free
  <2> QED
    BY <2>1 DEF Serial
<1> QED
  BY <1>2, <1>3 DEF Contour!vars

(***************************************************************************)
(* When handlers and the nightly task run one after another, they          *)
(* implement the contour that models.py and the head of service.py         *)
(* promise: every commit is a step of Closure, in its order, and every     *)
(* other step leaves the contour where it is.  MilestonesKeptAlways is what*)
(* is left of it when they overlap.                                        *)
(***************************************************************************)
THEOREM ContourSerially ==
  ASSUME Requests \subseteq {Task}
  PROVE  Spec => ContourHonoured
<1>1. Init => Contour!Init /\ Serial
  <2> SUFFICES ASSUME Init PROVE Contour!Init /\ Serial
    OBVIOUS
  <2>1. PICK owner \in Owners, level \in {"MAJOR", "CRITICAL"}, blocking \in BOOLEAN :
          nc = NewRow(owner, level, blocking)
    BY DEF Init
  <2>2. req = [s \in Slots |-> [pc |-> "idle", by |-> NULL, seen |-> nc]] /\ Task \in Slots
    BY DEF Init, Slots
  <2> QED
    BY <2>1, <2>2 DEF Contour!Init, NewRow, Serial
<1>2. ContourInv /\ Serial /\ [Next]_vars => [Contour!Next]_(Contour!vars) /\ Serial'
  <2> SUFFICES ASSUME ContourInv, Serial, [Next]_vars
               PROVE  (Contour!Next \/ UNCHANGED Contour!vars) /\ Serial'
    OBVIOUS
  <2>1. ASSUME NEW s \in Slots, Handler(s)
        PROVE  (Contour!Next \/ UNCHANGED Contour!vars) /\ Serial'
    <3>0. s = Task
      BY DEF Slots
    <3>1. ASSUME NEW u \in Users, Load(s, u) PROVE UNCHANGED Contour!vars /\ Serial'
      BY <3>0, <3>1, SerialQuiet DEF Load
    <3>2. ASSUME Abandon(s) PROVE UNCHANGED Contour!vars /\ Serial'
      BY <3>0, <3>2, SerialQuiet DEF Abandon
    <3>3. ASSUME Evaluate(s) PROVE Contour!Next /\ Serial'
      BY <3>0, <3>3, SerialEvaluate DEF Contour!Next
    <3>4. ASSUME NEW verdict \in VERDICTS, NEW signer \in Users \cup {NULL},
                 Decide(s, verdict, signer)
          PROVE  Contour!Next /\ Serial'
      BY <3>0, <3>4, SerialDecide DEF Contour!Next
    <3>5. ASSUME NEW measure \in Measures, AssignMeasure(s, measure)
          PROVE  Contour!Next /\ Serial'
      BY <3>0, <3>5, SerialAssign DEF Contour!Next
    <3>6. ASSUME Start(s) PROVE Contour!Next /\ Serial'
      BY <3>0, <3>6, SerialStart DEF Contour!Next
    <3>7. ASSUME Execute(s) PROVE Contour!Next /\ Serial'
      BY <3>0, <3>7, SerialExecute DEF Contour!Next
    <3>8. ASSUME Verify(s) PROVE Contour!Next /\ Serial'
      BY <3>0, <3>8, SerialVerify DEF Contour!Next
    <3> QED
      BY <2>1, <3>1, <3>2, <3>3, <3>4, <3>5, <3>6, <3>7, <3>8 DEF Handler
  <2>2. ASSUME TaskLoad PROVE UNCHANGED Contour!vars /\ Serial'
    BY <2>2, SerialQuiet DEF TaskLoad, Slots
  <2>3. ASSUME TaskEscalate PROVE UNCHANGED Contour!vars /\ Serial'
    BY <2>3, SerialTaskEscalate
  <2>4. ASSUME Tick PROVE UNCHANGED Contour!vars /\ Serial'
    BY <2>4 DEF Tick, Contour!vars, Serial
  <2>5. ASSUME UNCHANGED vars PROVE UNCHANGED Contour!vars /\ Serial'
    BY <2>5 DEF vars, Contour!vars, Serial
  <2> QED
    BY <2>1, <2>2, <2>3, <2>4, <2>5 DEF Next
<1> QED
  BY <1>1, <1>2, ContourAlways, PTL DEF Spec, ContourHonoured, Contour!Spec

-----------------------------------------------------------------------------
(***************************************************************************)
(* Inaction: the price of overdue measures, for every number of cards and  *)
(* buttons.  The columns of a row, and of every copy the task or a button  *)
(* has taken of it.                                                        *)
(***************************************************************************)
CardRow ==
  [approved : BOOLEAN, done : BOOLEAN, due : Nights \cup {NONE},
   snapshot : Prices \cup {NONE}, snapshot_at : Nights \cup {NONE},
   current : Prices \cup {NONE}, current_at : Nights \cup {NONE}]

\* Snapshot, its day and the current price come together.
Together(row) ==
  /\ row.snapshot = NONE <=> row.snapshot_at = NONE
  /\ row.snapshot = NONE <=> row.current = NONE

Jobs == Buttons \cup {Pricer}

Job ==
  [copies : UNION {[S -> CardRow] : S \in SUBSET Cards}, left : SUBSET Cards,
   at : (Cards \X Nights) \cup {NONE}, price : Prices, found : BOOLEAN \cup {NONE}]

\* A copy may lack a price its row has by now, and never the other way round.
JobFits(p, rows) ==
  /\ p \in Job /\ p.left \subseteq DOMAIN p.copies
  /\ \A c \in DOMAIN p.copies :
       Together(p.copies[c]) /\ (p.copies[c].snapshot # NONE => rows[c].snapshot # NONE)

JobsFit(jobs, rows) ==
  /\ jobs = [j \in Jobs |-> jobs[j]]
  /\ \A j \in Jobs : jobs[j] # NONE => JobFits(jobs[j], rows)

RowsFit(rows) == rows \in [Cards -> CardRow] /\ \A c \in Cards : Together(rows[c])

InactionInv ==
  /\ RowsFit(card) /\ JobsFit(pricing, card)
  /\ loss \in [Cards -> Losses] /\ hurt \in [Cards -> SUBSET Nights] /\ namesakes \subseteq Cards
  /\ point \in [Cards \X Nights -> Prices \cup {NONE}]
  /\ today \in Nights /\ turns \in 0 .. MaxTurns

LEMMA PriceType ==
  ASSUME InactionInv, NEW c \in Cards, NEW copy
  PROVE  Price(c, copy) \in Prices /\ Price(c, copy) # NONE
<1> DEFINE since == IF copy.snapshot_at # NONE THEN copy.snapshot_at ELSE copy.due
           felt == {d \in hurt[c] : d >= since}
<1>1. CASE c \in Compensating
  <2>1. felt \subseteq Nights
    BY DEF InactionInv
  <2>2. IsFiniteSet(Nights) /\ Cardinality(Nights) = MaxNight + 1
    BY CardsAssumption, FS_Interval DEF Nights
  <2>3. Cardinality(felt) \in Nat /\ Cardinality(felt) <= MaxNight + 1
    BY <2>1, <2>2, FS_Subset, FS_CardinalityType
  <2>4. Price(c, copy) = Cardinality(felt)
    BY <1>1 DEF Price
  <2> QED
    BY <2>3, <2>4, CardsAssumption DEF Prices
<1>2. CASE c \notin Compensating
  BY <1>2, CardsAssumption DEF Price, Prices, InactionInv
<1> QED
  BY <1>1, <1>2

\* What pricing does to the row, whatever copy it was made from.
LEMMA PricedRow ==
  ASSUME NEW row \in CardRow, NEW copy \in CardRow, Together(row), Together(copy),
         copy.snapshot # NONE => row.snapshot # NONE,
         InactionInv, NEW c \in Cards
  PROVE  LET new == Flush(row, copy, Priced(c, copy))
         IN new \in CardRow /\ Together(new) /\ new.snapshot # NONE
<1> DEFINE price == Price(c, copy)
           with == Priced(c, copy)
           new == Flush(row, copy, with)
<1>1. price \in Prices /\ price # NONE /\ today \in Nights /\ today # NONE
  <2>1. today \in Nights /\ today # NONE
    BY CardsAssumption DEF InactionInv, Nights
  <2> QED
    BY <2>1, PriceType
<1>2. /\ with.approved = copy.approved /\ with.done = copy.done /\ with.due = copy.due
      /\ with.snapshot = IF copy.snapshot = NONE THEN price ELSE copy.snapshot
      /\ with.snapshot_at = IF copy.snapshot = NONE THEN today ELSE copy.snapshot_at
      /\ with.current = price /\ with.current_at = today
  BY DEF Priced, CardRow
<1> HIDE DEF price, with
<1>3. /\ new.approved = row.approved /\ new.done = row.done /\ new.due = row.due
      /\ new.snapshot = IF with.snapshot = copy.snapshot THEN row.snapshot ELSE with.snapshot
      /\ new.snapshot_at = IF with.snapshot_at = copy.snapshot_at THEN row.snapshot_at ELSE with.snapshot_at
      /\ new.current = IF with.current = copy.current THEN row.current ELSE with.current
      /\ new.current_at = IF with.current_at = copy.current_at THEN row.current_at ELSE with.current_at
  BY <1>2 DEF Flush, CardRow
<1>4. new = [approved |-> new.approved, done |-> new.done, due |-> new.due,
             snapshot |-> new.snapshot, snapshot_at |-> new.snapshot_at,
             current |-> new.current, current_at |-> new.current_at]
  BY DEF Flush, CardRow
<1> HIDE DEF new
<1>5. new \in CardRow
  <2>1. /\ new.snapshot \in Prices \cup {NONE} /\ new.snapshot_at \in Nights \cup {NONE}
        /\ new.current \in Prices \cup {NONE} /\ new.current_at \in Nights \cup {NONE}
    BY <1>1, <1>2, <1>3 DEF CardRow
  <2> QED
    BY <1>3, <1>4, <2>1 DEF CardRow
<1>6. Together(new) /\ new.snapshot # NONE
  BY <1>1, <1>2, <1>3 DEF Together
<1> QED
  BY <1>5, <1>6 DEF new, with

-----------------------------------------------------------------------------
\* One job moves on.
LEMMA JobMoves ==
  ASSUME NEW jobs, NEW rows, JobsFit(jobs, rows), NEW j \in Jobs, NEW v, v # NONE => JobFits(v, rows)
  PROVE  JobsFit([jobs EXCEPT ![j] = v], rows)
<1> DEFINE next == [jobs EXCEPT ![j] = v]
<1>1. jobs = [i \in Jobs |-> jobs[i]]
  BY DEF JobsFit
<1>2. next = [i \in Jobs |-> next[i]] /\ next[j] = v /\ \A i \in Jobs : i # j => next[i] = jobs[i]
  BY <1>1
<1> HIDE DEF next
<1> QED
  BY <1>2 DEF JobsFit, next

\* Rows move on under the jobs, and lose no price.
LEMMA RowsMove ==
  ASSUME NEW jobs, NEW rows, NEW next, JobsFit(jobs, rows),
         \A c \in Cards : rows[c].snapshot # NONE => next[c].snapshot # NONE
  PROVE  JobsFit(jobs, next)
<1> SUFFICES ASSUME NEW j \in Jobs, jobs[j] # NONE PROVE JobFits(jobs[j], next)
  BY DEF JobsFit
<1>1. JobFits(jobs[j], rows)
  BY DEF JobsFit
<1>2. jobs[j].copies \in UNION {[S -> CardRow] : S \in SUBSET Cards}
  BY <1>1 DEF JobFits, Job
<1>3. DOMAIN jobs[j].copies \subseteq Cards
  BY <1>2
<1> QED
  BY <1>1, <1>3 DEF JobFits

LEMMA BeginKeeps ==
  ASSUME InactionInv, NEW j \in Jobs, NEW cards \in SUBSET Cards, Begin(j, cards), turns' \in 0 .. MaxTurns
  PROVE  InactionInv'
<1> DEFINE copies == [c \in cards |-> card[c]]
           p == [copies |-> copies, left |-> cards, at |-> NONE, price |-> 0, found |-> NONE]
<1>1. /\ pricing' = [pricing EXCEPT ![j] = p]
      /\ UNCHANGED <<card, loss, hurt, namesakes, point, today>>
  BY DEF Begin
<1>2. copies \in [cards -> CardRow] /\ \A c \in cards : copies[c] = card[c] /\ Together(card[c])
  BY DEF InactionInv, RowsFit
<1>3. copies \in UNION {[S -> CardRow] : S \in SUBSET Cards}
  BY <1>2
<1>4. DOMAIN copies = cards /\ \A c \in cards : Together(copies[c]) /\ copies[c] = card[c]
  BY <1>2
<1> HIDE DEF copies
<1>5. 0 \in Prices
  BY CardsAssumption DEF Prices
<1>6. JobFits(p, card)
  BY <1>3, <1>4, <1>5 DEF JobFits, Job
<1> HIDE DEF p
<1>7. JobsFit(pricing', card)
  BY <1>1, <1>6, JobMoves DEF InactionInv
<1> QED
  BY <1>1, <1>7 DEF InactionInv, RowsFit

LEMMA PriceNextKeeps ==
  ASSUME InactionInv, NEW j \in Jobs, NEW c \in Cards, PriceNext(j, c)
  PROVE  InactionInv'
<1> DEFINE p == pricing[j]
           copy == p.copies[c]
           row == Flush(card[c], copy, Priced(c, copy))
<1>1. /\ p # NONE /\ c \in p.left /\ UNCHANGED <<loss, hurt, namesakes, point, today, turns>>
  BY DEF PriceNext
<1>2. JobFits(p, card)
  BY <1>1 DEF InactionInv, JobsFit
<1>3. /\ p \in Job /\ c \in DOMAIN p.copies /\ Together(copy)
      /\ copy.snapshot # NONE => card[c].snapshot # NONE
  BY <1>1, <1>2 DEF JobFits
<1>4. copy \in CardRow
  <2>1. p.copies \in UNION {[S -> CardRow] : S \in SUBSET Cards}
    BY <1>3 DEF Job
  <2> QED
    BY <1>3, <2>1
<1>5. JobsFit(pricing, card) /\ RowsFit(card)
  BY DEF InactionInv
<1>6. p.copies \in UNION {[S -> CardRow] : S \in SUBSET Cards} /\ p.left \subseteq Cards
  BY <1>3 DEF Job
<1>7. CASE c \in namesakes
  <2>1. pricing' = [pricing EXCEPT ![j] = NONE] /\ card' = card
    BY <1>7 DEF PriceNext
  <2>2. JobsFit(pricing', card)
    BY <1>5, <2>1, JobMoves
  <2> QED
    BY <1>1, <2>1, <2>2 DEF InactionInv
<1>8. CASE c \notin namesakes /\ ~ LateMeasure(copy)
  <2> DEFINE v == [p EXCEPT !.left = @ \ {c}]
  <2>1. pricing' = [pricing EXCEPT ![j] = v] /\ card' = card
    BY <1>8 DEF PriceNext
  <2>2. /\ v \in Job /\ v.left = p.left \ {c} /\ v.copies = p.copies
    BY <1>3, <1>6 DEF Job
  <2>3. JobFits(v, card)
    BY <1>2, <2>2 DEF JobFits
  <2> HIDE DEF v
  <2>4. JobsFit(pricing', card)
    BY <1>5, <2>1, <2>3, JobMoves
  <2> QED
    BY <1>1, <2>1, <2>4 DEF InactionInv
<1>9. CASE c \notin namesakes /\ LateMeasure(copy)
  <2> DEFINE v == [p EXCEPT !.left = @ \ {c}, !.at = <<c, today>>, !.price = Price(c, copy), !.found = NONE]
  <2>1. pricing' = [pricing EXCEPT ![j] = v] /\ card' = [card EXCEPT ![c] = row]
    BY <1>5, <1>9 DEF PriceNext, JobsFit
  <2>2. row \in CardRow /\ Together(row) /\ row.snapshot # NONE
    BY <1>3, <1>4, <1>5, PricedRow DEF RowsFit
  <2>3. RowsFit(card')
    BY <1>5, <2>1, <2>2 DEF RowsFit
  <2>4. \A d \in Cards : card[d].snapshot # NONE => card'[d].snapshot # NONE
    BY <1>5, <2>1, <2>2 DEF RowsFit
  <2>5. Price(c, copy) \in Prices /\ <<c, today>> \in Cards \X Nights
    BY PriceType DEF InactionInv
  <2>6. v \in Job /\ v.left = p.left \ {c} /\ v.copies = p.copies
    BY <1>3, <1>6, <2>5 DEF Job
  <2> HIDE DEF v
  <2>7. JobFits(v, card)
    BY <1>2, <2>6 DEF JobFits
  <2>8. JobsFit(pricing', card)
    BY <1>5, <2>1, <2>7, JobMoves
  <2>9. JobsFit(pricing', card')
    BY <2>4, <2>8, RowsMove
  <2> QED
    BY <1>1, <2>3, <2>9 DEF InactionInv
<1> QED
  BY <1>7, <1>8, <1>9

LEMMA PointKeeps ==
  ASSUME InactionInv, NEW j \in Jobs, LookForPoint(j) \/ WritePoint(j) \/ End(j) \/ PricingDies(j)
  PROVE  InactionInv'
<1> DEFINE p == pricing[j]
<1>1. /\ p # NONE /\ UNCHANGED <<card, loss, hurt, namesakes, today>>
  BY DEF LookForPoint, WritePoint, End, PricingDies
<1>2. JobsFit(pricing, card) /\ JobFits(p, card) /\ p \in Job
  BY <1>1 DEF InactionInv, JobsFit, JobFits
<1>3. CASE pricing' = [pricing EXCEPT ![j] = NONE] /\ point' = point
  <2>1. JobsFit(pricing', card)
    BY <1>2, <1>3, JobMoves
  <2>2. turns' \in 0 .. MaxTurns
    BY CardsAssumption DEF LookForPoint, WritePoint, End, PricingDies, Turn, InactionInv
  <2> QED
    BY <1>1, <1>3, <2>1, <2>2 DEF InactionInv
<1>4. CASE LookForPoint(j)
  <2> DEFINE v == [p EXCEPT !.found = point[p.at] # NONE]
  <2>1. pricing' = [pricing EXCEPT ![j] = v] /\ UNCHANGED <<point, turns>>
    BY <1>4 DEF LookForPoint
  <2>2. v \in Job /\ v.left = p.left /\ v.copies = p.copies
    BY <1>2 DEF Job
  <2> HIDE DEF v
  <2>3. JobFits(v, card)
    BY <1>2, <2>2 DEF JobFits
  <2>4. JobsFit(pricing', card)
    BY <1>2, <2>1, <2>3, JobMoves
  <2> QED
    BY <1>1, <2>1, <2>4 DEF InactionInv
<1>5. CASE WritePoint(j)
  <2>1. CASE ~ p.found /\ point[p.at] # NONE
    BY <1>3, <1>5, <2>1 DEF WritePoint
  <2>2. CASE ~ (~ p.found /\ point[p.at] # NONE)
    <3> DEFINE v == [p EXCEPT !.at = NONE, !.found = NONE]
    <3>1. /\ pricing' = [pricing EXCEPT ![j] = v] /\ turns' = turns
          /\ point' = [point EXCEPT ![p.at] = p.price] /\ p.at # NONE
      BY <1>2, <1>5, <2>2 DEF WritePoint, JobsFit
    <3>2. v \in Job /\ v.left = p.left /\ v.copies = p.copies
      BY <1>2 DEF Job
    <3> HIDE DEF v
    <3>3. JobsFit(pricing', card)
      BY <1>2, <3>1, <3>2, JobMoves DEF JobFits
    <3>4. p.price \in Prices /\ point \in [Cards \X Nights -> Prices \cup {NONE}]
      BY <1>2 DEF Job, InactionInv
    <3>5. point' \in [Cards \X Nights -> Prices \cup {NONE}]
      BY <3>1, <3>4
    <3> QED
      BY <1>1, <3>1, <3>3, <3>5 DEF InactionInv
  <2> QED
    BY <2>1, <2>2
<1> QED
  BY <1>3, <1>4, <1>5 DEF End, PricingDies

LEMMA ElsewhereKeeps ==
  ASSUME InactionInv, Elsewhere \/ Dawn
  PROVE  InactionInv'
<1>1. CASE Dawn
  BY <1>1, CardsAssumption DEF Dawn, InactionInv, Nights, RowsFit, JobsFit, JobFits
<1>2. CASE Elsewhere
  <2>1. turns' \in 0 .. MaxTurns /\ UNCHANGED <<point, pricing, today>>
    BY <1>2, CardsAssumption DEF Elsewhere, Turn, InactionInv
  <2>2. CASE /\ \E c \in Cards : Approve(c) \/ SetDone(c) \/ \E d \in Nights \cup {NONE} : SetDue(c, d)
             /\ UNCHANGED <<loss, hurt, namesakes>>
    <3>1. RowsFit(card') /\ \A d \in Cards : card[d].snapshot # NONE => card'[d].snapshot # NONE
      <4>1. PICK c \in Cards : Approve(c) \/ SetDone(c) \/ \E d \in Nights \cup {NONE} : SetDue(c, d)
        BY <2>2
      <4>2. card \in [Cards -> CardRow] /\ card[c] \in CardRow /\ \A d \in Cards : Together(card[d])
        BY DEF InactionInv, RowsFit
      <4>3. ASSUME NEW v, card' = [card EXCEPT ![c] = v], v \in CardRow,
                   v.snapshot = card[c].snapshot, v.snapshot_at = card[c].snapshot_at,
                   v.current = card[c].current
            PROVE  RowsFit(card') /\ \A d \in Cards : card[d].snapshot # NONE => card'[d].snapshot # NONE
        BY <4>2, <4>3 DEF RowsFit, Together
      <4>4. CASE Approve(c)
        <5> DEFINE v == [card[c] EXCEPT !.approved = TRUE]
        <5>1. card' = [card EXCEPT ![c] = v]
          BY <4>4 DEF Approve
        <5>2. /\ v \in CardRow /\ v.snapshot = card[c].snapshot
              /\ v.snapshot_at = card[c].snapshot_at /\ v.current = card[c].current
          BY <4>2 DEF CardRow
        <5> QED
          BY <4>3, <5>1, <5>2
      <4>5. CASE SetDone(c)
        <5> DEFINE v == [card[c] EXCEPT !.done = ~ @]
        <5>1. card' = [card EXCEPT ![c] = v]
          BY <4>5 DEF SetDone
        <5>2. /\ v \in CardRow /\ v.snapshot = card[c].snapshot
              /\ v.snapshot_at = card[c].snapshot_at /\ v.current = card[c].current
          BY <4>2 DEF CardRow
        <5> QED
          BY <4>3, <5>1, <5>2
      <4>6. ASSUME NEW d \in Nights \cup {NONE}, SetDue(c, d)
            PROVE  RowsFit(card') /\ \A i \in Cards : card[i].snapshot # NONE => card'[i].snapshot # NONE
        <5> DEFINE v == [card[c] EXCEPT !.due = d]
        <5>1. card' = [card EXCEPT ![c] = v]
          BY <4>6 DEF SetDue
        <5>2. /\ v \in CardRow /\ v.snapshot = card[c].snapshot
              /\ v.snapshot_at = card[c].snapshot_at /\ v.current = card[c].current
          BY <4>2 DEF CardRow
        <5> QED
          BY <4>3, <5>1, <5>2
      <4> QED
        BY <4>1, <4>4, <4>5, <4>6
    <3>2. JobsFit(pricing', card')
      BY <2>1, <3>1, RowsMove DEF InactionInv
    <3> QED
      BY <2>1, <2>2, <3>1, <3>2 DEF InactionInv
  <2>3. CASE /\ \E c \in Cards \ Compensating, l \in Losses : loss[c] # l /\ loss' = [loss EXCEPT ![c] = l]
             /\ UNCHANGED <<card, hurt, namesakes>>
    BY <2>1, <2>3 DEF InactionInv
  <2>4. CASE /\ \E c \in Compensating : hurt' = [hurt EXCEPT ![c] = @ \cup {today}]
             /\ UNCHANGED <<card, loss, namesakes>>
    <3>1. hurt' \in [Cards -> SUBSET Nights]
      BY <2>4, CardsAssumption DEF InactionInv
    <3> QED
      BY <2>1, <2>4, <3>1 DEF InactionInv
  <2>5. CASE /\ \E c \in Cards : namesakes' = IF c \in namesakes THEN namesakes \ {c} ELSE namesakes \cup {c}
             /\ UNCHANGED <<card, loss, hurt>>
    BY <2>1, <2>5 DEF InactionInv
  <2> QED
    BY <1>2, <2>2, <2>3, <2>4, <2>5 DEF Elsewhere
<1> QED
  BY <1>1, <1>2

LEMMA InactionStarts == InactionInit => InactionInv
<1> SUFFICES ASSUME InactionInit PROVE InactionInv
  OBVIOUS
<1>1. PICK due \in {0, NONE}, approved \in BOOLEAN :
        card = [c \in Cards |-> [approved |-> approved, done |-> FALSE, due |-> due,
                  snapshot |-> NONE, snapshot_at |-> NONE, current |-> NONE, current_at |-> NONE]]
  BY DEF InactionInit
<1>2. 0 \in Nights /\ 0 \in 0 .. MaxTurns
  BY CardsAssumption DEF Nights
<1>3. RowsFit(card)
  BY <1>1, <1>2 DEF RowsFit, CardRow, Together
<1>4. JobsFit(pricing, card)
  BY DEF InactionInit, JobsFit, Jobs
<1> QED
  BY <1>2, <1>3, <1>4 DEF InactionInit, InactionInv

LEMMA InactionSteps == InactionInv /\ [InactionNext]_inactionVars => InactionInv'
<1> SUFFICES ASSUME InactionInv, [InactionNext]_inactionVars PROVE InactionInv'
  OBVIOUS
<1>1. DueNow \subseteq Cards /\ Pricer \in Jobs /\ Buttons \subseteq Jobs
  BY DEF DueNow, Jobs
<1>2. CASE TaskBegin
  <2>1. turns' \in 0 .. MaxTurns
    BY <1>2 DEF TaskBegin, InactionInv
  <2> QED
    BY <1>1, <1>2, <2>1, BeginKeeps DEF TaskBegin
<1>3. ASSUME NEW b \in Buttons, NEW c \in Cards, Press(b, c) PROVE InactionInv'
  <2>1. turns' \in 0 .. MaxTurns
    BY <1>3, CardsAssumption DEF Press, InactionInv
  <2> QED
    BY <1>1, <1>3, <2>1, BeginKeeps DEF Press
<1>4. CASE UNCHANGED inactionVars
  BY <1>4 DEF inactionVars, InactionInv, RowsFit, JobsFit, JobFits
<1> QED
  BY <1>1, <1>2, <1>3, <1>4, PriceNextKeeps, PointKeeps, ElsewhereKeeps DEF InactionNext, TaskStep, Jobs

(***************************************************************************)
(* The run puts the contour and the pricing side by side (MCNightly); they *)
(* share no state.  Beside the types this says that an overdue measure's   *)
(* snapshot, its day and its current price come and stay together, although*)
(* the task and the buttons commit from copies of different age.           *)
(***************************************************************************)
THEOREM NightlyTypeCorrect == NightlySpec => []NightlyTypeOK
<1>1. NightlyInit => ContourInv /\ InactionInv
  BY InitFits, InactionStarts DEF NightlyInit
<1>2. ContourInv /\ InactionInv /\ [NightlyNext]_nightlyVars => (ContourInv /\ InactionInv)'
  <2> SUFFICES ASSUME ContourInv, InactionInv, [NightlyNext]_nightlyVars
               PROVE  ContourInv' /\ InactionInv'
    OBVIOUS
  <2>1. [Next]_vars /\ [InactionNext]_inactionVars
    BY DEF NightlyNext, Closing, Pricing, nightlyVars
  <2> QED
    BY <2>1, NextKeeps, InactionSteps
<1>3. ContourInv /\ InactionInv => NightlyTypeOK
  BY DEF ContourInv, InactionInv, NightlyTypeOK, InactionTypeOK, RowsFit, CardRow, Together
<1> QED
  BY <1>1, <1>2, <1>3, PTL DEF NightlySpec

=============================================================================
