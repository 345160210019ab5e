-------------------------- MODULE RegistersProofs --------------------------
(***************************************************************************)
(* Proofs about the registers people and imports fill and programs compute *)
(* on: an assessment period (Assessment), its shape for any number of      *)
(* handlers and its completion for handlers one after another; the rates   *)
(* filled in from the reference book (Rates); the versions of the weights  *)
(* a period is scored with (WeightVersions); and the run in which they are *)
(* put together with those of FiguresProofs.                               *)
(***************************************************************************)
EXTENDS MCRegisters, FiguresProofs

-----------------------------------------------------------------------------
(***************************************************************************)
(* Assessment.  With one handler at a time, what a handler has read is     *)
(* what is there: the check of the lock and the check of the completion    *)
(* are still true when it commits.                                         *)
(***************************************************************************)
Counts(p, v) == Required[p.depth] \subseteq Filled(v) /\ Unexplained(v) = {}

UpToDate(h, p, v, a) ==
  /\ h.pc # "idle" => h.period = p
  /\ h.pc \notin {"idle", "loaded"} => h.values = v /\ h.ai = a
  /\ h.pc = "explained" => Counts(p, v)

AssessmentInv ==
  /\ period \in Period
  /\ req = [r \in Requests |-> req[r]]
  /\ \A r \in Requests : UpToDate(req[r], period, values, ai)
  /\ completed_by # NULL => period.status = "COMPLETE"
  /\ completed_by \in {"quality", "ai", NULL}
  /\ CompletedStillCounts

LEMMA CommitSerial ==
  ASSUME AssessmentInv, NEW r \in Requests, Requests \subseteq {r}, req[r].pc # "idle",
         NEW new \in Period, NEW by, CommitPeriod(r, new, by)
  PROVE  /\ period' = new /\ completed_by' = IF new.status = "COMPLETE" THEN by ELSE NULL
         /\ req' = [s \in Requests |-> req'[s]]
         /\ \A s \in Requests : UpToDate(req'[s], period', values', ai')
<1>1. req[r].period = period /\ period \in Period
  BY DEF AssessmentInv, UpToDate
<1>2. Flush(period, period, new) = new
  BY <1>1 DEF Flush, Period
<1>3. period' = new
  BY <1>1, <1>2 DEF CommitPeriod
<1>4. req' = [req EXCEPT ![r] = [pc |-> "idle"]] /\ req = [s \in Requests |-> req[s]]
  BY DEF CommitPeriod, AssessmentInv
<1>5. req' = [s \in Requests |-> req'[s]] /\ req'[r].pc = "idle"
  BY <1>4
<1>6. \A s \in Requests : req'[s].pc = "idle"
  BY <1>5
<1> QED
  BY <1>3, <1>5, <1>6 DEF CommitPeriod, UpToDate

\* A commit that leaves the period open, whatever it makes of the values.
LEMMA OpenCommit ==
  ASSUME AssessmentInv, NEW r \in Requests, Requests \subseteq {r}, req[r].pc # "idle",
         NEW new \in Period, new.status # "COMPLETE", NEW by, CommitPeriod(r, new, by)
  PROVE  AssessmentInv'
<1>1. /\ period' = new /\ completed_by' = NULL /\ req' = [s \in Requests |-> req'[s]]
      /\ \A s \in Requests : UpToDate(req'[s], period', values', ai')
  BY CommitSerial
<1>2. completed_by' # "quality" /\ completed_by' # "ai"
  BY <1>1, NullAssumption
<1>3. CompletedStillCounts'
  BY <1>2 DEF CompletedStillCounts
<1> QED
  BY <1>1, <1>3 DEF AssessmentInv

\* A handler that touches neither the period nor the values.
LEMMA OnlyHandlers ==
  ASSUME AssessmentInv, NEW r \in Requests, Requests \subseteq {r}, NEW h,
         req' = [req EXCEPT ![r] = h], UpToDate(h, period, values, ai),
         UNCHANGED <<period, values, ai, completed_by>>
  PROVE  AssessmentInv'
<1>1. /\ period' = period /\ values' = values /\ ai' = ai /\ completed_by' = completed_by
      /\ req = [s \in Requests |-> req[s]]
  BY DEF AssessmentInv
<1>2. req' = [s \in Requests |-> req'[s]] /\ req'[r] = h
  BY <1>1
<1>3. \A s \in Requests : UpToDate(req'[s], period', values', ai')
  <2> SUFFICES ASSUME NEW s \in Requests PROVE UpToDate(req'[s], period', values', ai')
    OBVIOUS
  <2>1. s = r
    OBVIOUS
  <2>2. UpToDate(req'[s], period, values, ai)
    BY <1>2, <2>1
  <2> QED
    BY <1>1, <2>2
<1>4. CompletedStillCounts'
  BY <1>1 DEF AssessmentInv, CompletedStillCounts, CompleteIsComplete
<1> QED
  BY <1>1, <1>2, <1>3, <1>4 DEF AssessmentInv

LEMMA AssessmentStarts == ASSUME Init PROVE AssessmentInv
<1>1. period \in Period /\ period.status = "DRAFT"
  BY DEF Init, Period
<1>2. req = [r \in Requests |-> req[r]] /\ \A r \in Requests : req[r].pc = "idle"
  BY DEF Init
<1>3. completed_by = NULL /\ NULL \notin {"quality", "ai"}
  BY NullAssumption DEF Init
<1> QED
  BY <1>1, <1>2, <1>3 DEF AssessmentInv, UpToDate, CompletedStillCounts

\* Values and depth of the copy a handler has of an open period.
LEMMA EditingOpen ==
  ASSUME AssessmentInv, NEW r \in Requests, Editing(r)
  PROVE  /\ req[r].pc # "idle" /\ req[r].period = period /\ period \in Period
         /\ period.status # "COMPLETE"
BY DEF Editing, is_period_locked, AssessmentInv, UpToDate

LEMMA PeriodCopies ==
  ASSUME NEW p \in Period
  PROVE  /\ [p EXCEPT !.status = "CALCULATED"] \in Period
         /\ [p EXCEPT !.status = "CALCULATED"].status = "CALCULATED"
         /\ [p EXCEPT !.status = "CALCULATED"].depth = p.depth
         /\ [p EXCEPT !.status = "COMPLETE"] \in Period
         /\ [p EXCEPT !.status = "COMPLETE"].status = "COMPLETE"
         /\ [p EXCEPT !.status = "COMPLETE"].depth = p.depth
         /\ \A d \in Depths : /\ [p EXCEPT !.depth = d] \in Period
                              /\ [p EXCEPT !.depth = d].status = p.status
BY DEF Period

\* Each handler that corrects values commits a copy of the period that stays open.
LEMMA EditsCommit ==
  ASSUME AssessmentInv, NEW r \in Requests, Save(r) \/ AddValue(r) \/ Import(r) \/ CarryOver(r)
  PROVE  /\ Editing(r)
         /\ \E new \in Period : new.status # "COMPLETE" /\ CommitPeriod(r, new, completed_by)
<1>1. Editing(r)
  BY DEF Save, AddValue, Import, CarryOver
<1>2. /\ req[r].period \in Period /\ req[r].period.status # "COMPLETE"
      /\ [req[r].period EXCEPT !.status = "CALCULATED"] \in Period
      /\ [req[r].period EXCEPT !.status = "CALCULATED"].status # "COMPLETE"
  BY <1>1, EditingOpen, PeriodCopies
<1>3. CASE Save(r)
  <2>1. \/ CommitPeriod(r, req[r].period, completed_by)
        \/ CommitPeriod(r, [req[r].period EXCEPT !.status = "CALCULATED"], completed_by)
    BY <1>3 DEF Save, Commit
  <2> QED
    BY <1>1, <1>2, <2>1
<1>4. CASE AddValue(r)
  <2>1. CommitPeriod(r, req[r].period, completed_by)
    BY <1>4 DEF AddValue, Commit
  <2> QED
    BY <1>1, <1>2, <2>1
<1>5. CASE Import(r)
  <2>1. CommitPeriod(r, [req[r].period EXCEPT !.status = "CALCULATED"], completed_by)
    BY <1>5, Zenon DEF Import, Commit
  <2> QED
    BY <1>1, <1>2, <2>1
<1>6. CASE CarryOver(r)
  <2>1. CommitPeriod(r, req[r].period, completed_by)
    BY <1>6 DEF CarryOver, Commit
  <2> QED
    BY <1>1, <1>2, <2>1
<1> QED
  BY <1>3, <1>4, <1>5, <1>6

\* The commits after which the period is open.
Reopens(r) == Save(r) \/ AddValue(r) \/ Import(r) \/ CarryOver(r) \/ Reopen(r) \/ SetDepth(r) \/ SaveAi(r)

LEMMA OpensKeep ==
  ASSUME AssessmentInv, NEW r \in Requests, Requests \subseteq {r}, Reopens(r)
  PROVE  AssessmentInv'
<1>1. ASSUME Save(r) \/ AddValue(r) \/ Import(r) \/ CarryOver(r) PROVE AssessmentInv'
  <2>1. PICK new \in Period : new.status # "COMPLETE" /\ CommitPeriod(r, new, completed_by)
    BY <1>1, EditsCommit
  <2>2. req[r].pc # "idle"
    BY <1>1, EditsCommit, EditingOpen
  <2> QED
    BY <2>1, <2>2, OpenCommit
<1>2. ASSUME req[r].pc # "idle" PROVE req[r].period = period /\ req[r].period \in Period
  BY <1>2 DEF AssessmentInv, UpToDate
<1>3. CASE Reopen(r)
  <2>1. /\ req[r].pc # "idle"
        /\ CommitPeriod(r, [req[r].period EXCEPT !.status = "CALCULATED"], completed_by)
    BY <1>3 DEF Reopen
  <2> QED
    BY <1>2, <2>1, PeriodCopies, OpenCommit
<1>4. CASE SetDepth(r)
  <2>1. PICK d \in Depths : CommitPeriod(r, [req[r].period EXCEPT !.depth = d], completed_by)
    BY <1>4 DEF SetDepth
  <2>2. req[r].pc # "idle" /\ req[r].period.status # "COMPLETE"
    BY <1>4 DEF SetDepth
  <2>3. /\ [req[r].period EXCEPT !.depth = d] \in Period
        /\ [req[r].period EXCEPT !.depth = d].status # "COMPLETE"
    BY <1>2, <2>2, PeriodCopies
  <2> QED
    BY <2>1, <2>2, <2>3, OpenCommit
<1>5. CASE SaveAi(r)
  <2>1. /\ req[r].pc # "idle"
        /\ CommitPeriod(r, [req[r].period EXCEPT !.status = "CALCULATED"], completed_by)
    BY <1>5 DEF SaveAi
  <2> QED
    BY <1>2, <2>1, PeriodCopies, OpenCommit
<1> QED
  BY <1>1, <1>3, <1>4, <1>5 DEF Reopens

LEMMA HandlersKeep ==
  ASSUME AssessmentInv, NEW r \in Requests, Requests \subseteq {r},
         Load(r) \/ Read(r) \/ Refuse(r) \/ Explained(r)
  PROVE  AssessmentInv'
<1>1. UpToDate(req[r], period, values, ai) /\ req = [s \in Requests |-> req[s]]
  BY DEF AssessmentInv
<1>2. CASE Load(r)
  <2>1. UpToDate([pc |-> "loaded", period |-> period], period, values, ai)
    BY DEF UpToDate
  <2> QED
    BY <1>2, <2>1, OnlyHandlers DEF Load
<1>3. CASE Read(r)
  <2> DEFINE h == [pc |-> "read", period |-> req[r].period, values |-> values, ai |-> ai]
  <2>1. UpToDate(h, period, values, ai)
    BY <1>1, <1>3 DEF UpToDate, Read
  <2>2. req' = [req EXCEPT ![r] = h] /\ UNCHANGED <<period, values, ai, completed_by>>
    BY <1>3 DEF Read
  <2> HIDE DEF h
  <2> QED
    BY <2>1, <2>2, OnlyHandlers
<1>4. CASE Refuse(r)
  <2>1. UpToDate([pc |-> "idle"], period, values, ai)
    BY DEF UpToDate
  <2> QED
    BY <1>4, <2>1, OnlyHandlers DEF Refuse
<1>5. CASE Explained(r)
  <2> DEFINE h == [req[r] EXCEPT !.pc = "explained"]
  <2>1. /\ req[r].pc = "read" /\ req[r].period = period /\ req[r].values = values /\ req[r].ai = ai
        /\ Counts(period, values)
    BY <1>1, <1>5 DEF UpToDate, Explained, Counts
  <2>2. /\ req' = [req EXCEPT ![r].pc = "explained"]
        /\ UNCHANGED <<period, values, ai, completed_by>>
    BY <1>5 DEF Explained
  <2>3. req' = [req EXCEPT ![r] = h]
    BY <2>2
  <2>4. h.period = req[r].period /\ h.values = req[r].values /\ h.ai = req[r].ai
    OBVIOUS
  <2>5. UpToDate(h, period, values, ai)
    BY <2>1, <2>4 DEF UpToDate
  <2> HIDE DEF h
  <2> QED
    BY <2>2, <2>3, <2>5, OnlyHandlers
<1> QED
  BY <1>2, <1>3, <1>4, <1>5

\* What was checked is what is completed.
LEMMA CompletesKeep ==
  ASSUME AssessmentInv, NEW r \in Requests, Requests \subseteq {r}, Finalize(r) \/ FinalizeAi(r)
  PROVE  AssessmentInv'
<1> DEFINE new == [req[r].period EXCEPT !.status = "COMPLETE"]
<1>1. UpToDate(req[r], period, values, ai) /\ period \in Period
  BY DEF AssessmentInv
<1>2. req[r].pc # "idle" /\ values' = values /\ ai' = ai
  BY DEF Finalize, FinalizeAi
<1>3. new \in Period /\ new.status = "COMPLETE" /\ new.depth = period.depth
  BY <1>1, <1>2, PeriodCopies DEF UpToDate
<1> HIDE DEF new
<1>4. ASSUME NEW by \in {"quality", "ai"}, CommitPeriod(r, new, by),
             by = "quality" => Counts(period, values), by = "ai" => ai = "calculated"
      PROVE  AssessmentInv'
  <2>1. /\ period' = new /\ completed_by' = by /\ req' = [s \in Requests |-> req'[s]]
        /\ \A s \in Requests : UpToDate(req'[s], period', values', ai')
    BY <1>2, <1>3, <1>4, CommitSerial
  <2>2. by = "quality" => Required[new.depth] \subseteq Filled(values) /\ Unexplained(values) = {}
    BY <1>3, <1>4 DEF Counts
  <2>3. CompletedStillCounts'
    BY <1>2, <1>4, <2>1, <2>2 DEF CompletedStillCounts, CompleteIsComplete
  <2> QED
    BY <1>3, <2>1, <2>3 DEF AssessmentInv
<1>5. CASE Finalize(r)
  <2>1. CommitPeriod(r, new, "quality") /\ Counts(period, values)
    BY <1>1, <1>5 DEF Finalize, UpToDate, new
  <2> QED
    BY <1>4, <2>1
<1>6. CASE FinalizeAi(r)
  <2>1. CommitPeriod(r, new, "ai") /\ ai = "calculated"
    BY <1>1, <1>6 DEF FinalizeAi, UpToDate, new
  <2> QED
    BY <1>4, <2>1
<1> QED
  BY <1>5, <1>6

LEMMA AssessmentSteps ==
  ASSUME NEW s, Requests \subseteq {s}, AssessmentInv, [Next]_vars
  PROVE  AssessmentInv'
<1>1. CASE Next
  <2>1. PICK r \in Requests :
          \/ Load(r) \/ Read(r) \/ Refuse(r) \/ Explained(r) \/ Reopens(r) \/ Finalize(r) \/ FinalizeAi(r)
    BY <1>1 DEF Next, Reopens
  <2>2. Requests \subseteq {r}
    OBVIOUS
  <2> QED
    BY <2>1, <2>2, OpensKeep, HandlersKeep, CompletesKeep
<1>2. CASE UNCHANGED vars
  <2>1. /\ period' = period /\ values' = values /\ ai' = ai /\ req' = req
        /\ completed_by' = completed_by
    BY <1>2 DEF vars
  <2> QED
    BY <2>1 DEF AssessmentInv, CompletedStillCounts, CompleteIsComplete
<1> QED
  BY <1>1, <1>2

(***************************************************************************)
(* With handlers one after another, a complete period passes the check of  *)
(* the contour that completed it for as long as it is complete             *)
(* (finalize_assessment, finalize_ai_period; carry-over, import and        *)
(* reopening in any order between).                                        *)
(***************************************************************************)
THEOREM CompletedStillCountsSerially ==
  ASSUME NEW s, Requests \subseteq {s} PROVE Spec => []CompletedStillCounts
<1>1. Init => AssessmentInv
  BY AssessmentStarts
<1>2. AssessmentInv /\ [Next]_vars => AssessmentInv'
  BY AssessmentSteps
<1>3. AssessmentInv => CompletedStillCounts
  BY DEF AssessmentInv
<1> QED
  BY <1>1, <1>2, <1>3, PTL DEF Spec

\* A step from a complete period: it reopens it, or leaves depth and values alone.
LEMMA LockedStep ==
  ASSUME NEW s, Requests \subseteq {s}, AssessmentInv, Next, period.status = "COMPLETE"
  PROVE  values' = values /\ period'.depth = period.depth
<1>1. PICK r \in Requests :
        \/ Load(r) \/ Read(r) \/ Refuse(r) \/ Explained(r) \/ Reopens(r) \/ Finalize(r) \/ FinalizeAi(r)
  BY DEF Next, Reopens
<1>2. Requests \subseteq {r}
  OBVIOUS
<1>3. ASSUME req[r].pc # "idle" PROVE req[r].period = period /\ period \in Period
  BY <1>3 DEF AssessmentInv, UpToDate
<1>4. ~ Save(r) /\ ~ AddValue(r) /\ ~ Import(r) /\ ~ CarryOver(r)
  BY EditsCommit, EditingOpen
<1>5. ~ SetDepth(r)
  BY <1>3 DEF SetDepth
<1>6. CASE Load(r) \/ Read(r) \/ Refuse(r) \/ Explained(r)
  BY <1>6 DEF Load, Read, Refuse, Explained
<1>7. CASE Reopen(r) \/ SaveAi(r)
  <2>1. /\ req[r].pc # "idle" /\ values' = values
        /\ CommitPeriod(r, [req[r].period EXCEPT !.status = "CALCULATED"], completed_by)
    BY <1>7 DEF Reopen, SaveAi
  <2>2. period' = [period EXCEPT !.status = "CALCULATED"]
    BY <1>2, <1>3, <2>1, PeriodCopies, CommitSerial
  <2> QED
    BY <1>3, <2>1, <2>2, PeriodCopies
<1>8. CASE Finalize(r) \/ FinalizeAi(r)
  <2>1. PICK by : /\ req[r].pc # "idle" /\ values' = values
                  /\ CommitPeriod(r, [req[r].period EXCEPT !.status = "COMPLETE"], by)
    BY <1>8 DEF Finalize, FinalizeAi
  <2>2. period' = [period EXCEPT !.status = "COMPLETE"]
    BY <1>2, <1>3, <2>1, PeriodCopies, CommitSerial
  <2> QED
    BY <1>3, <2>1, <2>2, PeriodCopies
<1> QED
  BY <1>1, <1>4, <1>5, <1>6, <1>7, <1>8 DEF Reopens

(***************************************************************************)
(* With handlers one after another, neither the values nor the depth of a  *)
(* complete period change (PERIOD_LOCKED_MESSAGE); the AI contour, which   *)
(* does not look at the lock, changes its own values and reopens it.       *)
(***************************************************************************)
THEOREM CompleteIsLockedSerially ==
  ASSUME NEW s, Requests \subseteq {s} PROVE Spec => CompleteIsLocked
<1> DEFINE Locked == period.status = "COMPLETE" => values' = values /\ period'.depth = period.depth
<1>1. Init => AssessmentInv
  BY AssessmentStarts
<1>2. AssessmentInv /\ [Next]_vars => AssessmentInv'
  BY AssessmentSteps
<1>3. AssessmentInv /\ [Next]_vars => [Locked]_vars
  BY LockedStep
<1> QED
  BY <1>1, <1>2, <1>3, PTL DEF Spec, CompleteIsLocked

-----------------------------------------------------------------------------
(***************************************************************************)
(* The shape of an assessment, with any number of handlers: a commit keeps *)
(* the rows its handler has seen and adds to them, whatever is there by    *)
(* then; the lines of a file are a fold, each on top of those before it.   *)
(***************************************************************************)

\* Rows that keep those a handler has seen, and perhaps have more.
More(seen) == {rows \in Rows : \A p \in Pairs : Len(seen[p]) <= Len(rows[p])}

\* What a line makes of a row is a row.
LEMMA ImportedValue ==
  ASSUME NEW v \in Value, NEW line \in Lines PROVE Imported(v, line) \in Value
<1>1. line.x \in Scores \cup {NULL, Garbled} /\ line.reason \in BOOLEAN
  BY DEF Lines
<1>2. CASE line.x = Garbled
  BY <1>2 DEF Imported
<1>3. CASE line.x # Garbled
  BY <1>1, <1>3 DEF Imported, Value
<1> QED
  BY <1>2, <1>3

LEMMA EmptyValue == Empty \in Value
BY DEF Empty, Value

\* A line keeps the rows seen, and those of the lines before it.
LEMMA LineKeeps ==
  ASSUME NEW seen \in Rows, NEW rows \in More(seen), NEW line \in Lines
  PROVE  ImportLine(seen, rows, line) \in More(seen)
<1> DEFINE p == line.pair
<1>1. p \in Pairs /\ rows \in [Pairs -> Seq(Value)] /\ seen \in [Pairs -> Seq(Value)]
      /\ \A o \in Pairs : Len(seen[o]) <= Len(rows[o])
  BY DEF Lines, More, Rows
<1>2. ASSUME NEW new \in Seq(Value), Len(seen[p]) <= Len(new)
      PROVE  [rows EXCEPT ![p] = new] \in More(seen)
  <2>1. [rows EXCEPT ![p] = new] \in Rows
    BY <1>1 DEF Rows
  <2>2. \A o \in Pairs : Len(seen[o]) <= Len([rows EXCEPT ![p] = new][o])
    BY <1>1, <1>2
  <2> QED
    BY <2>1, <2>2 DEF More
<1>3. CASE Len(seen[p]) = 0
  <2> DEFINE new == Append(rows[p], Imported(Empty, line))
  <2>1. Imported(Empty, line) \in Value /\ rows[p] \in Seq(Value)
    BY <1>1, EmptyValue, ImportedValue
  <2>2. new \in Seq(Value) /\ Len(new) = Len(rows[p]) + 1 /\ Len(rows[p]) \in Nat
    BY <2>1
  <2> HIDE DEF new
  <2>3. ImportLine(seen, rows, line) = [rows EXCEPT ![p] = new]
    BY <1>3 DEF ImportLine, new
  <2>4. [rows EXCEPT ![p] = new] \in More(seen)
    <3>1. Len(seen[p]) <= Len(new)
      BY <1>3, <2>2
    <3> QED
      BY <1>2, <2>2, <3>1
  <2> QED
    BY <2>3, <2>4
<1>4. CASE Len(seen[p]) = 1
  <2> DEFINE new == <<Imported(rows[p][1], line)>>
  <2>1. rows[p][1] \in Value
    BY <1>1, <1>4
  <2>2. Imported(rows[p][1], line) \in Value
    BY <2>1, ImportedValue
  <2>3. new \in Seq(Value) /\ Len(new) = 1
    BY <2>2
  <2> HIDE DEF new
  <2>4. ImportLine(seen, rows, line) = [rows EXCEPT ![p] = new]
    BY <1>4 DEF ImportLine, new
  <2>5. [rows EXCEPT ![p] = new] \in More(seen)
    <3>1. Len(seen[p]) <= Len(new)
      BY <1>4, <2>3
    <3> QED
      BY <1>2, <2>3, <3>1
  <2> QED
    BY <2>4, <2>5
<1>5. CASE Len(seen[p]) # 0 /\ Len(seen[p]) # 1
  BY <1>5 DEF ImportLine
<1> QED
  BY <1>3, <1>4, <1>5

\* A fold over a sequence takes the last of its indices out.
LEMMA Greatest ==
  ASSUME NEW n \in Nat, NEW T \in SUBSET (1 .. n), T # {} PROVE Max(T) \in T
<1> DEFINE S == {n - t : t \in T}
<1>1. S \in SUBSET Nat /\ S # {}
  <2>1. \A t \in T : n - t \in Nat
    OBVIOUS
  <2>2. S \in SUBSET Nat
    BY <2>1
  <2> QED
    BY <2>2
<1> HIDE DEF S
<1>2. PICK m \in S : \A k \in S : m <= k
  BY <1>1, Least
<1>3. PICK t \in T : m = n - t
  BY <1>2 DEF S
<1>4. \A u \in T : n - u \in S
  BY DEF S
<1>5. \A u \in T : t >= u
  BY <1>2, <1>3, <1>4
<1> QED
  BY <1>3, <1>5 DEF Max

\* All the lines of a file.
LEMMA ImportKeeps ==
  ASSUME NEW seen \in Rows, NEW n \in Nat, NEW lines \in [1 .. n -> Lines]
  PROVE  FoldLeft(LAMBDA rows, line : ImportLine(seen, rows, line), seen, lines) \in More(seen)
<1> DEFINE S == 1 .. n
           R == More(seen)
           step == [q \in S \X R |-> ImportLine(seen, q[2], lines[q[1]])]
           pick == [T \in SUBSET S |-> Max(T)]
           Folded(h) == h = [T \in SUBSET S |->
                               IF T = {} THEN seen ELSE ImportLine(seen, h[T \ {Max(T)}], lines[Max(T)])]
           whole == CHOOSE h : Folded(h)
<1>1. IsFiniteSet(S) /\ Takes(pick, S)
  <2>1. IsFiniteSet(S)
    BY FS_Interval
  <2>2. \A T \in SUBSET S : T # {} => Max(T) \in T
    BY Greatest
  <2> QED
    BY <2>1, <2>2 DEF Takes
<1>2. seen \in R
  BY DEF More, Rows
<1>3. step \in [S \X R -> R]
  <2>1. \A q \in S \X R : ImportLine(seen, q[2], lines[q[1]]) \in R
    BY LineKeeps
  <2> QED
    BY <2>1
<1> HIDE DEF R
<1>4. \A g \in [SUBSET S -> R] : FoldsWith(g, S, seen, step, pick) => Folded(g)
  <2> SUFFICES ASSUME NEW g \in [SUBSET S -> R], FoldsWith(g, S, seen, step, pick) PROVE Folded(g)
    OBVIOUS
  <2>1. \A T \in SUBSET S : T # {} => pick[T] \in S /\ pick[T] = Max(T) /\ g[T \ {Max(T)}] \in R
    BY <1>1 DEF Takes
  <2>2. \A T \in SUBSET S : T # {} => step[<<Max(T), g[T \ {Max(T)}]>>]
                                        = ImportLine(seen, g[T \ {Max(T)}], lines[Max(T)])
    BY <2>1
  <2> HIDE DEF step, pick
  <2>3. \A T \in SUBSET S :
          g[T] = IF T = {} THEN seen ELSE ImportLine(seen, g[T \ {Max(T)}], lines[Max(T)])
    BY <2>1, <2>2 DEF FoldsWith
  <2> QED
    BY <2>3
<1> HIDE DEF step, pick
<1>5. PICK g \in [SUBSET S -> R] : FoldsWith(g, S, seen, step, pick)
  BY <1>1, <1>2, <1>3, FoldExistsWith
<1>6. FoldLeft(LAMBDA rows, line : ImportLine(seen, rows, line), seen, lines) = whole[S]
  <2>1. DOMAIN lines = S
    OBVIOUS
  <2> QED
    BY <2>1 DEF FoldLeft, MapThenFoldSet
<1>7. Folded(g) /\ Folded(whole)
  <2> HIDE DEF Folded
  <2> QED
    BY <1>4, <1>5
<1> HIDE DEF whole, S
<1>8. \A T \in SUBSET S : whole[T] \in R
  <2>0. \A T \in SUBSET S :
          whole[T] = IF T = {} THEN seen ELSE ImportLine(seen, whole[T \ {Max(T)}], lines[Max(T)])
    BY <1>7
  <2> HIDE DEF Folded
  <2> DEFINE Bad == {T \in SUBSET S : whole[T] \notin R}
  <2> SUFFICES ASSUME Bad # {} PROVE FALSE
    OBVIOUS
  <2>1. PICK T \in Bad : \A U \in SUBSET T : U \in Bad => U = T
    <3>1. Bad \in SUBSET (SUBSET S)
      OBVIOUS
    <3> HIDE DEF Bad
    <3> QED
      BY <1>1, <3>1, SmallestSet
  <2>2. whole[T] = IF T = {} THEN seen ELSE ImportLine(seen, whole[T \ {Max(T)}], lines[Max(T)])
    BY <2>0, <2>1
  <2>3. T # {}
    BY <1>2, <2>1, <2>2
  <2>4. Max(T) \in T
    BY <2>1, <2>3, Greatest DEF S
  <2>5. whole[T \ {Max(T)}] \in R
    BY <2>1, <2>4
  <2>6. ImportLine(seen, whole[T \ {Max(T)}], lines[Max(T)]) \in R
    BY <2>1, <2>4, <2>5, LineKeeps DEF R, S
  <2> QED
    BY <2>1, <2>2, <2>3, <2>6
<1> QED
  BY <1>6, <1>8 DEF R

\* A row and a period that several sessions commit to.
LEMMA FlushedValue ==
  ASSUME NEW v \in Value, NEW seen \in Value, NEW new \in Value PROVE Flush(v, seen, new) \in Value
BY DEF Flush, Value

LEMMA FlushedPeriod ==
  ASSUME NEW p \in Period, NEW seen \in Period, NEW new \in Period
  PROVE  Flush(p, seen, new) \in Period
BY DEF Flush, Period

LEMMA StoredValues ==
  ASSUME NEW rows \in Seq(Value), NEW seen \in Seq(Value), NEW new \in Seq(Value), Len(seen) <= Len(new)
  PROVE  StoredRows(rows, seen, new) \in Seq(Value)
<1> DEFINE a == [i \in DOMAIN rows |->
                   IF i \in DOMAIN seen THEN Flush(rows[i], seen[i], new[i]) ELSE rows[i]]
           b == SubSeq(new, Len(seen) + 1, Len(new))
<1>1. a \in Seq(Value)
  <2>1. \A i \in DOMAIN rows : rows[i] \in Value
    OBVIOUS
  <2>2. \A i \in DOMAIN seen : seen[i] \in Value /\ new[i] \in Value
    OBVIOUS
  <2>3. \A i \in DOMAIN rows : a[i] \in Value
    BY <2>1, <2>2, FlushedValue
  <2>4. DOMAIN rows = 1 .. Len(rows) /\ Len(rows) \in Nat /\ a = [i \in DOMAIN rows |-> a[i]]
    OBVIOUS
  <2> HIDE DEF a
  <2>5. a = [i \in 1 .. Len(rows) |-> a[i]] /\ \A i \in 1 .. Len(rows) : a[i] \in Value
    BY <2>3, <2>4
  <2>6. a \in [1 .. Len(rows) -> Value]
    BY <2>5
  <2> QED
    BY <2>4, <2>6
<1>2. b \in Seq(Value)
  <2>1. Len(seen) \in Nat /\ Len(new) \in Nat
    OBVIOUS
  <2>2. \A i \in Len(seen) + 1 .. Len(new) : i \in 1 .. Len(new)
    BY <2>1
  <2> QED
    BY <2>1, <2>2, SubSeqProperties
<1> HIDE DEF a, b
<1>3. a \o b \in Seq(Value)
  BY <1>1, <1>2
<1> QED
  BY <1>3 DEF StoredRows, a, b

\* What a handler in flight has read.
LEMMA HandlerHas ==
  ASSUME TypeOK, NEW r \in Requests, req[r].pc # "idle"
  PROVE  /\ req[r].period \in Period
         /\ req[r].pc \in {"read", "explained"} => req[r].values \in Rows /\ req[r].ai \in AiValues
<1>1. req[r] \in Request
  BY DEF TypeOK
<1>2. \/ req[r] \in [pc : {"loaded"}, period : Period]
      \/ req[r] \in [pc : {"read", "explained"}, period : Period, values : Rows, ai : AiValues]
  BY <1>1 DEF Request
<1> QED
  BY <1>2

\* A commit of a copy of the period.
LEMMA PeriodTypes ==
  ASSUME TypeOK, NEW r \in Requests, req[r].pc # "idle", NEW new \in Period,
         NEW by \in {"quality", "ai", NULL}, CommitPeriod(r, new, by)
  PROVE  /\ period' \in Period /\ req' \in [Requests -> Request]
         /\ completed_by' \in {"quality", "ai", NULL}
<1>1. period' \in Period
  BY HandlerHas, FlushedPeriod DEF CommitPeriod, TypeOK
<1>2. req' \in [Requests -> Request]
  <2>1. [pc |-> "idle"] \in Request
    BY DEF Request
  <2> QED
    BY <2>1 DEF CommitPeriod, TypeOK
<1>3. completed_by' \in {"quality", "ai", NULL}
  BY DEF CommitPeriod
<1> QED
  BY <1>1, <1>2, <1>3

\* ... and of its values.
LEMMA CommitTypes ==
  ASSUME TypeOK, NEW r \in Requests, req[r].pc = "read", NEW newPeriod \in Period,
         NEW newValues \in More(req[r].values), Commit(r, newPeriod, newValues)
  PROVE  TypeOK'
<1>1. /\ req[r].values \in [Pairs -> Seq(Value)] /\ newValues \in [Pairs -> Seq(Value)]
      /\ values \in [Pairs -> Seq(Value)] /\ \A p \in Pairs : Len(req[r].values[p]) <= Len(newValues[p])
  BY HandlerHas DEF More, Rows, TypeOK
<1>2. values' = [p \in Pairs |-> StoredRows(values[p], req[r].values[p], newValues[p])]
      /\ (\A p \in Pairs : Len(values'[p]) <= MaxRows) /\ ai' = ai
      /\ CommitPeriod(r, newPeriod, completed_by)
  BY DEF Commit
<1>3. \A p \in Pairs : StoredRows(values[p], req[r].values[p], newValues[p]) \in Seq(Value)
  BY <1>1, StoredValues
<1>4. values' \in Rows
  BY <1>2, <1>3 DEF Rows
<1>5. completed_by \in {"quality", "ai", NULL} /\ req[r].pc # "idle"
  BY DEF TypeOK
<1>6. /\ period' \in Period /\ req' \in [Requests -> Request]
      /\ completed_by' \in {"quality", "ai", NULL}
  BY <1>2, <1>5, PeriodTypes
<1> QED
  BY <1>2, <1>4, <1>6 DEF TypeOK

\* ... or of the period alone, for a contour.
LEMMA PeriodOnlyTypes ==
  ASSUME TypeOK, NEW r \in Requests, req[r].pc # "idle", NEW new \in Period,
         NEW by \in {"quality", "ai", NULL}, CommitPeriod(r, new, by),
         UNCHANGED values, ai' \in AiValues
  PROVE  TypeOK'
<1>1. /\ period' \in Period /\ req' \in [Requests -> Request]
      /\ completed_by' \in {"quality", "ai", NULL}
  BY PeriodTypes
<1> QED
  BY <1>1 DEF TypeOK

LEMMA HandlerTypes ==
  ASSUME TypeOK, NEW r \in Requests, NEW h \in Request, req' = [req EXCEPT ![r] = h],
         UNCHANGED <<period, values, ai, completed_by>>
  PROVE  TypeOK'
BY DEF TypeOK

\* Steps that read, refuse or check.
LEMMA ReadingTypes ==
  ASSUME TypeOK, NEW r \in Requests, Load(r) \/ Read(r) \/ Refuse(r) \/ Explained(r)
  PROVE  TypeOK'
<1>1. period \in Period /\ values \in Rows /\ ai \in AiValues
  BY DEF TypeOK
<1>2. CASE Load(r)
  <2> DEFINE h == [pc |-> "loaded", period |-> period]
  <2>1. h \in Request
    BY <1>1 DEF Request
  <2>2. req' = [req EXCEPT ![r] = h] /\ UNCHANGED <<period, values, ai, completed_by>>
    BY <1>2 DEF Load
  <2> HIDE DEF h
  <2> QED
    BY <2>1, <2>2, HandlerTypes
<1>3. CASE Read(r)
  <2> DEFINE h == [pc |-> "read", period |-> req[r].period, values |-> values, ai |-> ai]
  <2>1. req[r].period \in Period
    BY <1>3, HandlerHas DEF Read
  <2>2. h \in Request
    BY <1>1, <2>1 DEF Request
  <2>3. req' = [req EXCEPT ![r] = h] /\ UNCHANGED <<period, values, ai, completed_by>>
    BY <1>3 DEF Read
  <2> HIDE DEF h
  <2> QED
    BY <2>2, <2>3, HandlerTypes
<1>4. CASE Refuse(r)
  <2> DEFINE h == [pc |-> "idle"]
  <2>1. h \in Request
    BY DEF Request
  <2>2. req' = [req EXCEPT ![r] = h] /\ UNCHANGED <<period, values, ai, completed_by>>
    BY <1>4 DEF Refuse
  <2> HIDE DEF h
  <2> QED
    BY <2>1, <2>2, HandlerTypes
<1>5. CASE Explained(r)
  <2> DEFINE h == [req[r] EXCEPT !.pc = "explained"]
  <2>1. req[r].pc = "read" /\ req[r] \in Request
    BY <1>5 DEF Explained, TypeOK
  <2>2. req[r] \in [pc : {"read", "explained"}, period : Period, values : Rows, ai : AiValues]
    BY <2>1 DEF Request
  <2>3. h \in [pc : {"read", "explained"}, period : Period, values : Rows, ai : AiValues]
    BY <2>2
  <2>4. req' = [req EXCEPT ![r] = h] /\ UNCHANGED <<period, values, ai, completed_by>>
    BY <1>5 DEF Explained
  <2> HIDE DEF h
  <2>5. h \in Request
    BY <2>3 DEF Request
  <2> QED
    BY <2>4, <2>5, HandlerTypes
<1> QED
  BY <1>2, <1>3, <1>4, <1>5

\* What the forms of a save make of the rows seen.
LEMMA SavedValue ==
  ASSUME NEW v \in Value, NEW form \in Forms PROVE Saved(v, form) \in Value /\ Entered(form) \in Value
<1>1. form.x \in Scores \cup {NULL} /\ form.unmeasurable \in BOOLEAN /\ form.reason \in BOOLEAN
  BY DEF Forms
<1>2. Entered(form) \in Value
  BY <1>1 DEF Entered, Value
<1>3. [v EXCEPT !.unmeasurable = TRUE, !.reason = FALSE, !.carried_over = FALSE] \in Value
  BY DEF Value
<1> QED
  BY <1>2, <1>3 DEF Saved

LEMMA SaveTypes == ASSUME TypeOK, NEW r \in Requests, Save(r) PROVE TypeOK'
<1> DEFINE seen == req[r].values
           new(items, form) ==
             [p \in Pairs |-> [i \in DOMAIN seen[p] |->
               IF <<p, i>> \in items THEN Saved(seen[p][i], form[<<p, i>>]) ELSE seen[p][i]]]
<1>1. req[r].pc = "read" /\ req[r].period \in Period /\ seen \in Rows
  BY HandlerHas DEF Save, Editing
<1>2. [req[r].period EXCEPT !.status = "CALCULATED"] \in Period
  BY <1>1, PeriodCopies
<1>3. PICK items \in {S \in SUBSET RowIds(seen) : Cardinality(S) <= MaxItems} :
      \E form \in [items -> Forms], open \in Period : Commit(r, open, new(items, form))
  BY <1>1, <1>2 DEF Save
<1>4. PICK form \in [items -> Forms], open \in Period : Commit(r, open, new(items, form))
  BY <1>3
<1> DEFINE n == new(items, form)
<1>5. ASSUME NEW p \in Pairs PROVE n[p] \in Seq(Value) /\ Len(n[p]) = Len(seen[p])
  <2> DEFINE s == seen[p]
  <2>1. s \in Seq(Value) /\ DOMAIN s = 1 .. Len(s) /\ Len(s) \in Nat
    BY <1>1 DEF Rows
  <2>2. n[p] = [i \in DOMAIN s |-> IF <<p, i>> \in items THEN Saved(s[i], form[<<p, i>>]) ELSE s[i]]
    OBVIOUS
  <2> HIDE DEF n, s
  <2>3. \A i \in DOMAIN s : s[i] \in Value
    BY <2>1
  <2>4. \A i \in DOMAIN s : n[p][i] \in Value
    BY <2>2, <2>3, SavedValue
  <2>5. n[p] = [i \in 1 .. Len(s) |-> n[p][i]] /\ \A i \in 1 .. Len(s) : n[p][i] \in Value
    BY <2>1, <2>2, <2>4
  <2>6. n[p] \in [1 .. Len(s) -> Value]
    BY <2>5
  <2>7. n[p] \in Seq(Value) /\ Len(n[p]) = Len(s)
    BY <2>1, <2>6
  <2> QED
    BY <2>7 DEF s
<1>6. n \in More(seen)
  <2>1. n = [p \in Pairs |-> n[p]]
    OBVIOUS
  <2>2. \A p \in Pairs : Len(seen[p]) \in Nat
    BY <1>1 DEF Rows
  <2> HIDE DEF n, seen
  <2>3. n \in Rows
    BY <1>5, <2>1 DEF Rows
  <2> QED
    BY <1>5, <2>2, <2>3 DEF More
<1>7. Commit(r, open, n)
  BY <1>4
<1> HIDE DEF n
<1> QED
  BY <1>1, <1>6, <1>7, CommitTypes

LEMMA AddValueTypes == ASSUME TypeOK, NEW r \in Requests, AddValue(r) PROVE TypeOK'
<1> DEFINE seen == req[r].values
<1>1. req[r].pc = "read" /\ req[r].period \in Period /\ seen \in [Pairs -> Seq(Value)]
  BY HandlerHas DEF AddValue, Editing, Rows
<1>2. PICK p \in Pairs, form \in Forms :
        Len(seen[p]) <= 1 /\ Commit(r, req[r].period, [seen EXCEPT ![p] = <<Entered(form)>>])
  BY DEF AddValue
<1> DEFINE one == <<Entered(form)>>
           n == [seen EXCEPT ![p] = one]
<1>3. one \in Seq(Value) /\ Len(one) = 1
  BY SavedValue, EmptyValue
<1> HIDE DEF one
<1>4. n \in [Pairs -> Seq(Value)]
  BY <1>1, <1>3
<1>5. \A o \in Pairs : Len(seen[o]) <= Len(n[o])
  <2>1. \A o \in Pairs : Len(seen[o]) \in Nat /\ n[o] = IF o = p THEN one ELSE seen[o]
    BY <1>1
  <2> HIDE DEF n, seen
  <2>2. ASSUME NEW o \in Pairs PROVE Len(seen[o]) <= Len(n[o])
    <3>1. CASE o = p
      BY <1>2, <1>3, <2>1, <3>1
    <3>2. CASE o # p
      BY <2>1, <3>2
    <3> QED
      BY <3>1, <3>2
  <2> QED
    BY <2>2
<1>6. n \in More(seen)
  BY <1>4, <1>5 DEF More, Rows
<1>7. Commit(r, req[r].period, n)
  BY <1>2 DEF one
<1> HIDE DEF n
<1> QED
  BY <1>1, <1>6, <1>7, CommitTypes

LEMMA ImportTypes == ASSUME TypeOK, NEW r \in Requests, Import(r) PROVE TypeOK'
<1> DEFINE seen == req[r].values
           new(lines) == FoldLeft(LAMBDA rows, line : ImportLine(seen, rows, line), seen, lines)
           open == [req[r].period EXCEPT !.status = "CALCULATED"]
<1>1. req[r].pc = "read" /\ req[r].period \in Period /\ seen \in Rows
  BY HandlerHas, Zenon DEF Import, Editing
<1>2. open \in Period
  BY <1>1, PeriodCopies
<1>3. \E k \in 0 .. MaxItems : \E lines \in [1 .. k -> Lines] : Commit(r, open, new(lines))
  BY Zenon DEF Import
<1>4. \A k \in 0 .. MaxItems : \A lines \in [1 .. k -> Lines] : new(lines) \in More(seen)
  <2> SUFFICES ASSUME NEW k \in 0 .. MaxItems, NEW lines \in [1 .. k -> Lines]
               PROVE  new(lines) \in More(seen)
    OBVIOUS
  <2>1. k \in Nat
    BY BoundsAssumption
  <2> HIDE DEF seen
  <2> QED
    BY <1>1, <2>1, ImportKeeps
<1> HIDE DEF new, open, seen
<1>5. PICK k \in 0 .. MaxItems : \E lines \in [1 .. k -> Lines] : Commit(r, open, new(lines))
  BY <1>3
<1>6. PICK lines \in [1 .. k -> Lines] : Commit(r, open, new(lines))
  BY <1>5
<1>7. new(lines) \in More(seen)
  BY <1>4
<1> QED
  BY <1>1, <1>2, <1>6, <1>7, CommitTypes DEF seen

\* The copies a carry-over makes of the rows of an earlier period.
LEMMA CarryOverTypes == ASSUME TypeOK, NEW r \in Requests, CarryOver(r) PROVE TypeOK'
<1> DEFINE seen == req[r].values
           new(from, row) == [p \in Pairs |-> CarriedInto(seen[p], from[p], row[p])]
<1>1. req[r].pc = "read" /\ req[r].period \in Period /\ seen \in [Pairs -> Seq(Value)]
  BY HandlerHas DEF CarryOver, Editing, Rows
<1>2. PICK from \in [Pairs -> Source], row \in [Pairs -> 1 .. MaxRows] :
        /\ \A p \in Pairs : row[p] <= Len(seen[p]) \/ row[p] = 1
        /\ Commit(r, req[r].period, new(from, row))
  BY DEF CarryOver
<1> DEFINE n == new(from, row)
<1>3. ASSUME NEW p \in Pairs PROVE n[p] \in Seq(Value) /\ Len(seen[p]) <= Len(n[p])
  <2> DEFINE s == seen[p]
             v == [from[p] EXCEPT !.carried_over = TRUE]
  <2>1. s \in Seq(Value) /\ Len(s) \in Nat /\ row[p] \in Nat \ {0} /\ (row[p] <= Len(s) \/ row[p] = 1)
    BY <1>1, <1>2, BoundsAssumption
  <2>2. v \in Value
    <3>1. from[p] \in Value
      BY SourceAssumption
    <3> QED
      BY <3>1 DEF Value
  <2>3. n[p] = CarriedInto(s, from[p], row[p])
    OBVIOUS
  <2> HIDE DEF n, s, v
  <2>4. ASSUME s = <<>> PROVE n[p] \in Seq(Value) /\ Len(s) <= Len(n[p])
    <3>1. n[p] = <<>> \/ n[p] = <<v>>
      BY <2>3, <2>4 DEF CarriedInto, v
    <3>2. <<v>> \in Seq(Value) /\ Len(<<v>>) = 1 /\ <<>> \in Seq(Value) /\ Len(<<>>) = 0
      BY <2>2
    <3> DEFINE w == n[p]
               one == <<v>>
               none == <<>>
    <3>3. /\ (w = none \/ w = one) /\ one \in Seq(Value) /\ Len(one) = 1
          /\ s = none /\ none \in Seq(Value) /\ Len(none) = 0
      BY <2>4, <3>1, <3>2
    <3> HIDE DEF w, one, none
    <3>4. Len(s) = 0 /\ w \in Seq(Value) /\ (Len(w) = 0 \/ Len(w) = 1)
      BY <3>3
    <3>5. w \in Seq(Value) /\ Len(s) <= Len(w)
      BY <3>4
    <3> QED
      BY <3>5 DEF w
  <2>5. ASSUME s # <<>> PROVE n[p] \in Seq(Value) /\ Len(s) <= Len(n[p])
    <3>1. n[p] = s \/ n[p] = [s EXCEPT ![row[p]] = v]
      BY <2>3, <2>5 DEF CarriedInto, v
    <3>2. Len(s) >= 1
      BY <2>1, <2>5
    <3>3. row[p] \in 1 .. Len(s)
      BY <2>1, <3>2
    <3>4. [s EXCEPT ![row[p]] = v] \in Seq(Value) /\ Len([s EXCEPT ![row[p]] = v]) = Len(s)
      BY <2>1, <2>2, <3>3
    <3> DEFINE w == n[p]
               z == [s EXCEPT ![row[p]] = v]
    <3>5. (w = s \/ w = z) /\ z \in Seq(Value) /\ Len(z) = Len(s)
      BY <3>1, <3>4
    <3> HIDE DEF w, z
    <3>6. w \in Seq(Value) /\ Len(s) <= Len(w)
      BY <2>1, <3>5
    <3> QED
      BY <3>6 DEF w
  <2>6. n[p] \in Seq(Value) /\ Len(s) <= Len(n[p])
    BY <2>4, <2>5
  <2> QED
    BY <2>6 DEF s
<1>4. n \in More(seen)
  <2>1. n = [p \in Pairs |-> n[p]]
    OBVIOUS
  <2> HIDE DEF n, seen
  <2>2. n \in Rows
    BY <1>3, <2>1 DEF Rows
  <2> QED
    BY <1>3, <2>2 DEF More
<1>5. Commit(r, req[r].period, n)
  BY <1>2
<1> HIDE DEF n
<1> QED
  BY <1>1, <1>4, <1>5, CommitTypes

\* Steps that commit the period and no values of the quality contour.
LEMMA ClosingTypes ==
  ASSUME TypeOK, NEW r \in Requests,
         Finalize(r) \/ Reopen(r) \/ SetDepth(r) \/ SaveAi(r) \/ FinalizeAi(r)
  PROVE  TypeOK'
<1>1. /\ completed_by \in {"quality", "ai", NULL} /\ ai \in AiValues
      /\ req[r].pc # "idle" => req[r].period \in Period
  BY HandlerHas DEF TypeOK
<1>2. CASE Finalize(r)
  <2>1. /\ req[r].pc # "idle" /\ UNCHANGED <<values, ai>>
        /\ CommitPeriod(r, [req[r].period EXCEPT !.status = "COMPLETE"], "quality")
    BY <1>2 DEF Finalize
  <2> QED
    BY <1>1, <2>1, PeriodCopies, PeriodOnlyTypes
<1>3. CASE Reopen(r)
  <2>1. /\ req[r].pc # "idle" /\ UNCHANGED <<values, ai>>
        /\ CommitPeriod(r, [req[r].period EXCEPT !.status = "CALCULATED"], completed_by)
    BY <1>3 DEF Reopen
  <2> QED
    BY <1>1, <2>1, PeriodCopies, PeriodOnlyTypes
<1>4. CASE SetDepth(r)
  <2>1. /\ req[r].pc # "idle" /\ UNCHANGED <<values, ai>>
        /\ \E d \in Depths : CommitPeriod(r, [req[r].period EXCEPT !.depth = d], completed_by)
    BY <1>4 DEF SetDepth
  <2>2. PICK d \in Depths : CommitPeriod(r, [req[r].period EXCEPT !.depth = d], completed_by)
    BY <2>1
  <2>3. [req[r].period EXCEPT !.depth = d] \in Period
    BY <1>1, <2>1, PeriodCopies
  <2> QED
    BY <1>1, <2>1, <2>2, <2>3, PeriodOnlyTypes
<1>5. CASE SaveAi(r)
  <2>1. /\ req[r].pc # "idle" /\ UNCHANGED values /\ ai' \in {"gaps", "calculated"}
        /\ CommitPeriod(r, [req[r].period EXCEPT !.status = "CALCULATED"], completed_by)
    BY <1>5 DEF SaveAi
  <2>2. ai' \in AiValues
    BY <2>1 DEF AiValues
  <2> QED
    BY <1>1, <2>1, <2>2, PeriodCopies, PeriodOnlyTypes
<1>6. CASE FinalizeAi(r)
  <2>1. /\ req[r].pc # "idle" /\ UNCHANGED <<values, ai>>
        /\ CommitPeriod(r, [req[r].period EXCEPT !.status = "COMPLETE"], "ai")
    BY <1>6 DEF FinalizeAi
  <2> QED
    BY <1>1, <2>1, PeriodCopies, PeriodOnlyTypes
<1> QED
  BY <1>2, <1>3, <1>4, <1>5, <1>6

LEMMA TypeStarts == ASSUME Init PROVE TypeOK
<1>1. PICK S \in {{}, Missing} : values = [p \in Pairs |-> IF p \in S THEN <<>> ELSE <<Empty>>]
  BY DEF Init
<1>2. /\ <<Empty>> \in Seq(Value) /\ Len(<<Empty>>) = 1 /\ <<>> \in Seq(Value) /\ Len(<<>>) = 0
      /\ 1 <= MaxRows /\ 0 <= MaxRows
  BY EmptyValue, BoundsAssumption
<1>3. values \in Rows /\ \A p \in Pairs : Len(values[p]) <= MaxRows
  BY <1>1, <1>2 DEF Rows
<1>4. [pc |-> "idle"] \in Request
  BY DEF Request
<1> QED
  BY <1>3, <1>4 DEF Init, TypeOK, Period, AiValues

LEMMA TypeSteps == ASSUME TypeOK, [Next]_vars PROVE TypeOK'
<1>1. ASSUME NEW r \in Requests, Load(r) \/ Read(r) \/ Refuse(r) \/ Explained(r) PROVE TypeOK'
  BY <1>1, ReadingTypes
<1>2. ASSUME NEW r \in Requests, Save(r) \/ AddValue(r) \/ Import(r) \/ CarryOver(r) PROVE TypeOK'
  BY <1>2, SaveTypes, AddValueTypes, ImportTypes, CarryOverTypes
<1>3. ASSUME NEW r \in Requests,
             Finalize(r) \/ Reopen(r) \/ SetDepth(r) \/ SaveAi(r) \/ FinalizeAi(r)
      PROVE  TypeOK'
  BY <1>3, ClosingTypes
<1>4. CASE UNCHANGED vars
  BY <1>4 DEF vars, TypeOK
<1> QED
  BY <1>1, <1>2, <1>3, <1>4 DEF Next

(***************************************************************************)
(* However saves, imports, carry-overs and completions of several handlers *)
(* overlap, the period, the rows of every pair and what each handler holds *)
(* keep their shape (assessment/router.py, dataio/service.py).             *)
(***************************************************************************)
THEOREM AssessmentTypeCorrect == Spec => []TypeOK
BY TypeStarts, TypeSteps, PTL DEF Spec

-----------------------------------------------------------------------------
(***************************************************************************)
(* Rates.  The copies a fill will write back differ from what it loaded    *)
(* only in lines that were not settled when it loaded them.                *)
(***************************************************************************)
ByLine(S) == UNION {[P -> S] : P \in SUBSET RateLines}

FillTask ==
  [kind : {"fill"}, place : Places, refresh : BOOLEAN, left : Seq(RateLines), found : ByLine(Nat),
   loaded : ByLine(Rate), copies : ByLine(Rate), added : Seq(Rate)]

ChangeTask == [kind : {"change"}, id : Nat, loaded : Rate]

OnlyUnsettled(t) ==
  /\ DOMAIN t.found = DOMAIN t.loaded /\ DOMAIN t.copies = DOMAIN t.loaded
  /\ \A line \in DOMAIN t.loaded : t.copies[line] # t.loaded[line] => ~ Settled(t.loaded[line])

TaskFits(t) == t # NONE => t \in ChangeTask \/ (t \in FillTask /\ OnlyUnsettled(t))

RatesInv ==
  /\ RatesTypeOK
  /\ task = [u \in Users |-> task[u]]
  /\ \A u \in Users : TaskFits(task[u])

LEMMA FlushedRate ==
  ASSUME NEW row \in Rate, NEW loaded \in Rate, NEW new \in Rate
  PROVE  /\ Flush(row, loaded, new) \in Rate
         /\ new.amount = loaded.amount => Flush(row, loaded, new).amount = row.amount
BY DEF Flush, Rate

LEMMA BookRate ==
  ASSUME NEW place \in Places, NEW line \in RateLines, NEW amount \in Int
  PROVE  FromBook(place, line, amount) \in Rate
BY DEF FromBook, Rate

LEMMA WithTypicalFits ==
  ASSUME NEW t \in FillTask, OnlyUnsettled(t), NEW line \in RateLines, NEW amount \in Int
  PROVE  WithTypical(t, line, amount) \in FillTask /\ OnlyUnsettled(WithTypical(t, line, amount))
<1> DEFINE w == WithTypical(t, line, amount)
<1>1. /\ t.added \in Seq(Rate) /\ t.place \in Places
      /\ t.loaded \in ByLine(Rate) /\ t.copies \in ByLine(Rate)
  BY DEF FillTask
<1>2. CASE line \notin DOMAIN t.loaded
  <2> DEFINE added == Append(t.added, FromBook(t.place, line, amount))
  <2>1. w = [t EXCEPT !.added = added]
    BY <1>2 DEF WithTypical
  <2>2. added \in Seq(Rate)
    BY <1>1, BookRate
  <2> HIDE DEF w, added
  <2>3. w \in FillTask /\ w.found = t.found /\ w.loaded = t.loaded /\ w.copies = t.copies
    BY <2>1, <2>2 DEF FillTask
  <2> QED
    BY <2>3 DEF OnlyUnsettled, w
<1>3. CASE line \in DOMAIN t.loaded /\ ~ Refreshed(t, line)
  BY <1>3 DEF WithTypical
<1>4. CASE line \in DOMAIN t.loaded /\ Refreshed(t, line)
  <2> DEFINE copy == [t.copies[line] EXCEPT !.amount = amount]
             copies == [t.copies EXCEPT ![line] = copy]
  <2>1. w = [t EXCEPT !.copies = copies]
    BY <1>4 DEF WithTypical
  <2>2. line \in DOMAIN t.copies /\ ~ Settled(t.loaded[line])
    BY <1>4 DEF OnlyUnsettled, Refreshed
  <2>3. copy \in Rate
    <3>1. t.copies[line] \in Rate
      BY <1>1, <2>2 DEF ByLine
    <3> QED
      BY <3>1 DEF Rate
  <2> HIDE DEF copy
  <2>4. /\ copies \in ByLine(Rate) /\ DOMAIN copies = DOMAIN t.copies
        /\ \A l \in DOMAIN t.copies : l # line => copies[l] = t.copies[l]
    BY <1>1, <2>3 DEF ByLine
  <2> HIDE DEF w, copies
  <2>5. w \in FillTask /\ w.found = t.found /\ w.loaded = t.loaded /\ w.copies = copies
    BY <2>1, <2>4 DEF FillTask
  <2>6. OnlyUnsettled(w)
    BY <2>2, <2>4, <2>5 DEF OnlyUnsettled
  <2> QED
    BY <2>5, <2>6 DEF w
<1> QED
  BY <1>2, <1>3, <1>4

\* A row after a fill: only what was not settled when it was loaded has another amount.
LEMMA RefilledRow ==
  ASSUME rates \in Seq(Rate), NEW t \in FillTask, OnlyUnsettled(t), NEW i \in DOMAIN rates
  PROVE  /\ Refilled(t, i) \in Rate
         /\ Refilled(t, i).amount # rates[i].amount =>
              \E line \in DOMAIN t.found : t.found[line] = i /\ ~ Settled(t.loaded[line])
<1>1. rates[i] \in Rate
  OBVIOUS
<1>2. CASE ~ \E l \in DOMAIN t.found : t.found[l] = i
  <2>1. Refilled(t, i) = rates[i]
    BY <1>2 DEF Refilled
  <2> QED
    BY <1>1, <2>1
<1>3. CASE \E l \in DOMAIN t.found : t.found[l] = i
  <2> DEFINE line == CHOOSE l \in DOMAIN t.found : t.found[l] = i
  <2>1. line \in DOMAIN t.found /\ t.found[line] = i
    BY <1>3
  <2>2. Refilled(t, i) = Flush(rates[i], t.loaded[line], t.copies[line])
    BY <1>3 DEF Refilled
  <2> HIDE DEF line
  <2>3. t.loaded[line] \in Rate /\ t.copies[line] \in Rate
    <3>1. t.loaded \in ByLine(Rate) /\ t.copies \in ByLine(Rate)
      BY DEF FillTask
    <3> QED
      BY <2>1, <3>1 DEF ByLine, OnlyUnsettled
  <2>4. /\ Refilled(t, i) \in Rate
        /\ t.copies[line].amount = t.loaded[line].amount => Refilled(t, i).amount = rates[i].amount
    BY <1>1, <2>2, <2>3, FlushedRate
  <2>5. t.copies[line] # t.loaded[line] => ~ Settled(t.loaded[line])
    BY <2>1 DEF OnlyUnsettled
  <2> QED
    BY <2>1, <2>4, <2>5
<1> QED
  BY <1>2, <1>3

-----------------------------------------------------------------------------
LEMMA RatesStart == ASSUME RatesInit PROVE RatesInv
<1>1. rates \in Seq(Rate) /\ Len(rates) <= MaxRates
  <2>1. CASE rates = <<>>
    BY <2>1, RatesAssumption
  <2>2. CASE rates # <<>>
    <3>1. PICK p \in Places, l \in RateLines, b \in book, c \in BOOLEAN :
            rates = <<[FromBook(p, l, b.amount) EXCEPT !.confirmed = c]>>
      BY <2>2 DEF RatesInit
    <3>2. b.amount \in Int
      BY RatesAssumption DEF RatesInit
    <3>3. FromBook(p, l, b.amount) \in Rate
      BY <3>2, BookRate
    <3>4. [FromBook(p, l, b.amount) EXCEPT !.confirmed = c] \in Rate
      BY <3>3 DEF Rate
    <3>5. MaxRates \in Nat /\ 1 <= MaxRates
      BY RatesAssumption
    <3> QED
      BY <3>1, <3>4, <3>5
  <2> QED
    BY <2>1, <2>2
<1>2. /\ profile \in [size : Sizes \cup {NONE}, industry : Industries \cup {NONE}]
      /\ book \subseteq References /\ changes \in 0 .. MaxChanges
      /\ task = [u \in Users |-> NONE]
  BY RatesAssumption DEF RatesInit
<1> QED
  BY <1>1, <1>2 DEF RatesInv, RatesTypeOK, TaskFits

\* A step that only gives a request another task, or none.
LEMMA TaskStep ==
  ASSUME RatesInv, NEW u \in Users, NEW t, task' = [task EXCEPT ![u] = t], TaskFits(t),
         rates' \in Seq(Rate), Len(rates') <= MaxRates, profile' = profile, book' = book,
         changes' \in 0 .. MaxChanges
  PROVE  RatesInv'
<1>1. task' = [v \in Users |-> task'[v]] /\ \A v \in Users : TaskFits(task'[v])
  <2>1. task = [v \in Users |-> task[v]] /\ \A v \in Users : TaskFits(task[v])
    BY DEF RatesInv
  <2>2. task' = [v \in Users |-> task'[v]]
        /\ \A v \in Users : task'[v] = task[v] \/ task'[v] = t
    BY <2>1
  <2> QED
    BY <2>1, <2>2
<1>2. \A v \in Users : task'[v] # NONE => task'[v].kind \in {"fill", "change"}
  BY <1>1 DEF TaskFits, ChangeTask, FillTask
<1>3. profile' \in [size : Sizes \cup {NONE}, industry : Industries \cup {NONE}] /\ book' \subseteq References
  BY DEF RatesInv, RatesTypeOK
<1> QED
  BY <1>1, <1>2, <1>3 DEF RatesInv, RatesTypeOK

LEMMA FillReadKeeps ==
  ASSUME RatesInv, NEW u \in Users, NEW place \in Places, NEW refresh \in BOOLEAN,
         FillRead(u, place, refresh)
  PROVE  RatesInv'
<1> DEFINE of(line) == {i \in DOMAIN rates : rates[i].place = place /\ rates[i].line = line}
           present == {line \in RateLines : of(line) # {}}
<1>1. PICK found \in [present -> DOMAIN rates] :
        task' = [task EXCEPT ![u] =
               [kind |-> "fill", place |-> place, refresh |-> refresh, left |-> LINES,
                found |-> found, loaded |-> [line \in present |-> rates[found[line]]],
                copies |-> [line \in present |-> rates[found[line]]], added |-> <<>>]]
  BY DEF FillRead
<1> DEFINE rows == [line \in present |-> rates[found[line]]]
           t == [kind |-> "fill", place |-> place, refresh |-> refresh, left |-> LINES,
                 found |-> found, loaded |-> rows, copies |-> rows, added |-> <<>>]
<1>2. rates \in Seq(Rate) /\ Len(rates) <= MaxRates /\ changes \in 0 .. MaxChanges
  BY DEF RatesInv, RatesTypeOK
<1>3. present \in SUBSET RateLines
  OBVIOUS
<1> HIDE DEF present
<1>4. rows \in [present -> Rate] /\ found \in [present -> Nat]
  BY <1>2
<1> HIDE DEF rows
<1>5. t \in FillTask
  <2>1. rows \in ByLine(Rate) /\ found \in ByLine(Nat)
    BY <1>3, <1>4 DEF ByLine
  <2>2. LINES \in Seq(RateLines) /\ <<>> \in Seq(Rate)
    BY RatesAssumption
  <2> QED
    BY <2>1, <2>2 DEF FillTask
<1>6. OnlyUnsettled(t)
  BY <1>4 DEF OnlyUnsettled
<1>7. task' = [task EXCEPT ![u] = t]
  BY <1>1 DEF rows
<1> HIDE DEF t
<1>8. TaskFits(t) /\ rates' = rates /\ profile' = profile /\ book' = book /\ changes' = changes
  BY <1>5, <1>6 DEF TaskFits, FillRead
<1> QED
  BY <1>2, <1>7, <1>8, TaskStep

LEMMA FillLineKeeps ==
  ASSUME RatesInv, NEW u \in Users, FillLine(u)
  PROVE  RatesInv'
<1> DEFINE t == task[u]
           line == Head(t.left)
           next == [t EXCEPT !.left = Tail(t.left)]
<1>1. /\ t # NONE /\ t.kind = "fill" /\ t.left # <<>>
      /\ rates' = rates /\ profile' = profile /\ book' = book /\ changes' = changes
  BY DEF FillLine
<1>2. /\ rates \in Seq(Rate) /\ Len(rates) <= MaxRates /\ changes \in 0 .. MaxChanges
      /\ book \subseteq References
  BY DEF RatesInv, RatesTypeOK
<1>3. t \in FillTask /\ OnlyUnsettled(t)
  <2>1. TaskFits(t)
    BY DEF RatesInv
  <2> QED
    BY <1>1, <2>1 DEF TaskFits, ChangeTask
<1>4. line \in RateLines /\ Tail(t.left) \in Seq(RateLines)
  <2>1. t.left \in Seq(RateLines)
    BY <1>3 DEF FillTask
  <2> QED
    BY <1>1, <2>1
<1>5. next \in FillTask /\ OnlyUnsettled(next)
  <2> HIDE DEF t
  <2>1. next \in FillTask /\ next.found = t.found /\ next.loaded = t.loaded /\ next.copies = t.copies
    BY <1>3, <1>4 DEF FillTask
  <2> HIDE DEF next
  <2> QED
    BY <1>3, <2>1 DEF OnlyUnsettled
<1>6. \/ task' = [task EXCEPT ![u] = next]
      \/ \E b \in Typical(line) : task' = [task EXCEPT ![u] = WithTypical(next, line, b.amount)]
  BY Zenon DEF FillLine
<1> HIDE DEF next, line, t
<1>7. CASE task' = [task EXCEPT ![u] = next]
  <2>1. TaskFits(next)
    BY <1>5 DEF TaskFits
  <2> QED
    BY <1>1, <1>2, <1>7, <2>1, TaskStep
<1>8. CASE \E b \in Typical(line) : task' = [task EXCEPT ![u] = WithTypical(next, line, b.amount)]
  <2>1. PICK b \in Typical(line) : task' = [task EXCEPT ![u] = WithTypical(next, line, b.amount)]
    BY <1>8
  <2>2. b \in book
    BY DEF Typical
  <2>3. b.amount \in Int
    BY <1>2, <2>2, RatesAssumption
  <2>4. TaskFits(WithTypical(next, line, b.amount))
    BY <1>4, <1>5, <2>3, WithTypicalFits DEF TaskFits
  <2> QED
    BY <1>1, <1>2, <2>1, <2>4, TaskStep
<1> QED
  BY <1>6, <1>7, <1>8

LEMMA FillCommitKeeps ==
  ASSUME RatesInv, NEW u \in Users, FillCommit(u)
  PROVE  /\ RatesInv'
         /\ \A i \in DOMAIN rates : rates'[i].amount # rates[i].amount =>
              /\ task[u] # NONE /\ task'[u] = NONE /\ task[u].kind = "fill"
              /\ \E line \in DOMAIN task[u].found :
                   task[u].found[line] = i /\ ~ Settled(task[u].loaded[line])
<1> DEFINE t == task[u]
           rows == [i \in DOMAIN rates |-> Refilled(t, i)]
<1>1. /\ t # NONE /\ t.kind = "fill" /\ Len(rates) + Len(t.added) <= MaxRates
      /\ rates' = rows \o t.added /\ task' = [task EXCEPT ![u] = NONE]
      /\ profile' = profile /\ book' = book /\ changes' = changes
  BY DEF FillCommit
<1>2. /\ rates \in Seq(Rate) /\ changes \in 0 .. MaxChanges /\ task = [v \in Users |-> task[v]]
  BY DEF RatesInv, RatesTypeOK
<1>3. t \in FillTask /\ OnlyUnsettled(t)
  <2>1. TaskFits(t)
    BY DEF RatesInv
  <2> QED
    BY <1>1, <2>1 DEF TaskFits, ChangeTask
<1>4. t.added \in Seq(Rate)
  BY <1>3 DEF FillTask
<1>5. \A i \in DOMAIN rates : /\ Refilled(t, i) \in Rate
                              /\ Refilled(t, i).amount # rates[i].amount =>
                                   \E line \in DOMAIN t.found : t.found[line] = i /\ ~ Settled(t.loaded[line])
  BY <1>2, <1>3, RefilledRow
<1>6. task'[u] = NONE
  BY <1>1, <1>2
<1> HIDE DEF t
<1>7. rows \in Seq(Rate) /\ Len(rows) = Len(rates) /\ DOMAIN rows = DOMAIN rates
      /\ \A i \in DOMAIN rates : rows[i] = Refilled(t, i)
  BY <1>2, <1>5
<1> HIDE DEF rows
<1>8. /\ rates' \in Seq(Rate) /\ Len(rates') <= MaxRates
      /\ \A i \in DOMAIN rates : rates'[i] = rows[i]
  <2>1. /\ rows \o t.added \in Seq(Rate) /\ Len(rows \o t.added) = Len(rows) + Len(t.added)
        /\ \A i \in 1 .. Len(rows) : (rows \o t.added)[i] = rows[i]
    BY <1>4, <1>7
  <2>2. DOMAIN rates = 1 .. Len(rows)
    BY <1>2, <1>7
  <2> QED
    BY <1>1, <1>7, <2>1, <2>2
<1>9. RatesInv'
  <2>1. TaskFits(NONE)
    BY DEF TaskFits
  <2> QED
    BY <1>1, <1>2, <1>8, <2>1, TaskStep
<1>10. ASSUME NEW i \in DOMAIN rates, rates'[i].amount # rates[i].amount
       PROVE  \E line \in DOMAIN t.found : t.found[line] = i /\ ~ Settled(t.loaded[line])
  BY <1>5, <1>7, <1>8, <1>10
<1> QED
  BY <1>1, <1>6, <1>9, <1>10 DEF t

\* The end of a user's change of one rate.
LEMMA CommitRateKeeps ==
  ASSUME RatesInv, NEW u \in Users, NEW new \in Rate, CommitRate(u, new)
  PROVE  /\ RatesInv'
         /\ \A i \in DOMAIN rates : rates'[i] # rates[i] =>
              task[u] # NONE /\ task'[u] = NONE /\ task[u].kind = "change" /\ task[u].id = i
<1> DEFINE t == task[u]
           row == Flush(rates[t.id], t.loaded, new)
<1>1. /\ t # NONE /\ t.kind = "change" /\ rates' = [rates EXCEPT ![t.id] = row]
      /\ task' = [task EXCEPT ![u] = NONE]
      /\ profile' = profile /\ book' = book /\ changes' = changes
  BY DEF CommitRate
<1>2. /\ rates \in Seq(Rate) /\ Len(rates) <= MaxRates /\ changes \in 0 .. MaxChanges
      /\ task = [v \in Users |-> task[v]]
  BY DEF RatesInv, RatesTypeOK
<1>3. t \in ChangeTask
  <2>1. TaskFits(t)
    BY DEF RatesInv
  <2> QED
    BY <1>1, <2>1 DEF TaskFits, FillTask
<1>4. t.id \in DOMAIN rates => row \in Rate
  <2>1. t.loaded \in Rate
    BY <1>3 DEF ChangeTask
  <2>2. t.id \in DOMAIN rates => rates[t.id] \in Rate
    BY <1>2
  <2> QED
    BY <2>1, <2>2, FlushedRate
<1>5. task'[u] = NONE
  BY <1>1, <1>2
<1> HIDE DEF t, row
<1>6. /\ rates' \in Seq(Rate) /\ Len(rates') = Len(rates)
      /\ \A i \in DOMAIN rates : i # t.id => rates'[i] = rates[i]
  <2>1. DOMAIN rates = 1 .. Len(rates) /\ Len(rates) \in Nat /\ rates \in [1 .. Len(rates) -> Rate]
    BY <1>2
  <2>2. /\ rates' \in [1 .. Len(rates) -> Rate]
        /\ \A i \in DOMAIN rates : i # t.id => rates'[i] = rates[i]
    BY <1>1, <1>4, <2>1
  <2>3. rates' \in Seq(Rate) /\ Len(rates') = Len(rates)
    BY <2>1, <2>2
  <2> QED
    BY <2>2, <2>3
<1>7. RatesInv'
  <2>1. TaskFits(NONE) /\ Len(rates') <= MaxRates
    BY <1>2, <1>6 DEF TaskFits
  <2> QED
    BY <1>1, <1>2, <1>6, <2>1, TaskStep
<1> QED
  BY <1>1, <1>5, <1>6, <1>7 DEF t

LEMMA ChangedRate ==
  ASSUME RatesInv, NEW u \in Users, UpdateRate(u) \/ ConfirmRate(u)
  PROVE  \E new \in Rate : CommitRate(u, new)
<1> DEFINE t == task[u]
<1>1. t # NONE /\ t.kind = "change"
  BY DEF UpdateRate, ConfirmRate
<1>2. t.loaded \in Rate
  <2>1. TaskFits(t)
    BY DEF RatesInv
  <2> QED
    BY <1>1, <2>1 DEF TaskFits, FillTask, ChangeTask
<1>3. ASSUME NEW x \in Int, NEW line \in RateLines, NEW shown \in BOOLEAN
      PROVE  /\ [t.loaded EXCEPT !.amount = x, !.source = "MANUAL", !.confirmed = TRUE] \in Rate
             /\ [t.loaded EXCEPT !.amount = x] \in Rate /\ [t.loaded EXCEPT !.line = line] \in Rate
             /\ [t.loaded EXCEPT !.active = shown] \in Rate /\ [t.loaded EXCEPT !.confirmed = TRUE] \in Rate
  BY <1>2 DEF Rate
<1>4. CASE ConfirmRate(u)
  <2>1. CommitRate(u, [t.loaded EXCEPT !.confirmed = TRUE])
    BY <1>4 DEF ConfirmRate
  <2>2. [t.loaded EXCEPT !.confirmed = TRUE] \in Rate
    BY <1>2 DEF Rate
  <2> QED
    BY <2>1, <2>2
<1>5. CASE UpdateRate(u)
  <2>1. \/ \E x \in Amounts :
            \/ CommitRate(u, [t.loaded EXCEPT !.amount = x, !.source = "MANUAL", !.confirmed = TRUE])
            \/ CommitRate(u, [t.loaded EXCEPT !.amount = x])
        \/ \E line \in RateLines : CommitRate(u, [t.loaded EXCEPT !.line = line])
        \/ CommitRate(u, [t.loaded EXCEPT !.active = ~ t.loaded.active])
    BY <1>5 DEF UpdateRate
  <2>2. Amounts \subseteq Int /\ (~ t.loaded.active) \in BOOLEAN
    BY RatesAssumption
  <2> HIDE DEF t
  <2>3. CASE \E x \in Amounts :
            \/ CommitRate(u, [t.loaded EXCEPT !.amount = x, !.source = "MANUAL", !.confirmed = TRUE])
            \/ CommitRate(u, [t.loaded EXCEPT !.amount = x])
    <3>1. PICK x \in Amounts :
            \/ CommitRate(u, [t.loaded EXCEPT !.amount = x, !.source = "MANUAL", !.confirmed = TRUE])
            \/ CommitRate(u, [t.loaded EXCEPT !.amount = x])
      BY <2>3
    <3>2. /\ [t.loaded EXCEPT !.amount = x, !.source = "MANUAL", !.confirmed = TRUE] \in Rate
          /\ [t.loaded EXCEPT !.amount = x] \in Rate
      BY <1>2, <2>2 DEF Rate
    <3> QED
      BY <3>1, <3>2
  <2>4. CASE \E line \in RateLines : CommitRate(u, [t.loaded EXCEPT !.line = line])
    <3>1. PICK line \in RateLines : CommitRate(u, [t.loaded EXCEPT !.line = line])
      BY <2>4
    <3>2. [t.loaded EXCEPT !.line = line] \in Rate
      BY <1>2 DEF Rate
    <3> QED
      BY <3>1, <3>2
  <2>5. CASE CommitRate(u, [t.loaded EXCEPT !.active = ~ t.loaded.active])
    <3>1. [t.loaded EXCEPT !.active = ~ t.loaded.active] \in Rate
      BY <1>2, <2>2 DEF Rate
    <3> QED
      BY <2>5, <3>1
  <2> QED
    BY <2>1, <2>3, <2>4, <2>5
<1> QED
  BY <1>4, <1>5

LEMMA OpenRateKeeps ==
  ASSUME RatesInv, NEW u \in Users, NEW i \in DOMAIN rates, OpenRate(u, i)
  PROVE  RatesInv'
<1> DEFINE t == [kind |-> "change", id |-> i, loaded |-> rates[i]]
<1>1. /\ task' = [task EXCEPT ![u] = t] /\ rates' = rates /\ profile' = profile /\ book' = book
      /\ changes < MaxChanges /\ changes' = changes + 1
  BY DEF OpenRate, Change
<1>2. rates \in Seq(Rate) /\ Len(rates) <= MaxRates /\ changes \in 0 .. MaxChanges
  BY DEF RatesInv, RatesTypeOK
<1>3. t \in ChangeTask
  <2>1. i \in Nat /\ rates[i] \in Rate
    BY <1>2
  <2> QED
    BY <2>1 DEF ChangeTask
<1>4. changes' \in 0 .. MaxChanges
  BY <1>1, <1>2, RatesAssumption
<1> HIDE DEF t
<1>5. TaskFits(t)
  BY <1>3 DEF TaskFits
<1> QED
  BY <1>1, <1>2, <1>4, <1>5, TaskStep

LEMMA TaskDiesKeeps ==
  ASSUME RatesInv, NEW u \in Users, TaskDies(u)
  PROVE  RatesInv'
<1>1. /\ task' = [task EXCEPT ![u] = NONE] /\ rates' = rates /\ profile' = profile /\ book' = book
      /\ changes' = changes /\ TaskFits(NONE)
  BY DEF TaskDies, TaskFits
<1>2. rates \in Seq(Rate) /\ Len(rates) <= MaxRates /\ changes \in 0 .. MaxChanges
  BY DEF RatesInv, RatesTypeOK
<1> QED
  BY <1>1, <1>2, TaskStep

\* The steps that are no step of a request in flight.
LEMMA OtherChangesKeep ==
  ASSUME RatesInv, task' = task, changes < MaxChanges, changes' = changes + 1,
         rates' \in Seq(Rate), Len(rates') <= MaxRates,
         profile' \in [size : Sizes \cup {NONE}, industry : Industries \cup {NONE}],
         book' \subseteq References
  PROVE  RatesInv'
<1>1. changes' \in 0 .. MaxChanges
  BY RatesAssumption DEF RatesInv, RatesTypeOK
<1> QED
  BY <1>1 DEF RatesInv, RatesTypeOK

LEMMA CreateRateKeeps ==
  ASSUME RatesInv, NEW place \in Places, NEW line \in RateLines, NEW x \in Amounts,
         CreateRate(place, line, x)
  PROVE  RatesInv' /\ \A i \in DOMAIN rates : rates'[i] = rates[i]
<1> DEFINE row == [place |-> place, line |-> line, amount |-> x, source |-> "MANUAL",
                   confirmed |-> FALSE, active |-> TRUE]
<1>1. /\ Len(rates) < MaxRates /\ rates' = Append(rates, row) /\ changes < MaxChanges
      /\ changes' = changes + 1 /\ profile' = profile /\ book' = book /\ task' = task
  BY DEF CreateRate, Change
<1>2. row \in Rate
  BY RatesAssumption DEF Rate
<1>3. /\ rates \in Seq(Rate) /\ book \subseteq References
      /\ profile \in [size : Sizes \cup {NONE}, industry : Industries \cup {NONE}]
  BY DEF RatesInv, RatesTypeOK
<1> HIDE DEF row
<1>4. /\ rates' \in Seq(Rate) /\ Len(rates') <= MaxRates
      /\ \A i \in DOMAIN rates : rates'[i] = rates[i]
  <2>1. Len(rates') = Len(rates) + 1 /\ rates' \in Seq(Rate) /\ Len(rates) \in Nat
        /\ \A i \in DOMAIN rates : rates'[i] = rates[i]
    BY <1>1, <1>2, <1>3
  <2> QED
    BY <1>1, <2>1, RatesAssumption
<1> QED
  BY <1>1, <1>3, <1>4, OtherChangesKeep

\* What a step does to a rate that was settled.
Spared ==
  \A i \in DOMAIN rates :
    Settled(rates[i]) /\ rates'[i].amount # rates[i].amount =>
      \E u \in Users :
        /\ task[u] # NONE /\ task'[u] = NONE
        /\ \/ task[u].kind = "change" /\ task[u].id = i
           \/ task[u].kind = "fill" /\ \E line \in DOMAIN task[u].found :
                task[u].found[line] = i /\ ~ Settled(task[u].loaded[line])

LEMMA RatesSteps == ASSUME RatesInv, RatesNext PROVE RatesInv' /\ Spared
<1>1. ASSUME rates' = rates PROVE Spared
  BY <1>1 DEF Spared
<1>2. ASSUME NEW u \in Users, NEW place \in Places, NEW refresh \in BOOLEAN, FillRead(u, place, refresh)
      PROVE  RatesInv' /\ Spared
  BY <1>1, <1>2, FillReadKeeps DEF FillRead
<1>3. ASSUME NEW u \in Users, FillLine(u) PROVE RatesInv' /\ Spared
  BY <1>1, <1>3, FillLineKeeps DEF FillLine
<1>4. ASSUME NEW u \in Users, FillCommit(u) PROVE RatesInv' /\ Spared
  <2>1. /\ RatesInv'
        /\ \A i \in DOMAIN rates : rates'[i].amount # rates[i].amount =>
              /\ task[u] # NONE /\ task'[u] = NONE /\ task[u].kind = "fill"
              /\ \E line \in DOMAIN task[u].found :
                   task[u].found[line] = i /\ ~ Settled(task[u].loaded[line])
    BY <1>4, FillCommitKeeps
  <2> QED
    BY <2>1, Zenon DEF Spared
<1>5. ASSUME NEW u \in Users, UpdateRate(u) \/ ConfirmRate(u) PROVE RatesInv' /\ Spared
  <2>1. PICK new \in Rate : CommitRate(u, new)
    BY <1>5, ChangedRate
  <2>2. /\ RatesInv'
        /\ \A i \in DOMAIN rates : rates'[i] # rates[i] =>
              task[u] # NONE /\ task'[u] = NONE /\ task[u].kind = "change" /\ task[u].id = i
    BY <2>1, CommitRateKeeps
  <2> QED
    BY <2>2, Zenon DEF Spared
<1>6. ASSUME NEW u \in Users, TaskDies(u) PROVE RatesInv' /\ Spared
  BY <1>1, <1>6, TaskDiesKeeps DEF TaskDies
<1>7. ASSUME NEW u \in Users, NEW i \in DOMAIN rates, OpenRate(u, i) PROVE RatesInv' /\ Spared
  BY <1>1, <1>7, OpenRateKeeps DEF OpenRate
<1>8. ASSUME NEW place \in Places, NEW line \in RateLines, NEW x \in Amounts, CreateRate(place, line, x)
      PROVE  RatesInv' /\ Spared
  <2>1. RatesInv' /\ \A i \in DOMAIN rates : rates'[i] = rates[i]
    BY <1>8, CreateRateKeeps
  <2> QED
    BY <2>1 DEF Spared
<1>9. /\ rates \in Seq(Rate) /\ Len(rates) <= MaxRates /\ book \subseteq References
      /\ profile \in [size : Sizes \cup {NONE}, industry : Industries \cup {NONE}]
  BY DEF RatesInv, RatesTypeOK
<1>10. ASSUME NEW size \in Sizes \cup {NONE}, NEW industry \in Industries \cup {NONE},
              SetProfile([size |-> size, industry |-> industry])
       PROVE  RatesInv' /\ Spared
  BY <1>1, <1>9, <1>10, OtherChangesKeep DEF SetProfile, Change
<1>11. ASSUME NEW b \in References, Enter(b) PROVE RatesInv' /\ Spared
  BY <1>1, <1>9, <1>11, OtherChangesKeep DEF Enter, Change
<1> QED
  BY <1>2, <1>3, <1>4, <1>5, <1>6, <1>7, <1>8, <1>10, <1>11 DEF RatesNext

LEMMA RatesStutters == ASSUME RatesInv, UNCHANGED rateVars PROVE RatesInv'
BY DEF RatesInv, RatesTypeOK, rateVars

LEMMA RatesInvariant == RatesSpec => []RatesInv
<1>1. RatesInit => RatesInv
  BY RatesStart
<1>2. RatesInv /\ [RatesNext]_rateVars => RatesInv'
  BY RatesSteps, RatesStutters
<1> QED
  BY <1>1, <1>2, PTL DEF RatesSpec

\* The rates, the profile and the reference book keep their shape (econ/service.py).
THEOREM RatesTypeCorrect == RatesSpec => []RatesTypeOK
<1>1. RatesInv => RatesTypeOK
  BY DEF RatesInv
<1> QED
  BY <1>1, RatesInvariant, PTL

(***************************************************************************)
(* A fill never touches a confirmed rate or one entered by hand, unless it *)
(* had read it before (fill_default_rates), whatever the profile, the book *)
(* and other requests do between its first line and its commit.            *)
(***************************************************************************)
THEOREM ConfirmedIsNotRefilledAlways == RatesSpec => ConfirmedIsNotRefilled
<1>1. RatesInv /\ [RatesNext]_rateVars => [Spared]_rateVars
  BY RatesSteps
<1>2. RatesSpec => [][Spared]_rateVars
  BY <1>1, RatesInvariant, PTL DEF RatesSpec
<1>3. [][Spared]_rateVars => ConfirmedIsNotRefilled
  BY PTL DEF Spared, ConfirmedIsNotRefilled
<1> QED
  BY <1>2, <1>3, PTL

-----------------------------------------------------------------------------
(***************************************************************************)
(* WeightVersions.  Requests that hold a version hold one that exists, the *)
(* one they edit being readable: what a step says of the request it moves. *)
(***************************************************************************)
RequestFits(r) ==
  /\ r.at \in {"edit", "score", "journal"} => r.old \in Ids
  /\ r.at = "edit" => r.kind = "save" /\ versions[r.old] \in Content
  /\ r.kind = "save" => r.edit \in Profiles \X Weights

\* Once there is a version that can be read, the history says what its weights ought to be.
WordKnown == (\E v \in Ids : versions[v] \in Content) => word \in Content

WeightsInv == WeightsTypeOK /\ WordKnown /\ LastWord

-----------------------------------------------------------------------------
(***************************************************************************)
(* Adding a version leaves the numbers and contents of the others.         *)
(***************************************************************************)
LEMMA Grown ==
  ASSUME WeightsTypeOK, NEW c \in Content, versions' = Append(versions, c)
  PROVE  /\ versions' \in Seq(Content \cup {LEGACY})
         /\ Len(versions') = Len(versions) + 1
         /\ Ids' = Ids \cup {Len(versions) + 1}
         /\ \A v \in Ids : versions'[v] = versions[v]
         /\ versions'[Len(versions) + 1] = c
         /\ Ids \subseteq Nat \ {0}
         /\ Len(versions) + 1 \notin Ids
         /\ Len(versions) + 1 \in Nat
<1> versions \in Seq(Content \cup {LEGACY})
  BY DEF WeightsTypeOK
<1>1. /\ versions' \in Seq(Content \cup {LEGACY})
      /\ Len(versions') = Len(versions) + 1
      /\ \A v \in 1 .. Len(versions) : versions'[v] = versions[v]
      /\ versions'[Len(versions) + 1] = c
      /\ Len(versions) \in Nat
  OBVIOUS
<1> QED
  BY <1>1 DEF Ids

(***************************************************************************)
(* Replacing a version by one that says the new word, whatever version was *)
(* read before: the heart of the matter.  If that leaves one active it is  *)
(* the new one.                                                            *)
(***************************************************************************)
LEMMA ReplaceSpeaks ==
  ASSUME WeightsInv, NEW old, NEW c \in Content, Replace(old, c),
         word' \in Content, active \subseteq {old} => c = word'
  PROVE  LastWord'
<1> DEFINE n == Len(versions) + 1
<1>1. /\ versions' = Append(versions, c)
      /\ active' = (active \ {old}) \cup {n}
  BY DEF Replace
<1>2. /\ Ids' = Ids \cup {n} /\ n \notin Ids /\ versions'[n] = c
  BY <1>1, Grown DEF WeightsInv
<1>3. active \subseteq Ids /\ (versions # <<>> => active # {})
  BY DEF WeightsInv, WeightsTypeOK, LastWord
<1>4. active' # {}
  BY <1>1
<1>5. ASSUME NEW v \in Ids', active' = {v}
      PROVE  versions'[v] = word'
  <2>1. v = n /\ active \subseteq {old}
    BY <1>1, <1>2, <1>3, <1>5
  <2> QED
    BY <1>2, <2>1
<1> QED
  BY <1>4, <1>5 DEF LastWord

-----------------------------------------------------------------------------
(***************************************************************************)
(* The steps that move one request and write nothing else.                 *)
(***************************************************************************)
LEMMA RequestMoves ==
  ASSUME WeightsInv, NEW w \in Callers, NEW r \in Call \cup {NONE},
         r # NONE => RequestFits(r),
         request' = [request EXCEPT ![w] = r],
         UNCHANGED <<versions, active, word>>,
         snapshots' \in Seq(Ids), journal' \subseteq Ids \cup {0}
  PROVE  WeightsInv'
<1>1. request' \in [Callers -> Call \cup {NONE}]
  BY DEF WeightsInv, WeightsTypeOK
<1>2. ASSUME NEW u \in Callers, request'[u] # NONE
      PROVE  RequestFits(request'[u])
  <2>1. request'[u] = IF u = w THEN r ELSE request[u]
    BY DEF WeightsInv, WeightsTypeOK
  <2> QED
    BY <1>2, <2>1 DEF WeightsInv, WeightsTypeOK, RequestFits
<1>3. Ids' = Ids
  BY DEF Ids
<1>4. WeightsTypeOK'
  BY <1>1, <1>2, <1>3 DEF WeightsInv, WeightsTypeOK, RequestFits
<1> QED
  BY <1>3, <1>4 DEF WeightsInv, WordKnown, LastWord

(***************************************************************************)
(* The steps that replace a version and move the request that did.         *)
(***************************************************************************)
LEMMA VersionReplaced ==
  ASSUME WeightsInv, NEW w \in Callers, NEW old, NEW c \in Content, NEW r,
         Replace(old, c), word' \in Content, active \subseteq {old} => c = word',
         r = NONE \/ /\ r \in Call /\ r.at \in {"edit", "score", "journal"}
                     /\ r.old = Len(versions) + 1
                     /\ r.at = "edit" => r.kind = "save"
                     /\ r.kind = "save" => r.edit \in Profiles \X Weights,
         request' = [request EXCEPT ![w] = r],
         UNCHANGED <<snapshots, journal>>
  PROVE  WeightsInv'
<1> DEFINE n == Len(versions) + 1
<1>0. versions' = Append(versions, c) /\ active' = (active \ {old}) \cup {n}
  BY DEF Replace
<1>1. /\ versions' \in Seq(Content \cup {LEGACY}) /\ versions'[n] = c
      /\ Ids' = Ids \cup {n} /\ \A v \in Ids : versions'[v] = versions[v]
  BY <1>0, Grown DEF WeightsInv
<1>2. request' \in [Callers -> Call \cup {NONE}]
  BY DEF WeightsInv, WeightsTypeOK
<1>3. ASSUME NEW u \in Callers, request'[u] # NONE
      PROVE  /\ request'[u].at \in {"edit", "score", "journal"} => request'[u].old \in Ids'
             /\ request'[u].at = "edit" =>
                  request'[u].kind = "save" /\ versions'[request'[u].old] \in Content
             /\ request'[u].kind = "save" => request'[u].edit \in Profiles \X Weights
  <2>1. CASE u = w
    <3>1. request'[u] = r
      BY <2>1 DEF WeightsInv, WeightsTypeOK
    <3> QED
      BY <1>1, <1>3, <3>1
  <2>2. CASE u # w
    <3>1. request'[u] = request[u]
      BY <2>2 DEF WeightsInv, WeightsTypeOK
    <3> QED
      BY <1>1, <1>3, <3>1 DEF WeightsInv, WeightsTypeOK
  <2> QED
    BY <2>1, <2>2
<1>4. snapshots' \in Seq(Ids')
  BY <1>1 DEF WeightsInv, WeightsTypeOK
<1>5. WeightsTypeOK'
  BY <1>0, <1>1, <1>2, <1>3, <1>4 DEF WeightsInv, WeightsTypeOK
<1>6. LastWord'
  BY ReplaceSpeaks
<1> QED
  BY <1>5, <1>6 DEF WeightsInv, WordKnown

-----------------------------------------------------------------------------
(***************************************************************************)
(* One lemma for every action.                                             *)
(***************************************************************************)
LEMMA AskKeeps ==
  ASSUME WeightsInv, NEW w \in Callers, NEW kind \in {"read", "save", "recompute"},
         NEW edit \in (Profiles \X Weights) \cup {NONE},
         kind = "save" => edit \in Profiles \X Weights,
         Ask(w, kind, edit)
  PROVE  WeightsInv'
<1> DEFINE fit(v) == IF kind = "recompute" THEN SameContent(v) ELSE ReadableVersion(v)
           at(v)  == IF ~ fit(v) THEN "publish" ELSE IF kind = "save" THEN "edit" ELSE "score"
           r(v)   == [kind |-> kind, edit |-> edit, at |-> at(v), old |-> v]
<1>1. PICK v \in Ids \cup {0} : request' = [request EXCEPT ![w] = r(v)]
  BY DEF Ask
<1>2. Ids \subseteq Nat \ {0}
  BY DEF Ids, WeightsInv, WeightsTypeOK
<1>3. at(v) \in {"publish", "edit", "score"}
  OBVIOUS
<1>4. r(v) \in Call
  BY <1>2, <1>3 DEF Call
<1>5. at(v) \in {"edit", "score"} => v \in Ids
  BY DEF SameContent, ReadableVersion
<1>6. at(v) = "edit" => kind = "save" /\ versions[v] \in Content
  <2>1. at(v) = "edit" => kind = "save" /\ v \in Ids /\ versions[v] # LEGACY
    BY DEF ReadableVersion
  <2> QED
    BY <2>1 DEF Ids, WeightsInv, WeightsTypeOK
<1>7. RequestFits(r(v))
  <2>1. r(v).at = at(v) /\ r(v).old = v /\ r(v).kind = kind /\ r(v).edit = edit
    OBVIOUS
  <2> HIDE DEF r, at
  <2> QED
    BY <1>3, <1>5, <1>6, <2>1 DEF RequestFits
<1>8. /\ UNCHANGED <<versions, active, word>>
      /\ snapshots' \in Seq(Ids) /\ journal' \subseteq Ids \cup {0}
  BY DEF Ask, WeightsInv, WeightsTypeOK
<1> HIDE DEF r, at
<1> QED
  BY <1>1, <1>4, <1>7, <1>8, RequestMoves

LEMMA PublishAskKeeps ==
  ASSUME WeightsInv, NEW w \in Callers, PublishAsk(w)
  PROVE  WeightsInv'
<1> DEFINE r(v) == [request[w] EXCEPT !.at = "write", !.old = v]
<1>1. request[w] \in Call /\ RequestFits(request[w])
  BY DEF PublishAsk, WeightsInv, WeightsTypeOK, RequestFits
<1>2. PICK v \in Ids \cup {0} : request' = [request EXCEPT ![w] = r(v)]
  BY <1>1 DEF PublishAsk, WeightsInv, WeightsTypeOK
<1>3. v \in Nat
  BY DEF Ids, WeightsInv, WeightsTypeOK
<1>4. r(v) \in Call /\ RequestFits(r(v))
  BY <1>1, <1>3 DEF Call, RequestFits
<1>5. /\ UNCHANGED <<versions, active, word>>
      /\ snapshots' \in Seq(Ids) /\ journal' \subseteq Ids \cup {0}
  BY DEF PublishAsk, WeightsInv, WeightsTypeOK
<1> HIDE DEF r
<1> QED
  BY <1>2, <1>4, <1>5, RequestMoves

LEMMA PublishWriteKeeps ==
  ASSUME WeightsInv, NEW w \in Callers, PublishWrite(w)
  PROVE  WeightsInv'
<1> DEFINE old  == request[w].old
           next == IF request[w].kind = "save" THEN "edit" ELSE "score"
           r    == IF request[w].kind = "read" THEN NONE
                   ELSE [request[w] EXCEPT !.at = next, !.old = Len(versions) + 1]
<1>1. request[w] \in Call
      /\ (request[w].kind = "save" => request[w].edit \in Profiles \X Weights)
  BY DEF PublishWrite, WeightsInv, WeightsTypeOK
<1>2. /\ Replace(old, FromCode) /\ word' = FromCode /\ FromCode \in Content
      /\ request' = [request EXCEPT ![w] = r] /\ UNCHANGED <<snapshots, journal>>
  BY WeightsAssumption DEF PublishWrite
<1>3. Len(versions) + 1 \in Nat
  BY DEF WeightsInv, WeightsTypeOK
<1>4. r = NONE \/ /\ r \in Call /\ r.at \in {"edit", "score", "journal"}
                  /\ r.old = Len(versions) + 1
                  /\ r.at = "edit" => r.kind = "save"
                  /\ r.kind = "save" => r.edit \in Profiles \X Weights
  <2>1. CASE request[w].kind = "read"
    BY <2>1
  <2>2. CASE request[w].kind # "read"
    BY <1>1, <1>3, <2>2 DEF Call
  <2> QED
    BY <2>1, <2>2
<1> HIDE DEF r, old
<1> QED
  BY <1>2, <1>4, VersionReplaced
LEMMA SaveWriteKeeps ==
  ASSUME WeightsInv, NEW w \in Callers, SaveWrite(w)
  PROVE  WeightsInv'
<1> DEFINE old == request[w].old
           p   == request[w].edit[1]
           x   == request[w].edit[2]
           c   == MergedSnapshot(old, p, x)
           r   == [request[w] EXCEPT !.at = "journal", !.old = Len(versions) + 1]
<1>1. /\ request[w] \in Call /\ request[w].kind = "save"
      /\ request[w].edit \in Profiles \X Weights
      /\ old \in Ids /\ versions[old] \in Content
  BY DEF SaveWrite, WeightsInv, WeightsTypeOK
<1>2. /\ Replace(old, c) /\ word' = [word EXCEPT ![p] = x]
      /\ request' = [request EXCEPT ![w] = r] /\ UNCHANGED <<snapshots, journal>>
  BY DEF SaveWrite, WeightsInv, WeightsTypeOK
<1>3. p \in Profiles /\ x \in Weights /\ word \in Content
  BY <1>1 DEF WeightsInv, WordKnown
<1>4. c \in Content /\ word' \in Content
  BY <1>1, <1>2, <1>3 DEF MergedSnapshot, Content
<1>5. ASSUME active \subseteq {old}
      PROVE  c = word'
  <2>1. versions # <<>>
    BY <1>1 DEF Ids
  <2>2. active = {old}
    BY <1>5, <2>1 DEF WeightsInv, LastWord
  <2>3. versions[old] = word
    BY <1>1, <2>2 DEF WeightsInv, LastWord
  <2> QED
    BY <1>2, <2>3 DEF MergedSnapshot
<1>6. Len(versions) + 1 \in Nat
  BY DEF WeightsInv, WeightsTypeOK
<1>7. /\ r \in Call /\ r.at = "journal" /\ r.old = Len(versions) + 1
      /\ r.edit \in Profiles \X Weights
  BY <1>1, <1>6 DEF Call
<1> HIDE DEF r, c, old
<1> QED
  BY <1>2, <1>4, <1>5, <1>7, VersionReplaced

LEMMA ScoreWriteKeeps ==
  ASSUME WeightsInv, NEW w \in Callers, ScoreWrite(w)
  PROVE  WeightsInv'
<1> DEFINE r == [request[w] EXCEPT !.at = "journal"]
<1>1. request[w] \in Call /\ RequestFits(request[w]) /\ request[w].old \in Ids
  BY DEF ScoreWrite, WeightsInv, WeightsTypeOK, RequestFits
<1>2. r \in Call /\ RequestFits(r)
  BY <1>1 DEF Call, RequestFits
<1>3. request' = [request EXCEPT ![w] = r]
  BY DEF ScoreWrite, WeightsInv, WeightsTypeOK
<1>4. snapshots' \in Seq(Ids)
  BY <1>1 DEF ScoreWrite, WeightsInv, WeightsTypeOK
<1>5. UNCHANGED <<versions, active, word>> /\ journal' \subseteq Ids \cup {0}
  BY DEF ScoreWrite, WeightsInv, WeightsTypeOK
<1> HIDE DEF r
<1> QED
  BY <1>2, <1>3, <1>4, <1>5, RequestMoves

LEMMA RequestEndsKeeps ==
  ASSUME WeightsInv, NEW w \in Callers, Journal(w) \/ RequestDies(w)
  PROVE  WeightsInv'
<1>1. request' = [request EXCEPT ![w] = NONE] /\ UNCHANGED <<versions, active, word, snapshots>>
  BY DEF Journal, RequestDies
<1>2. journal' \subseteq Ids \cup {0}
  BY DEF Journal, RequestDies, WeightsInv, WeightsTypeOK
<1>3. snapshots' \in Seq(Ids)
  BY <1>1 DEF WeightsInv, WeightsTypeOK
<1> QED
  BY <1>1, <1>2, <1>3, RequestMoves

-----------------------------------------------------------------------------
(***************************************************************************)
(* The two invariants hold of every behaviour.                             *)
(***************************************************************************)
LEMMA InvInitially ==
  WeightsInit => WeightsInv
<1> SUFFICES ASSUME WeightsInit
             PROVE  WeightsInv
  OBVIOUS
<1>1. /\ snapshots \in Seq(Ids) /\ journal \subseteq Ids \cup {0}
      /\ request \in [Callers -> Call \cup {NONE}]
      /\ \A w \in Callers : request[w] = NONE
  BY DEF WeightsInit
<1>2. CASE versions = <<>> /\ active = {} /\ word = NONE
  <2>1. Ids = {} /\ versions \in Seq(Content \cup {LEGACY})
    BY <1>2 DEF Ids
  <2> QED
    BY <1>1, <1>2, <2>1 DEF WeightsInv, WeightsTypeOK, WordKnown, LastWord
<1>3. CASE versions = <<LEGACY>> /\ active = {1} /\ word = LEGACY
  <2>1. Ids = {1} /\ versions \in Seq(Content \cup {LEGACY}) /\ versions[1] = LEGACY
    BY <1>3 DEF Ids
  <2> QED
    BY <1>1, <1>3, <2>1, WeightsAssumption DEF WeightsInv, WeightsTypeOK, WordKnown, LastWord
<1> QED
  BY <1>2, <1>3 DEF WeightsInit

LEMMA InvKept ==
  WeightsInv /\ [WeightsNext]_weightVars => WeightsInv'
<1> SUFFICES ASSUME WeightsInv, [WeightsNext]_weightVars
             PROVE  WeightsInv'
  OBVIOUS
<1>1. ASSUME NEW w \in Callers, Ask(w, "read", NONE) \/ Ask(w, "recompute", NONE)
      PROVE  WeightsInv'
  BY <1>1, AskKeeps
<1>2. ASSUME NEW w \in Callers, NEW edit \in Profiles \X Weights, Ask(w, "save", edit)
      PROVE  WeightsInv'
  BY <1>2, AskKeeps
<1>3. ASSUME NEW w \in Callers, PublishAsk(w) \/ PublishWrite(w) \/ SaveWrite(w)
      PROVE  WeightsInv'
  BY <1>3, PublishAskKeeps, PublishWriteKeeps, SaveWriteKeeps
<1>4. ASSUME NEW w \in Callers, ScoreWrite(w) \/ Journal(w) \/ RequestDies(w)
      PROVE  WeightsInv'
  BY <1>4, ScoreWriteKeeps, RequestEndsKeeps
<1>5. CASE UNCHANGED weightVars
  <2>1. Ids' = Ids
    BY <1>5 DEF weightVars, Ids
  <2> QED
    BY <1>5, <2>1 DEF weightVars, WeightsInv, WeightsTypeOK, WordKnown, LastWord
<1> QED
  BY <1>1, <1>2, <1>3, <1>4, <1>5 DEF WeightsNext

(***************************************************************************)
(* Every request holds a version that exists and, if it edits one, one     *)
(* that can be read: save_weight_edit cannot fail on an old version.       *)
(***************************************************************************)
THEOREM WeightsTypeCorrect == WeightsSpec => []WeightsTypeOK
<1>1. WeightsInv => WeightsTypeOK
  BY DEF WeightsInv
<1> QED
  BY <1>1, InvInitially, InvKept, PTL DEF WeightsSpec

(***************************************************************************)
(* However publications and edits cross, and wherever requests die: there  *)
(* is an active version once there was any, and if it is the only one it   *)
(* has every edit that was committed (weight_versions.save_weight_edit).   *)
(***************************************************************************)
THEOREM LastWordAlways == WeightsSpec => []LastWord
<1>1. WeightsInv => LastWord
  BY DEF WeightsInv
<1> QED
  BY <1>1, InvInitially, InvKept, PTL DEF WeightsSpec

-----------------------------------------------------------------------------
(***************************************************************************)
(* The registers together, as MCRegisters composes them: a step of one     *)
(* leaves the others alone, so a behaviour of the run is one of each of    *)
(* them, and what is proved of one holds in the run.                       *)
(***************************************************************************)
THEOREM RegistersImplementEach ==
  RegistersSpec => Spec /\ PanelSpec /\ RisksSpec /\ RatesSpec /\ WeightsSpec /\ DashboardsSpec
<1>1. RegistersInit => Init /\ PanelInit /\ RisksInit /\ RatesInit /\ WeightsInit /\ DashboardsInit
  BY DEF RegistersInit
<1>2. [RegistersNext]_registerVars => [Next]_vars
  BY DEF RegistersNext, registerVars
<1>3. [RegistersNext]_registerVars => [PanelNext]_panelVars
  BY DEF RegistersNext, registerVars, PanelNext
<1>4. [RegistersNext]_registerVars => [RisksNext]_riskVars
  BY DEF RegistersNext, registerVars
<1>5. [RegistersNext]_registerVars => [RatesNext]_rateVars
  BY DEF RegistersNext, registerVars
<1>6. [RegistersNext]_registerVars => [WeightsNext]_weightVars
  BY DEF RegistersNext, registerVars
<1>7. [RegistersNext]_registerVars => [DashboardsNext]_dashboardVars
  BY DEF RegistersNext, registerVars, DashboardsNext, JudgmentsNext, Judged
<1> QED
  BY <1>1, <1>2, <1>3, <1>4, <1>5, <1>6, <1>7, PTL
  DEF RegistersSpec, Spec, PanelSpec, RisksSpec, RatesSpec, WeightsSpec, DashboardsSpec

\* Whichever register a behaviour of the run is of, its state keeps its shape.
THEOREM RegistersTypeCorrect == RegistersSpec => []RegistersTypeOK
<1>1. TypeOK /\ PanelTypeOK /\ RisksTypeOK /\ RatesTypeOK /\ WeightsTypeOK /\ DashboardsTypeOK
      => RegistersTypeOK
  BY DEF RegistersTypeOK
<1> QED
  BY <1>1, RegistersImplementEach, AssessmentTypeCorrect, PanelTypeCorrect, RisksTypeCorrect,
     RatesTypeCorrect, WeightsTypeCorrect, DashboardsTypeCorrect, PTL

=============================================================================
