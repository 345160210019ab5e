----------------------------- MODULE Assessment -----------------------------
(***************************************************************************)
(* One assessment period and its values (modules/assessment, and the Excel *)
(* import of modules/dataio).  A period is filled in, completed (which     *)
(* needs every subcharacteristic its depth requires), locked, and reopened *)
(* for corrections.  The contour for AI systems (assessment/ai_router.py)  *)
(* has values of its own and the same period row.                          *)
(*                                                                         *)
(* A handler reads the period and checks its lock (Load), awaits queries   *)
(* for the values (Read), and commits what it changed in its copies.       *)
(***************************************************************************)
EXTENDS Naturals, Sequences, FiniteSets, SequencesExt, Orm

CONSTANTS
  Pairs,     \* (characteristic, subcharacteristic) of the quality model
  Depths,    \* FULL, PROFILE, SCREENING
  Required,  \* Required[d]: the pairs an assessment of depth d must fill
  Scores,    \* what X may come to when A and B are both there
  Missing,   \* pairs without a row at first, for the catalogue may lack them
  IsAi,      \* whether the system is marked as an AI one (system_kind)
  Source,    \* values of an earlier period of the same system
  Requests,  \* the slots of handlers
  MaxItems,  \* bound: items of one save, lines of one file
  MaxRows,   \* bound: rows of one pair
  Garbled,   \* a cell of the file that is not a number
  NULL

ASSUME DepthsAssumption == Required \in [Depths -> SUBSET Pairs]
ASSUME SystemAssumption == Missing \subseteq Pairs /\ IsAi \in BOOLEAN
ASSUME BoundsAssumption == MaxItems \in Nat /\ MaxRows \in Nat \ {0}
ASSUME NullAssumption ==
  /\ NULL \notin Scores /\ NULL \notin Depths /\ NULL \notin {"quality", "ai"}
  /\ Garbled \notin Scores /\ Garbled # NULL

(***************************************************************************)
(* A row of assessment_values.  x is calculated_x; val_a and val_b are not *)
(* kept, a handler's input is the X they come to (NULL when one of them is *)
(* missing).  reason: whether expert_comment is there.                     *)
(***************************************************************************)
Value == [x : Scores \cup {NULL}, unmeasurable : BOOLEAN, reason : BOOLEAN,
          carried_over : BOOLEAN]

ASSUME SourceAssumption == Source \subseteq Value

Period == [status : {"DRAFT", "CALCULATED", "COMPLETE"}, depth : Depths]

\* Rows by pair, in the order they were inserted.  Nothing makes a pair's row unique.
Rows == [Pairs -> Seq(Value)]

\* The values of the AI contour: none, some not calculated, or all calculated.
AiValues == {"none", "gaps", "calculated"}

VARIABLES
  period,       \* the row of assessment_periods
  values,       \* the rows of assessment_values of this period
  ai,           \* the rows of ai_assessment_values of this period
  req,          \* what each handler in flight has read
  completed_by  \* history: the contour that completed the period, while it is complete

vars == <<period, values, ai, req, completed_by>>

Request ==
       [pc : {"idle"}]
  \cup [pc : {"loaded"}, period : Period]
  \cup [pc : {"read", "explained"}, period : Period, values : Rows, ai : AiValues]

(***************************************************************************)
(* Type correctness, and the bound on the rows of a pair.                  *)
(***************************************************************************)
TypeOK ==
  /\ period \in Period
  /\ values \in Rows
  /\ \A p \in Pairs : Len(values[p]) <= MaxRows
  /\ ai \in AiValues
  /\ req \in [Requests -> Request]
  /\ completed_by \in {"quality", "ai", NULL}

-----------------------------------------------------------------------------
Empty == [x |-> NULL, unmeasurable |-> FALSE, reason |-> FALSE, carried_over |-> FALSE]

\* A row counts as filled when X is there or the pair cannot be measured.
IsFilled(v) == v.x # NULL \/ v.unmeasurable

Filled(rows) == {p \in Pairs : \E i \in DOMAIN rows[p] : IsFilled(rows[p][i])}

Unexplained(rows) ==
  {p \in Pairs : \E i \in DOMAIN rows[p] : rows[p][i].unmeasurable /\ ~rows[p][i].reason}

(***************************************************************************)
(* create_assessment_period: a row for every metric of the catalogue.      *)
(***************************************************************************)
Init ==
  /\ \E d \in Depths : period = [status |-> "DRAFT", depth |-> d]
  /\ \E S \in {{}, Missing} : values = [p \in Pairs |-> IF p \in S THEN <<>> ELSE <<Empty>>]
  /\ ai = "none"
  /\ req = [r \in Requests |-> [pc |-> "idle"]]
  /\ completed_by = NULL

-----------------------------------------------------------------------------
\* The period is read.
Load(r) ==
  /\ req[r].pc = "idle"
  /\ req' = [req EXCEPT ![r] = [pc |-> "loaded", period |-> period]]
  /\ UNCHANGED <<period, values, ai, completed_by>>

\* Its values are read.
Read(r) ==
  /\ req[r].pc = "loaded"
  /\ req' = [req EXCEPT ![r] =
       [pc |-> "read", period |-> req[r].period, values |-> values, ai |-> ai]]
  /\ UNCHANGED <<period, values, ai, completed_by>>

\* The handler refuses, or dies: its session is closed without a commit.
Refuse(r) ==
  /\ req[r].pc # "idle"
  /\ req' = [req EXCEPT ![r] = [pc |-> "idle"]]
  /\ UNCHANGED <<period, values, ai, completed_by>>

\* The commit of a copy `new` of the period, for the contour `by`.
CommitPeriod(r, new, by) ==
  /\ period' = Flush(period, req[r].period, new)
  /\ completed_by' = IF period'.status = "COMPLETE" THEN by ELSE NULL
  /\ req' = [req EXCEPT ![r] = [pc |-> "idle"]]

\* The rows of a pair after a session that loaded `seen` commits `new`.
StoredRows(rows, seen, new) ==
  [i \in DOMAIN rows |-> IF i \in DOMAIN seen THEN Flush(rows[i], seen[i], new[i]) ELSE rows[i]]
    \o SubSeq(new, Len(seen) + 1, Len(new))

\* The commit of copies of the period and its values.
Commit(r, newPeriod, newValues) ==
  /\ values' = [p \in Pairs |-> StoredRows(values[p], req[r].values[p], newValues[p])]
  /\ \A p \in Pairs : Len(values'[p]) <= MaxRows
  /\ CommitPeriod(r, newPeriod, completed_by)
  /\ UNCHANGED ai

is_period_locked(status) == status = "COMPLETE"

\* A handler that corrects values, which a completed period does not allow.
Editing(r) == req[r].pc = "read" /\ ~is_period_locked(req[r].period.status)

-----------------------------------------------------------------------------
\* What the form of one row says.
Forms ==
       [x : Scores \cup {NULL}, unmeasurable : {FALSE}, reason : BOOLEAN]
  \cup [x : {NULL}, unmeasurable : {TRUE}, reason : BOOLEAN]

NeedsReason(form) == form.unmeasurable /\ ~form.reason

\* What an accepted form leaves in its row: it has been assessed anew, not carried over.
Entered(form) ==
  [x |-> form.x, unmeasurable |-> form.unmeasurable, reason |-> form.reason,
   carried_over |-> FALSE]

(***************************************************************************)
(* A form of a save that gives no reason is refused, but comment, mark and *)
(* flag are changed before the check and committed with the rest.          *)
(***************************************************************************)
Saved(v, form) ==
  IF NeedsReason(form)
  THEN [v EXCEPT !.unmeasurable = TRUE, !.reason = FALSE, !.carried_over = FALSE]
  ELSE Entered(form)

RowIds(rows) == UNION {{p} \X DOMAIN rows[p] : p \in Pairs}

\* save_assessment_metrics: forms of some rows.
Save(r) ==
  LET seen == req[r].values IN
  /\ Editing(r)
  /\ \E items \in {S \in SUBSET RowIds(seen) : Cardinality(S) <= MaxItems} :
     \E form \in [items -> Forms] :
       LET accepted == {id \in items : ~NeedsReason(form[id])} IN
       Commit(r,
         IF accepted # {} THEN [req[r].period EXCEPT !.status = "CALCULATED"] ELSE req[r].period,
         [p \in Pairs |-> [i \in DOMAIN seen[p] |->
            IF <<p, i>> \in items THEN Saved(seen[p][i], form[<<p, i>>]) ELSE seen[p][i]]])

(***************************************************************************)
(* add_assessment_value: the row of one pair, which is inserted when there *)
(* is none; with more than one the query fails (scalar_one_or_none).  The  *)
(* status stays as it is.                                                  *)
(***************************************************************************)
AddValue(r) ==
  /\ Editing(r)
  /\ \E p \in Pairs, form \in Forms :
       /\ Len(req[r].values[p]) <= 1
       /\ ~NeedsReason(form)
       /\ Commit(r, req[r].period, [req[r].values EXCEPT ![p] = <<Entered(form)>>])

\* A line of a workbook: A and B as a score, and the comment.
Lines == [pair : Pairs, x : Scores \cup {NULL, Garbled}, reason : BOOLEAN]

(***************************************************************************)
(* What a line does to its row.  X is touched only when A and B are there; *)
(* the mark "cannot be measured" and the carried-over flag are not.        *)
(***************************************************************************)
Imported(v, line) ==
  IF line.x = Garbled THEN v
  ELSE [v EXCEPT !.reason = line.reason, !.x = IF line.x = NULL THEN v.x ELSE line.x]

(***************************************************************************)
(* A line on top of the lines before it.  The row is looked up in the      *)
(* database, where rows the file itself has added are not yet: a repeated  *)
(* line for a pair without a row adds another.  A row is added before its  *)
(* cells are parsed.  With more than one row the line is skipped.          *)
(***************************************************************************)
ImportLine(seen, rows, line) ==
  LET p == line.pair IN
  CASE Len(seen[p]) = 0 -> [rows EXCEPT ![p] = Append(@, Imported(Empty, line))]
    [] Len(seen[p]) = 1 -> [rows EXCEPT ![p] = <<Imported(@[1], line)>>]
    [] OTHER            -> rows

\* Mutant: the lock is not looked at.
ImportAnyPeriod(r) ==
  LET seen == req[r].values IN
  /\ req[r].pc = "read"
  /\ \E n \in 0 .. MaxItems : \E lines \in [1 .. n -> Lines] :
       Commit(r, [req[r].period EXCEPT !.status = "CALCULATED"],
         FoldLeft(LAMBDA rows, line : ImportLine(seen, rows, line), seen, lines))

\* import_assessment_excel: the period counts as calculated even if no line was good.
Import(r) ==
  LET seen == req[r].values IN
  /\ Editing(r)
  /\ \E n \in 0 .. MaxItems : \E lines \in [1 .. n -> Lines] :
       Commit(r, [req[r].period EXCEPT !.status = "CALCULATED"],
         FoldLeft(LAMBDA rows, line : ImportLine(seen, rows, line), seen, lines))

\* A value is carried over when there is one and the period has none of its own.
Carries(from, to) == IsFilled(from) /\ ~IsFilled(to)

\* The rows of a pair after a carry-over into the i-th of them.
CarriedInto(rows, from, i) ==
  IF rows = <<>>
  THEN IF Carries(from, Empty) THEN <<[from EXCEPT !.carried_over = TRUE]>> ELSE <<>>
  ELSE IF Carries(from, rows[i]) THEN [rows EXCEPT ![i] = [from EXCEPT !.carried_over = TRUE]]
                                 ELSE rows

(***************************************************************************)
(* carry_over, from any period of the same system.  The rows are put in a  *)
(* dictionary by metric: of two for one pair, either may be the one kept.  *)
(***************************************************************************)
CarryOver(r) ==
  /\ Editing(r)
  /\ \E from \in [Pairs -> Source], row \in [Pairs -> 1 .. MaxRows] :
       /\ \A p \in Pairs : row[p] <= Len(req[r].values[p]) \/ row[p] = 1
       /\ Commit(r, req[r].period,
            [p \in Pairs |-> CarriedInto(req[r].values[p], from[p], row[p])])

-----------------------------------------------------------------------------
\* Mutant: marks without a reason do not stop the completion.
ExplainedAnyway(r) ==
  /\ req[r].pc = "read"
  /\ Required[req[r].period.depth] \subseteq Filled(req[r].values)
  /\ req' = [req EXCEPT ![r].pc = "explained"]
  /\ UNCHANGED <<period, values, ai, completed_by>>

\* finalize_assessment, first half: the required pairs were filled when they
\* were counted, and a second query finds a reason for every mark.
Explained(r) ==
  /\ req[r].pc = "read"
  /\ Required[req[r].period.depth] \subseteq Filled(req[r].values)
  /\ Unexplained(values) = {}
  /\ req' = [req EXCEPT ![r].pc = "explained"]
  /\ UNCHANGED <<period, values, ai, completed_by>>

\* finalize_assessment, second half: the period is completed.
Finalize(r) ==
  /\ req[r].pc = "explained"
  /\ CommitPeriod(r, [req[r].period EXCEPT !.status = "COMPLETE"], "quality")
  /\ UNCHANGED <<values, ai>>

\* reopen_assessment.
Reopen(r) ==
  /\ req[r].pc = "loaded" /\ req[r].period.status = "COMPLETE"
  /\ CommitPeriod(r, [req[r].period EXCEPT !.status = "CALCULATED"], completed_by)
  /\ UNCHANGED <<values, ai>>

\* Mutant: the depth asked for is not looked at.
SetDepthUnchecked(r) ==
  /\ req[r].pc = "loaded" /\ req[r].period.status # "COMPLETE"
  /\ \E d \in Depths \cup {NULL} :
       CommitPeriod(r, [req[r].period EXCEPT !.depth = d], completed_by)
  /\ UNCHANGED <<values, ai>>

\* set_depth.
SetDepth(r) ==
  /\ req[r].pc = "loaded" /\ req[r].period.status # "COMPLETE"
  /\ \E d \in Depths : CommitPeriod(r, [req[r].period EXCEPT !.depth = d], completed_by)
  /\ UNCHANGED <<values, ai>>

\* save_ai_values: the lock is not looked at.
SaveAi(r) ==
  /\ IsAi /\ req[r].pc = "read"
  /\ ai' \in {"gaps", "calculated"}
  /\ CommitPeriod(r, [req[r].period EXCEPT !.status = "CALCULATED"], completed_by)
  /\ UNCHANGED values

\* finalize_ai_period: there are values of the AI contour, all of them calculated.
FinalizeAi(r) ==
  /\ IsAi /\ req[r].pc = "read" /\ req[r].ai = "calculated"
  /\ CommitPeriod(r, [req[r].period EXCEPT !.status = "COMPLETE"], "ai")
  /\ UNCHANGED <<values, ai>>

Next == \E r \in Requests :
  \/ Load(r) \/ Read(r) \/ Refuse(r)
  \/ Save(r) \/ AddValue(r) \/ Import(r) \/ CarryOver(r)
  \/ Explained(r) \/ Finalize(r) \/ Reopen(r) \/ SetDepth(r)
  \/ SaveAi(r) \/ FinalizeAi(r)

Spec == Init /\ [][Next]_vars

-----------------------------------------------------------------------------
(***************************************************************************)
(* A complete period has a value, or a mark with its reason, for every     *)
(* pair its depth requires (finalize_assessment: otherwise the assessment  *)
(* does not count).                                                        *)
(***************************************************************************)
CompleteIsComplete ==
  period.status = "COMPLETE" =>
    Required[period.depth] \subseteq Filled(values) /\ Unexplained(values) = {}

(***************************************************************************)
(* Whatever happened since the check of the contour that completed it, a   *)
(* complete period still passes that check: the quality contour's, or that *)
(* of the AI contour's own values.                                         *)
(***************************************************************************)
CompletedStillCounts ==
  /\ completed_by = "quality" => CompleteIsComplete
  /\ completed_by = "ai" => ai = "calculated"

(***************************************************************************)
(* The values and the depth of a complete period never change: whoever     *)
(* wants to correct them reopens the period first (PERIOD_LOCKED_MESSAGE). *)
(***************************************************************************)
CompleteIsLocked ==
  [][period.status = "COMPLETE" => values' = values /\ period'.depth = period.depth]_vars

=============================================================================
