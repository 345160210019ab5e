----------------------------- MODULE Dashboards -----------------------------
(***************************************************************************)
(* The figures two screens make of the assessments (assessment/router.py   *)
(* get_dashboard, reporting/router.py get_executive_dashboard), the effect *)
(* of measures read off the quarters of a system (system-dynamics), and    *)
(* the lists of professional judgments still to be written.                *)
(*                                                                         *)
(* The state is what the register holds: the values of each quarter of     *)
(* each system, and the judgments.  The screens are operators of it.  X is *)
(* in hundredths, as it is stored (Numeric(4, 2)): a whole percent.        *)
(***************************************************************************)
EXTENDS Absent, Integers, FiniteSets, FiniteSetsExt

CONSTANTS
  EMPTY,             \* a row without X, as a period is opened with
  UNMEASURABLE,      \* a row marked as impossible to measure
  Systems,           \* by their names, which the screens key by
  Quarters,          \* [q, year], the labels Qn-YYYY of the periods
  Metrics,           \* one of each subcharacteristic of the quality model
  CharacteristicOf,  \* CharacteristicOf[s]: the characteristic of s
  Fillings,          \* what the rows of a period are saved as
  Weight,            \* Weight[x][s]: the weight of s for a system x (combined_weights)
  Importance,        \* Importance[x]: the weight of the criticality class of x
  Decided,           \* measures: [on, quarter], the characteristic and when they were made
  OtherPairs,        \* pairs of no subcharacteristic a judgment may name all the same
  LISTED,            \* how many systems judgments_status tells of
  Limits,            \* the limits a request for the judgments to write may give
  MaxJudgments       \* bound

ASSUME DashboardsAssumption ==
  /\ IsFiniteSet(Systems) /\ IsFiniteSet(Metrics) /\ IsFiniteSet(OtherPairs)
  /\ IsFiniteSet(Quarters) /\ Quarters \subseteq [q : 1 .. 4, year : Nat]
  /\ Fillings \subseteq [Metrics -> (0 .. 100) \cup {EMPTY, UNMEASURABLE}]
  /\ \A m \in Decided : m.quarter \in [q : 1 .. 4, year : Nat]
  /\ EMPTY \notin Int /\ UNMEASURABLE \notin Int \cup {EMPTY}
  /\ NONE \notin [Metrics -> (0 .. 100) \cup {EMPTY, UNMEASURABLE}] /\ MaxJudgments \in Nat
  /\ LISTED \in Nat \ {0} /\ Limits \subseteq Int

X == 0 .. 100

VARIABLES
  scorebook,  \* scorebook[x][q]: the rows of the quarter, NONE while it is not opened
  inUse,      \* the systems registered as active: nothing blocks one later
  judged      \* the pairs of a quarter that have a judgment

dashboardVars == <<scorebook, inUse, judged>>

Sheet == [Metrics -> X \cup {EMPTY, UNMEASURABLE}]

Blank == [s \in Metrics |-> EMPTY]

DashboardsTypeOK ==
  /\ scorebook \in [Systems -> [Quarters -> Sheet \cup {NONE}]]
  /\ inUse \subseteq Systems
  /\ judged \subseteq Systems \X Quarters \X (Metrics \cup OtherPairs)
  /\ IsFiniteSet(judged) /\ Cardinality(judged) <= MaxJudgments

DashboardsInit ==
  /\ scorebook = [x \in Systems |-> [q \in Quarters |-> NONE]]
  /\ inUse \in SUBSET Systems /\ judged = {}

-----------------------------------------------------------------------------
\* create_assessment_period: a row for every metric of the catalogue, nothing in it yet.
OpenPeriod(x, q) ==
  /\ scorebook[x][q] = NONE
  /\ scorebook' = [scorebook EXCEPT ![x][q] = Blank]
  /\ UNCHANGED <<inUse, judged>>

\* save_assessment_metrics.
SaveSheet(x, q, sheet) ==
  /\ scorebook[x][q] \notin {NONE, sheet}
  /\ scorebook' = [scorebook EXCEPT ![x][q] = sheet]
  /\ UNCHANGED <<inUse, judged>>

\* save_judgments: any pair, of the model or not, in any period.
SaveJudgment(x, q, pair) ==
  /\ scorebook[x][q] # NONE /\ Cardinality(judged) < MaxJudgments
  /\ judged' = judged \cup {<<x, q, pair>>}
  /\ UNCHANGED <<scorebook, inUse>>

-----------------------------------------------------------------------------
(***************************************************************************)
(* Which quarters a screen reads.                                          *)
(***************************************************************************)

\* period_sort_key, one number.
PeriodKey(p) == p.year * 4 + p.q

Newest(P) == CHOOSE p \in P : \A o \in P : PeriodKey(o) <= PeriodKey(p)

Opened(x) == {q \in Quarters : scorebook[x][q] # NONE}

\* The quarters with a row that has X or is marked as impossible to measure.
Counted(x) == {q \in Opened(x) : \E s \in Metrics : scorebook[x][q][s] # EMPTY}

WithX(sheet) == {s \in Metrics : sheet[s] \in X}

\* Rounded to the nearest, a tie to the even one (round).
Rounded(n, d) ==
  LET whole == n \div d  rest == 2 * (n % d)
  IN IF rest > d \/ (rest = d /\ whole % 2 = 1) THEN whole + 1 ELSE whole

-----------------------------------------------------------------------------
(***************************************************************************)
(* quality/scoring.py, in ten-thousandths of a percent.                    *)
(***************************************************************************)

\* weighted_system_score: what is not measured falls out of both sums.
SystemScore(x, sheet) ==
  LET M      == WithX(sheet)
      weight == MapThenSumSet(LAMBDA s : Weight[x][s], M)
      sum    == MapThenSumSet(LAMBDA s : Weight[x][s] * sheet[s], M)
  IN IF weight = 0 THEN NONE ELSE Rounded(10000 * sum, weight)

\* portfolio_score of systems that have a score.
PortfolioScore(score, scored) ==
  IF scored = {} THEN NONE
  ELSE Rounded(MapThenSumSet(LAMBDA x : Importance[x] * score[x], scored),
               MapThenSumSet(LAMBDA x : Importance[x], scored))

\* The systems a change is told of: those with a score then and now.
Comparable(now, then) == {x \in Systems : now[x] # NONE /\ then[x] # NONE}

\* Shown to a tenth of a percent.
Shown(score) == IF score = NONE THEN NONE ELSE Rounded(score, 1000)

\* score_reading: the change is of the same systems by the same formula.
Delta(now, then) ==
  LET both == Comparable(now, then)
  IN IF both = {} THEN NONE
     ELSE Shown(PortfolioScore(now, both)) - Shown(PortfolioScore(then, both))

-----------------------------------------------------------------------------
(***************************************************************************)
(* The dashboard of the assessments: of each system the last quarter with  *)
(* something in it, and the last but one.                                  *)
(***************************************************************************)
ScoreOf(x, P) == IF P = {} THEN NONE ELSE SystemScore(x, scorebook[x][Newest(P)])

\* Mutant: a period counts as soon as it is opened.
SeenOpened(x) == IF x \in inUse THEN Opened(x) ELSE {}

Seen(x) == IF x \in inUse THEN Counted(x) ELSE {}

Present == [x \in Systems |-> ScoreOf(x, Seen(x))]

Past == [x \in Systems |->
  IF Seen(x) = {} THEN NONE ELSE ScoreOf(x, Seen(x) \ {Newest(Seen(x))})]

Dashboard ==
  [score |-> PortfolioScore(Present, {x \in Systems : Present[x] # NONE}),
   delta |-> Delta(Present, Past)]

\* Mutant: blocked systems as well.
ExecutiveQuartersOfAll(x) == Opened(x)

\* The executive one: of each system the last quarter that has rows.
ExecutiveQuarters(x) == IF x \in inUse THEN Opened(x) ELSE {}

ExecutiveScores == [x \in Systems |->
  IF ExecutiveQuarters(x) = {} THEN NONE
  ELSE SystemScore(x, scorebook[x][Newest(ExecutiveQuarters(x))])]

\* _executive_score_scale.
ExecutivePast == [x \in Systems |->
  LET P == ExecutiveQuarters(x)
  IN IF Cardinality(P) < 2 THEN NONE ELSE SystemScore(x, scorebook[x][Newest(P \ {Newest(P)})])]

Executive ==
  [score |-> PortfolioScore(ExecutiveScores, {x \in Systems : ExecutiveScores[x] # NONE}),
   delta |-> Delta(ExecutiveScores, ExecutivePast)]

-----------------------------------------------------------------------------
(***************************************************************************)
(* system-dynamics: the quarters with numbers, and the change of the       *)
(* characteristic a measure is about.                                      *)
(***************************************************************************)
Points(x) == {q \in Opened(x) : WithX(scorebook[x][q]) # {}}

\* The mean of a characteristic in a quarter, in tenths of a percent.
MeanOf(x, q, c) ==
  LET M == {s \in WithX(scorebook[x][q]) : CharacteristicOf[s] = c}
  IN IF M = {} THEN NONE ELSE Rounded(10 * MapThenSumSet(LAMBDA s : scorebook[x][q][s], M), Cardinality(M))

\* The quarters that began no later than the measure was made and have its characteristic.
Before(x, m) ==
  {q \in Points(x) : MeanOf(x, q, m.on) # NONE /\ PeriodKey(q) <= PeriodKey(m.quarter)}

\* The points after the last of them.
After(x, m) ==
  {q \in Points(x) : \A p \in Before(x, m) : PeriodKey(q) > PeriodKey(p)}

Earliest(P) == CHOOSE p \in P : \A o \in P : PeriodKey(p) <= PeriodKey(o)

\* _measure_effects: from the last of them to the next point, if that has the characteristic.
Effect(x, m) ==
  IF Before(x, m) = {} \/ After(x, m) = {} THEN NONE
  ELSE LET from == Newest(Before(x, m))
           to   == Earliest(After(x, m))
       IN IF MeanOf(x, to, m.on) = NONE THEN NONE
          ELSE [from |-> from, to |-> to, delta |-> MeanOf(x, to, m.on) - MeanOf(x, from, m.on)]

-----------------------------------------------------------------------------
(***************************************************************************)
(* The judgments still to be written, of the last quarter with an          *)
(* assessment of every system that is not deleted.  Two lists tell of      *)
(* them, each sorted and cut; as sets they are the first so many by the    *)
(* key of the sort, and of equals any may be left out.                     *)
(***************************************************************************)
Firsts(S, n, key) ==
  {L \in SUBSET S : /\ Cardinality(L) = IF Cardinality(S) < n THEN Cardinality(S) ELSE n
                    /\ \A r \in L, o \in S \ L : key[r] <= key[o]}

\* Of a system: the values without a judgment.
Pending(x) ==
  IF Counted(x) = {} THEN {}
  ELSE LET q == Newest(Counted(x))
       IN {s \in Metrics : scorebook[x][q][s] # EMPTY /\ <<x, q, s>> \notin judged}

PendingRows == {r \in Systems \X Metrics : r[2] \in Pending(r[1])}

\* score_pct: what is impossible to measure comes first.
ScoreOfRow(r) ==
  LET x == scorebook[r[1]][Newest(Counted(r[1]))][r[2]]
  IN IF x = UNMEASURABLE THEN -1 ELSE x

\* judgments_pending, of all systems: the worst first, so many of them, and one at least.
ToWrite(limit) ==
  Firsts(PendingRows, IF limit < 1 THEN 1 ELSE limit, [r \in PendingRows |-> ScoreOfRow(r)])

\* Mutant: whatever the judgment is about.
WrittenAny(x, q) == {p \in Metrics \cup OtherPairs : <<x, q, p>> \in judged}

Written(x, q) == {s \in Metrics : <<x, q, s>> \in judged}

\* How many judgments the last quarter of a system has.
FilledFor(x) == Cardinality(Written(x, Newest(Counted(x))))

\* The systems whose judgments are not all there ...
Incomplete == {x \in Systems : Counted(x) # {} /\ FilledFor(x) < Cardinality(Metrics)}

\* ... and judgments_status, which tells of those that lack the fewest.
ToldOf == Firsts(Incomplete, LISTED, [x \in Incomplete |-> 0 - FilledFor(x)])

-----------------------------------------------------------------------------
ScoresNext ==
  \E x \in Systems, q \in Quarters :
    OpenPeriod(x, q) \/ \E sheet \in Fillings : SaveSheet(x, q, sheet)

\* One system, whose judgments of some quarters are written.
JudgmentsNext(x, P) ==
  \E q \in P :
    \/ OpenPeriod(x, q) \/ \E sheet \in Fillings : SaveSheet(x, q, sheet)
    \/ \E pair \in Metrics \cup OtherPairs : SaveJudgment(x, q, pair)

DashboardsNext == ScoresNext \/ \E x \in Systems : JudgmentsNext(x, Quarters)

DashboardsSpec == DashboardsInit /\ [][DashboardsNext]_dashboardVars

-----------------------------------------------------------------------------
(***************************************************************************)
(* Only the last quarter of a system that says something makes the figure: *)
(* opening the next one, or correcting any before it, leaves the scores    *)
(* the dashboard shows where they were.                                    *)
(***************************************************************************)
LastQuarterSpeaks ==
  [][\A x \in Systems :
       (/\ \A y \in Systems \ {x} : scorebook'[y] = scorebook[y]
        /\ Counted(x) # {}
        /\ LET last == Newest(Counted(x))
           IN /\ scorebook'[x][last] = scorebook[x][last]
              /\ \A q \in Quarters : scorebook'[x][q] # scorebook[x][q] =>
                   PeriodKey(q) < PeriodKey(last) \/ scorebook'[x][q] \in {Blank, NONE})
       => Present' = Present]_dashboardVars

(***************************************************************************)
(* The two screens give a system the same score, unless the last quarter   *)
(* opened for it has nothing in it yet: then the executive one drops it    *)
(* (or gives it no change) while the other shows the quarter before.       *)
(***************************************************************************)
SameScoreOnceFilled ==
  /\ \A x \in Systems :
       (\E q \in Counted(x) : \A p \in Opened(x) : PeriodKey(p) <= PeriodKey(q))
         => ExecutiveScores[x] = Present[x]
  /\ (\A x \in inUse : Opened(x) = Counted(x)) => Executive = Dashboard

(***************************************************************************)
(* The effect of a measure is told from two quarters with the measure      *)
(* between them: the one it is counted from began no later than the        *)
(* measure was made, the other one after that, and nothing is left out     *)
(* between the two.                                                        *)
(***************************************************************************)
EffectStraddles ==
  \A x \in Systems, m \in Decided :
    LET e == Effect(x, m)
    IN e # NONE =>
         /\ PeriodKey(e.from) <= PeriodKey(m.quarter) /\ PeriodKey(m.quarter) < PeriodKey(e.to)
         /\ ~ \E q \in Points(x) :
                PeriodKey(e.from) < PeriodKey(q) /\ PeriodKey(q) < PeriodKey(e.to)

(***************************************************************************)
(* A system one of whose values is on the list of judgments to write is on *)
(* the list the quality manager is told of, whatever else was judged: or   *)
(* that list is full, of systems that have as many judgments or more.  So  *)
(* nothing is left to write when it is empty, however far the lists are    *)
(* cut.                                                                    *)
(***************************************************************************)
PendingIsListed ==
  \A limit \in Limits : \A rows \in ToWrite(limit), told \in ToldOf : \A r \in rows :
    \/ r[1] \in told
    \/ Cardinality(told) = LISTED /\ \A y \in told : FilledFor(r[1]) <= FilledFor(y)

(***************************************************************************)
(* What one screen shows the other does: of the scores and of the lists of *)
(* judgments still to be written.                                          *)
(***************************************************************************)
ScreensAgree == SameScoreOnceFilled /\ PendingIsListed

=============================================================================
