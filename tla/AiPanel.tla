------------------------------ MODULE AiPanel ------------------------------
(***************************************************************************)
(* The assessment of one AI system (assessment/ai_router.py,               *)
(* ai_e3_service.py, quality/ai_calculation.py, ai_e3.py): measured        *)
(* values, the scores of a group of experts, which become values when the  *)
(* group agrees, and the mean over two levels of weights.  Its handlers    *)
(* are taken one after another; what they refuse they roll back as a       *)
(* whole, so a list of items is one item after another.                    *)
(***************************************************************************)
EXTENDS Absent, Integers, FiniteSets, FiniteSetsExt, Folds

CONSTANTS
  Subs,          \* subcharacteristics of the model
  CharOf,        \* the characteristic of each
  Scaled,        \* those the catalogue gives the metric EXPERT_SCALE
  Experts,
  TOP,           \* what stands for 1.0 of a value and for 100 of a score
  Baselines,     \* baselines and tolerances
  ValueForms,         \* the forms that may be sent, each for one subcharacteristic; what the
                 \* inputs come to (raw) is NONE when nothing can be computed from them
  Cards,         \* the lists of scores an expert may send
  Weighings,     \* the weights that may be sent, of the characteristics and within each
  WHOLE,         \* what they must add up to
  CHI2           \* critical values of chi-square at 0.05, in thousandths, by degrees of freedom

\* A row of ai_assessment_values.
PanelValue ==
  [metric : {"EXPERT_SCALE", "RATIO"}, raw : (0 .. TOP) \cup {NONE}, x : (0 .. TOP) \cup {NONE},
   conformant : BOOLEAN \cup {NONE}, baseline : Baselines \cup {NONE},
   unmeasurable : BOOLEAN]

PanelCharacteristics == {CharOf[s] : s \in Subs}

\* No weights of a level are NONE; there may be weights of names that have no value.
Unweighted == [chars |-> NONE, subs |-> [c \in PanelCharacteristics |-> NONE]]

ASSUME PanelAssumption ==
  /\ TOP \in Nat \ {0} /\ IsFiniteSet(Subs) /\ IsFiniteSet(Experts)
  /\ NONE \notin Nat /\ NONE \notin PanelValue
  /\ ValueForms \subseteq [of : Subs, metric : {"EXPERT_SCALE", "RATIO", NONE}, raw : (0 .. TOP) \cup {NONE},
                     baseline : Baselines \cup {NONE}, unmeasurable : BOOLEAN, reason : BOOLEAN]
  /\ Cards \subseteq [Subs -> (0 .. TOP) \cup {NONE}]
  /\ Baselines \subseteq [at : 0 .. TOP, low : Nat, high : Nat]
  /\ \A w \in Weighings : \A level \in {w.chars} \cup {w.subs[c] : c \in PanelCharacteristics} :
       level # NONE => IsFiniteSet(DOMAIN level) /\ \A k \in DOMAIN level : level[k] \in Int
  /\ CHI2[1] = 3841 /\ CHI2[2] = 5991

VARIABLES
  stage,      \* the status of the period
  value,      \* ai_assessment_values: one row of a subcharacteristic (unique), or NONE
  score,      \* ai_expert_scores: one row of an expert and a subcharacteristic, or NONE
  weighing,   \* ai_weights: chars, and of each characteristic subs
  dataset,    \* a test data set: NONE, or whether its criterion of outliers is set
  parity      \* the factor of the environments: NONE or its status

panelVars == <<stage, value, score, weighing, dataset, parity>>

PanelTypeOK ==
  /\ stage \in {"DRAFT", "CALCULATED", "COMPLETE"}
  /\ value \in [Subs -> PanelValue \cup {NONE}]
  /\ score \in [Experts -> [Subs -> (0 .. TOP) \cup {NONE}]]
  /\ weighing \in Weighings \cup {Unweighted}
  /\ dataset \in BOOLEAN \cup {NONE}
  /\ parity \in {"MATCH", "ACCEPTABLE", "MISMATCH", NONE}

PanelInit ==
  /\ stage = "DRAFT" /\ value = [s \in Subs |-> NONE]
  /\ score = [e \in Experts |-> [s \in Subs |-> NONE]]
  /\ weighing = Unweighted /\ dataset = NONE /\ parity = NONE

-----------------------------------------------------------------------------
Clip(n) == IF n < 0 THEN 0 ELSE IF n > TOP THEN TOP ELSE n

(***************************************************************************)
(* normalize_to_baseline: X is whole at the baseline and falls to nothing  *)
(* at the tolerance of that side; no tolerance, no X.                      *)
(***************************************************************************)
Normalized(raw, b) ==
  IF b = NONE THEN [x |-> raw, conformant |-> NONE]
  ELSE LET off == raw - b.at
           tolerance == IF off > 0 THEN b.high ELSE b.low
           away == IF off > 0 THEN off ELSE 0 - off
       IN [x |-> IF off = 0 THEN TOP
                 ELSE IF tolerance = 0 THEN 0
                 ELSE Clip(TOP - (TOP * away) \div tolerance),
           conformant |-> away <= tolerance]

\* A row with a value in it; of one that could not be computed X is not known.
Measured(row, raw) ==
  IF raw = NONE THEN [row EXCEPT !.raw = NONE, !.x = NONE, !.conformant = NONE]
  ELSE LET n == Normalized(raw, row.baseline)
       IN [row EXCEPT !.raw = raw, !.x = n.x, !.conformant = n.conformant]

\* The metric of a form, or the one in the catalogue.
MetricOf(s, metric) ==
  IF metric # NONE THEN metric ELSE IF s \in Scaled THEN "EXPERT_SCALE" ELSE "RATIO"

\* save_ai_values, of one item; without a reason nothing is "impossible to measure".
SaveValue(form) ==
  LET row == [metric |-> MetricOf(form.of, form.metric), raw |-> NONE, x |-> NONE,
              conformant |-> NONE, baseline |-> form.baseline, unmeasurable |-> form.unmeasurable]
  IN /\ form.unmeasurable => form.reason
     /\ value' = [value EXCEPT ![form.of] =
          IF form.unmeasurable THEN row ELSE Measured(row, form.raw)]
     /\ stage' = "CALCULATED"
     /\ UNCHANGED <<score, weighing, dataset, parity>>

\* check_sum, of the weights of one level.
AddUp(level) == level # NONE => SumFunction(level) = WHOLE /\ \A k \in DOMAIN level : level[k] >= 0

\* save_ai_weights replaces those of both levels; an empty list leaves none.
SaveWeights(w) ==
  /\ AddUp(w.chars) /\ \A c \in PanelCharacteristics : AddUp(w.subs[c])
  /\ weighing' = w
  /\ UNCHANGED <<stage, value, score, dataset, parity>>

\* save_dataset, delete_dataset and check_outliers, which is what sets the
\* criterion; a form that has none wipes it.
EditDataset(criterion) ==
  /\ dataset' = criterion
  /\ UNCHANGED <<stage, value, score, weighing, parity>>

CheckOutliers ==
  /\ dataset # NONE /\ dataset' = TRUE
  /\ UNCHANGED <<stage, value, score, weighing, parity>>

\* save_parity: an acceptable difference is refused without a justification.
SaveParity(status, justified) ==
  /\ status = "ACCEPTABLE" => justified
  /\ parity' = status
  /\ UNCHANGED <<stage, value, score, weighing, dataset>>

\* save_expert_scores: an expert adds or changes scores of his own, and takes none back.
SaveScores(e, card) ==
  /\ score' = [score EXCEPT ![e] = [s \in Subs |-> IF card[s] = NONE THEN @[s] ELSE card[s]]]
  /\ UNCHANGED <<stage, value, weighing, dataset, parity>>

-----------------------------------------------------------------------------
(***************************************************************************)
(* kendall_w: the concordance of those who gave scores, over what all of   *)
(* them gave scores to.  Ranks are doubled, so that the mean rank of a tie *)
(* is whole.                                                               *)
(***************************************************************************)
Group == {e \in Experts : \E s \in Subs : score[e][s] # NONE}

Common == {s \in Subs : \A e \in Group : score[e][s] # NONE}

Tied(e, s) == Cardinality({o \in Common : score[e][o] = score[e][s]})

Rank(e, s) == 2 * Cardinality({o \in Common : score[e][o] > score[e][s]}) + Tied(e, s) + 1

\* How far the sum of ranks of s is from their mean, doubled.
Away(s) == SumFunction([e \in Group |-> Rank(e, s)]) - Cardinality(Group) * (Cardinality(Common) + 1)

\* Four times S, the squares of the distances of the sums of ranks from their mean.
Spread == SumFunction([s \in Common |-> Away(s) * Away(s)])

\* T of an expert: t^3 - t of each tie, t of whom are in it.
Ties(e) == SumFunction([s \in Common |-> Tied(e, s) * Tied(e, s) - 1])

\* Mutant: ties are not corrected for.
MostWithoutTies ==
  LET m == Cardinality(Group) n == Cardinality(Common)
  IN m * m * (n * n * n - n)

\* The denominator of W, corrected for ties.
Most ==
  LET m == Cardinality(Group) n == Cardinality(Common)
  IN m * m * (n * n * n - n) - m * SumFunction([e \in Group |-> Ties(e)])

\* W is 3 * Spread / Most, and 1 when everybody ties everything.
Consistent ==
  LET m == Cardinality(Group) n == Cardinality(Common)
      num == IF Most > 0 THEN 3 * Spread ELSE 1
      den == IF Most > 0 THEN Most ELSE 1
  IN /\ m >= 2 /\ n >= 2
     /\ 2 * num >= den
     /\ 1000 * m * (n - 1) * num > CHI2[n - 1] * den

\* The mean score of the group.
MeanScore(s) == SumFunction([e \in Group |-> score[e][s]]) \div Cardinality(Group)

\* The row apply_consensus writes to: an expert's, not one said to be impossible to measure.
Receives(s) ==
  IF value[s] = NONE THEN s \in Scaled
  ELSE value[s].metric = "EXPERT_SCALE" /\ ~ value[s].unmeasurable

\* apply_consensus
ApplyConsensus ==
  LET new == [metric |-> "EXPERT_SCALE", raw |-> NONE, x |-> NONE, conformant |-> NONE,
              baseline |-> NONE, unmeasurable |-> FALSE]
  IN /\ Consistent
     /\ value' = [s \in Subs |->
          IF s \in Common /\ Receives(s)
          THEN Measured(IF value[s] = NONE THEN new ELSE value[s], MeanScore(s))
          ELSE value[s]]
     /\ UNCHANGED <<stage, score, weighing, dataset, parity>>

-----------------------------------------------------------------------------
\* _weighted_mean, as a fraction: weights of what is there are scaled up to one.
Fraction(n, d) == [n |-> n, d |-> d]
Plus(a, b) == Fraction(a.n * b.d + b.n * a.d, a.d * b.d)
SumOfFractions(f) == FoldFunction(Plus, Fraction(0, 1), f)

\* Mutant: the weights of what is missing count as if its value were nothing.
WeightedMeanOfAll(of, weights) ==
  LET w(k) == IF weights = NONE THEN 1 ELSE IF k \in DOMAIN weights THEN weights[k] ELSE 0
      total == IF weights = NONE THEN Cardinality(DOMAIN of) ELSE WHOLE
  IN SumOfFractions([k \in DOMAIN of |-> Fraction(of[k].n * w(k), of[k].d * total)])

WeightedMean(of, weights) ==
  LET present == IF weights = NONE THEN {} ELSE {k \in DOMAIN of \cap DOMAIN weights : weights[k] > 0}
      w == IF present = {} THEN [k \in DOMAIN of |-> 1] ELSE [k \in present |-> weights[k]]
  IN SumOfFractions([k \in DOMAIN w |-> Fraction(of[k].n * w[k], of[k].d * SumFunction(w))])

Known == {s \in Subs : value[s] # NONE /\ value[s].x # NONE}

\* aggregate: the mean of a characteristic, and of the characteristics that have one.
Characteristic(c) ==
  WeightedMean([s \in {s \in Known : CharOf[s] = c} |-> Fraction(value[s].x, 1)], weighing.subs[c])

Quality == WeightedMean([c \in {CharOf[s] : s \in Known} |-> Characteristic(c)], weighing.chars)

-----------------------------------------------------------------------------
\* Mutant: it is enough that something has been measured.
CompletableIfKnown == Known # {}

\* finalize_ai_period: the rows there are make the set; each is computed or impossible to measure.
Completable ==
  /\ \E s \in Subs : value[s] # NONE
  /\ \A s \in Subs : value[s] # NONE => value[s].x # NONE \/ value[s].unmeasurable

\* The conditions of the tests are told and hold nothing up.
FinalizePanel ==
  /\ Completable /\ stage' = "COMPLETE"
  /\ UNCHANGED <<value, score, weighing, dataset, parity>>

\* What is measured, and by whom.
ValuesNext ==
  \/ \E form \in ValueForms : SaveValue(form)
  \/ \E w \in Weighings \cup {Unweighted} : SaveWeights(w)
  \/ \E e \in Experts, card \in Cards : SaveScores(e, card)
  \/ ApplyConsensus \/ FinalizePanel

\* Under what conditions.
ConditionsNext ==
  \/ \E criterion \in BOOLEAN \cup {NONE} : EditDataset(criterion)
  \/ CheckOutliers
  \/ \E status \in {"MATCH", "ACCEPTABLE", "MISMATCH"}, justified \in BOOLEAN :
       SaveParity(status, justified)

PanelNext == ValuesNext \/ ConditionsNext

PanelSpec == PanelInit /\ [][PanelNext]_panelVars

-----------------------------------------------------------------------------
(***************************************************************************)
(* A group as small as this is taken for one that agrees only if all of it *)
(* ranks everything alike, ties included (W is 1): a high W of a few may   *)
(* be chance, which is what the chi-square test is there for.              *)
(***************************************************************************)
AgreedAlike ==
  Cardinality(Group) <= 3 /\ Cardinality(Common) <= 3 =>
    (Consistent <=>
       /\ Cardinality(Group) = 3 /\ Cardinality(Common) = 3
       /\ \A e, f \in Group : \A s \in Common : Rank(e, s) = Rank(f, s))

(***************************************************************************)
(* Whatever is missing, and however the characteristics and what is within *)
(* each are weighted (by weights of what is missing, too), Q lies between  *)
(* the smallest and the largest X that was measured.                       *)
(***************************************************************************)
QualityWithin ==
  Known # {} =>
    \E low, high \in Known :
      value[low].x * Quality.d <= Quality.n /\ Quality.n <= value[high].x * Quality.d

(***************************************************************************)
(* A period is complete while every row of it has its X or is impossible   *)
(* to measure: whoever changes a row, the group of experts included,       *)
(* leaves it so or takes the status back.                                  *)
(***************************************************************************)
CompleteIsCalculated ==
  stage = "COMPLETE" =>
    /\ \E s \in Subs : value[s] # NONE
    /\ \A s \in Subs : value[s] # NONE => value[s].x # NONE \/ value[s].unmeasurable
=============================================================================
