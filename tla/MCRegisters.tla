----------------------------- MODULE MCRegisters -----------------------------
(***************************************************************************)
(* The instance for TLC of what people and imports fill and programs       *)
(* compute on: an assessment (MCAssessment, its handlers one after         *)
(* another), AiPanel, RiskEvents, Rates, WeightVersions and Dashboards.    *)
(* They share no variable, so a behaviour is of one of them, chosen in the *)
(* initial state (part), as in MCOverlaps.                                 *)
(***************************************************************************)
EXTENDS MCAssessment, AiPanel, RiskEvents, Rates, WeightVersions, Dashboards

CONSTANTS
  Parts,
  f1, f2, remedy, sec, rel, audit, crypto, fault, recount1, recount2,
  here, L1, L2, large, banking, u1, u2,
  q1, q2, q3, mean1, mean2, e1, e2, e3,   \* of AiPanel
  mission, business, file, edited1, w1, w2,
  s1, s2, m1, m2, ch1, ch2, other          \* of Dashboards

VARIABLE part

registerVars == <<part, vars, panelVars, riskVars, rateVars, weightVars, dashboardVars>>

-----------------------------------------------------------------------------
\* AiPanel: two subcharacteristics of one characteristic, one of another that weighs nothing.
MCSubs == {q1, q2, q3}
MCCharOf == [s \in MCSubs |-> IF s = q3 THEN mean2 ELSE mean1]
MCScaled == {q1, q3}
MCExperts == {e1, e2, e3}

\* Weights of two names, one perhaps, and of what is within one characteristic.
Split(a, b, n) == [k \in {a, b} |-> IF k = a THEN n ELSE 3 - n]
WithinOne(level) == [c \in {mean1, mean2} |-> IF c = mean1 THEN level ELSE NONE]

\* Of one level only; of both, and not of all there is; and one that is refused.
MCWeighings ==
  { [chars |-> Split(mean1, mean2, 3), subs |-> WithinOne(NONE)],
    [chars |-> Split(mean2, mean2, 3), subs |-> WithinOne(Split(q1, q2, 2))],
    [chars |-> NONE, subs |-> WithinOne(Split(q1, q2, 4))] }
MCBaseline == [at |-> 3, low |-> 3, high |-> 0]
MCBaselines == {MCBaseline}
MCCHI2 == <<3841, 5991>>

Scored(a, b, c) == [s \in MCSubs |-> IF s = q1 THEN a ELSE IF s = q2 THEN b ELSE c]

\* An order; and a tie that leaves a score out, or leaves it as it was.
MCCards == {Scored(6, 3, 0), Scored(3, 3, NONE)}

Form(s, metric, raw, baseline, unmeasurable) ==
  [of |-> s, metric |-> metric, raw |-> raw, baseline |-> baseline,
   unmeasurable |-> unmeasurable, reason |-> unmeasurable]

\* Computed and not, with and without a baseline, impossible to measure, an expert's after all.
MCValueForms ==
  { Form(q1, NONE, NONE, MCBaseline, FALSE), Form(q1, NONE, 3, NONE, FALSE),
    Form(q1, NONE, NONE, NONE, TRUE), Form(q2, NONE, 3, MCBaseline, FALSE),
    Form(q2, "EXPERT_SCALE", NONE, NONE, FALSE), Form(q3, NONE, 3, MCBaseline, FALSE),
    Form(q3, "RATIO", NONE, NONE, TRUE) }

-----------------------------------------------------------------------------
\* RiskEvents: two subcharacteristics of one characteristic, one of another.
MCFailures == {f1, f2}
MCSubchars == {<<sec, audit>>, <<sec, crypto>>, <<rel, fault>>}
MCRemedies == {remedy}

\* A failure that was resolved before it occurred costs less than nothing.
MCCosts == {-1, 2}
MCRecomputers == {recount1, recount2}

\* Neither failures nor recomputations are told apart.
MCSymmetry == Permutations(MCFailures) \cup Permutations(MCRecomputers)

-----------------------------------------------------------------------------
\* Rates: a record for anyone, one for the size, one for a line and the industry.
MCLines == <<L1, L2>>
Reference(line, size, industry, amount, on) ==
  [line |-> line, size |-> size, industry |-> industry, amount |-> amount, on |-> on]
MCReferences ==
  { Reference(NONE, NONE, NONE, 1, 0), Reference(NONE, large, NONE, 2, 0),
    Reference(L1, NONE, banking, 3, 1) }
MCSeeded == {Reference(NONE, NONE, NONE, 1, 0)}
MCUsers == {u1, u2}

-----------------------------------------------------------------------------
MCProfiles == {mission, business}
MCWeights == {file, edited1}
MCFromCode == [p \in MCProfiles |-> file]
MCCallers == {w1, w2}

-----------------------------------------------------------------------------
\* Dashboards: a system that weighs more, whose first metric weighs nothing; a year's turn.
MCSystems == {s1, s2}
MCMetrics == {m1, m2}
MCQuarters == {[q |-> 3, year |-> 1], [q |-> 4, year |-> 1], [q |-> 1, year |-> 2]}
MCCharacteristicOf == [s \in MCMetrics |-> IF s = m1 THEN ch1 ELSE ch2]
Filling(a, b) == [s \in MCMetrics |-> IF s = m1 THEN a ELSE b]
MCFillings == {Filling(40, EMPTY), Filling(UNMEASURABLE, 70)}
MCWeight == [x \in MCSystems |-> [s \in MCMetrics |-> IF x = s2 /\ s = m1 THEN 0 ELSE 3]]
MCImportance == [x \in MCSystems |-> IF x = s1 THEN 3 ELSE 1]
MCDecided == {[on |-> ch1, quarter |-> [q |-> 4, year |-> 1]]}

-----------------------------------------------------------------------------
\* The quarters judgments are written of: two of one system, the last of the other.
Judged(x) ==
  LET q == IF x = CHOOSE y \in Systems : TRUE THEN 4 ELSE 1
  IN {p \in Quarters : p.year = 2 \/ p.q = q}

\* The registers a behaviour is not of begin in one way only.
RegistersInit ==
  /\ part \in Parts /\ Init /\ PanelInit /\ RisksInit /\ RatesInit /\ WeightsInit
  /\ DashboardsInit
  /\ part # "assessment" => period.depth = "FULL" /\ \A p \in Pairs : values[p] # <<>>
  /\ part # "rates" => rates = <<>>
  /\ part # "weights" => versions = <<>>
  /\ part # "scores" => inUse = Systems

RegistersNext ==
  /\ UNCHANGED part
  /\ \/ part = "assessment" /\ Next /\ UNCHANGED <<panelVars, riskVars, rateVars, weightVars, dashboardVars>>
     \/ part = "panel" /\ ValuesNext /\ UNCHANGED <<vars, riskVars, rateVars, weightVars, dashboardVars>>
     \/ part = "conditions" /\ ConditionsNext /\ UNCHANGED <<vars, riskVars, rateVars, weightVars, dashboardVars>>
     \/ part = "risks" /\ RisksNext /\ UNCHANGED <<vars, panelVars, rateVars, weightVars, dashboardVars>>
     \/ part = "rates" /\ RatesNext /\ UNCHANGED <<vars, panelVars, riskVars, weightVars, dashboardVars>>
     \/ part = "weights" /\ WeightsNext /\ UNCHANGED <<vars, panelVars, riskVars, rateVars, dashboardVars>>
     \/ /\ \/ part = "scores" /\ ScoresNext
           \/ part = "judgments" /\ \E x \in Systems : JudgmentsNext(x, Judged(x))
        /\ UNCHANGED <<vars, panelVars, riskVars, rateVars, weightVars>>

RegistersSpec == RegistersInit /\ [][RegistersNext]_registerVars

\* The type invariant of the register the behaviour is of (the others do not move).
RegistersTypeOK ==
  /\ part = "assessment" => TypeOK
  /\ part \in {"panel", "conditions"} => PanelTypeOK
  /\ part = "risks" => RisksTypeOK
  /\ part = "rates" => RatesTypeOK
  /\ part = "weights" => WeightsTypeOK
  /\ part \in {"scores", "judgments"} => DashboardsTypeOK

=============================================================================
