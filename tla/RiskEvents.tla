----------------------------- MODULE RiskEvents -----------------------------
(***************************************************************************)
(* A risk event of the money register (risk/event_service.py): the links   *)
(* to failures, characteristics and measures, the annual loss expectancy   *)
(* recomputed from them, the mail when it rises over the risk appetite,    *)
(* and the money the heat map and the portfolio show.  A recomputation is  *)
(* a request in three steps: it reads, commits, and only then decides      *)
(* about the mail, on what it read before and what the row holds now.      *)
(***************************************************************************)
EXTENDS Absent, Orm, Integers, FiniteSetsExt

CONSTANTS
  Failures,          \* technical failures that may be linked
  Subchars,          \* pairs of a characteristic and a subcharacteristic
  Remedies,          \* measures that may be linked
  Done,              \* those of them that are approved and done
  Recomputers,
  Costs,             \* what a failure may cost, and an expert say it costs
  Appetites,
  SHARE,             \* a whole share: shares are counted in parts of it
  MaxRiskEdits       \* bound

\* The form of a risk takes no negative amount (UpdateRisk), the economics of a failure may come to one.
ASSUME RiskEventsAssumption ==
  /\ IsFiniteSet(Recomputers) /\ IsFiniteSet(Failures) /\ IsFiniteSet(Subchars) /\ IsFiniteSet(Remedies)
  /\ Done \subseteq Remedies
  /\ Costs \subseteq Int /\ Appetites \subseteq Int /\ SHARE \in Nat \ {0}

VARIABLES
  risk,        \* the row: ale, aro, expert, sle, appetite, active
  appetiteOfClass,   \* risk_appetite_by_class for the class of the risk's system
  cost,        \* cost_total of each failure
  linked,      \* risk_event_incidents
  chars,       \* risk_event_subchars
  shares,      \* risk_event_measures: the share a measure takes off (left out, it counts as 0), NONE if not linked
  recompute,   \* what each recomputation has read, and how far it is
  riskEdits,
  mails,       \* history: mails about the rise the risk is in
  unsure       \* history: recomputations crossed, one died, or the appetite moved, since that rise

riskVars == <<risk, appetiteOfClass, cost, linked, chars, shares, recompute, riskEdits, mails, unsure>>

Characteristics == {s[1] : s \in Subchars}

RiskRow ==
  [ale : Nat, aro : Nat \cup {NONE}, expert : BOOLEAN, sle : (Costs \cap Nat) \cup {NONE},
   appetite : Appetites \cup {NONE}, active : BOOLEAN]

\* What some of the failures cost, and what is known of it.
OfFailures(C) == UNION {[F -> C] : F \in SUBSET Failures}

Recomputation ==
  [at : {"rest"}] \cup [at : {"committed"}, prev : Nat]
    \cup [at : {"read"}, loaded : RiskRow, old : OfFailures(Costs \cup {NONE}),
          costs : OfFailures(Costs), prev : Nat]

RisksTypeOK ==
  /\ risk \in RiskRow /\ appetiteOfClass \in Appetites \cup {NONE}
  /\ recompute \in [Recomputers -> Recomputation]
  /\ cost \in [Failures -> Costs \cup {NONE}]
  /\ linked \subseteq Failures /\ chars \subseteq Subchars
  /\ shares \in [Remedies -> (0 .. SHARE) \cup {NONE}]
  /\ mails \in Nat /\ unsure \in BOOLEAN

\* A slot in which nothing is being recomputed.
Rest == [at |-> "rest"]

\* create_event: the loss is not computed yet, and counts as 0, which is no rise.
RisksInit ==
  /\ risk = [ale |-> 0, aro |-> NONE, expert |-> FALSE, sle |-> NONE, appetite |-> NONE, active |-> TRUE]
  /\ appetiteOfClass \in Appetites \cap Nat
  /\ cost = [f \in Failures |-> NONE]
  /\ linked = {} /\ chars = {} /\ shares = [m \in Remedies |-> NONE]
  /\ recompute = [r \in Recomputers |-> Rest]
  /\ riskEdits = 0 /\ mails = 0 /\ unsure = FALSE

-----------------------------------------------------------------------------
\* risk_appetite_of: the risk's own, else that of its system's class.
AppetiteOf(row, class) == IF row.appetite # NONE THEN row.appetite ELSE class

Above(row, class) == AppetiteOf(row, class) # NONE /\ row.ale > AppetiteOf(row, class)

Positive(c) == {f \in DOMAIN c : c[f] # NONE /\ c[f] > 0}

\* ARO: the expert's, if there is one, else the number of failures of the year.
Aro(row, failures) ==
  IF row.expert /\ row.aro # NONE THEN row.aro ELSE Cardinality(failures)

\* SLE: the mean cost of the failures that cost anything, else the expert's estimate.  ALE = ARO * SLE.
Ale(row, c) ==
  IF Positive(c) # {}
  THEN (Aro(row, DOMAIN c) * SumFunctionOnSet(c, Positive(c))) \div Cardinality(Positive(c))
  ELSE Aro(row, DOMAIN c) * (IF row.sle # NONE THEN row.sle ELSE 0)

Committed == {r \in Recomputers : recompute[r].at = "committed"}

\* recompute_ale: the row, the linked failures and their costs; a failure without a cost gets the engine's.
RecomputeRead(r) ==
  /\ recompute[r].at = "rest"
  /\ \E engine \in [linked -> Costs] :
       recompute' = [recompute EXCEPT ![r] =
         [at |-> "read", loaded |-> risk, old |-> [f \in linked |-> cost[f]],
          costs |-> [f \in linked |-> IF cost[f] # NONE THEN cost[f] ELSE engine[f]],
          prev |-> risk.ale]]
  /\ UNCHANGED <<risk, appetiteOfClass, cost, linked, chars, shares, riskEdits, mails, unsure>>

\* Mutant: the previous loss is taken after the new one has been assigned.
RecomputeCommitLatePrev(r) ==
  LET j == recompute[r]
      ale == Ale(j.loaded, j.costs)
  IN /\ j.at = "read"
     /\ risk' = [risk EXCEPT !.ale = ale]
     /\ recompute' = [recompute EXCEPT ![r] = [at |-> "committed", prev |-> ale]]
     /\ mails' = IF Above(risk', appetiteOfClass) THEN mails ELSE 0
     /\ unsure' = (Above(risk', appetiteOfClass) /\ (unsure \/ j.loaded.ale # risk.ale \/ Committed # {}))
     /\ UNCHANGED <<appetiteOfClass, cost, linked, chars, shares, riskEdits>>

RecomputeCommit(r) ==
  LET j == recompute[r]
      new == [j.loaded EXCEPT !.ale = Ale(j.loaded, j.costs),
                              !.aro = IF j.loaded.expert THEN @ ELSE Aro(j.loaded, DOMAIN j.costs)]
  IN /\ j.at = "read"
     /\ risk' = Flush(risk, j.loaded, new)
     /\ cost' = [f \in Failures |->
                   IF f \in DOMAIN j.costs /\ j.costs[f] # j.old[f] THEN j.costs[f] ELSE cost[f]]
     /\ recompute' = [recompute EXCEPT ![r] = [at |-> "committed", prev |-> j.prev]]
     /\ mails' = IF Above(risk', appetiteOfClass) THEN mails ELSE 0
     /\ unsure' = /\ Above(risk', appetiteOfClass)
                  /\ unsure \/ j.loaded.ale # risk.ale \/ Committed # {}
     /\ UNCHANGED <<appetiteOfClass, linked, chars, shares, riskEdits>>

\* Whether the mail of a committed recomputation is due now: the row has been read again.
Due(j) == ~ Above([risk EXCEPT !.ale = j.prev], appetiteOfClass) /\ Above(risk, appetiteOfClass)

\* _notify_threshold_crossed: a mail only for a rise over the appetite.
RecomputeNotify(r) ==
  /\ r \in Committed
  /\ mails' = IF Above(risk, appetiteOfClass) /\ Due(recompute[r]) THEN mails + 1 ELSE mails
  /\ recompute' = [recompute EXCEPT ![r] = Rest]
  /\ UNCHANGED <<risk, appetiteOfClass, cost, linked, chars, shares, riskEdits, unsure>>

\* The request dies: before its commit it has changed nothing, after it nobody sends the mail.
RecomputeDie(r) ==
  /\ recompute[r].at # "rest" /\ recompute' = [recompute EXCEPT ![r] = Rest]
  /\ unsure' = (unsure \/ (r \in Committed /\ Above(risk, appetiteOfClass)))
  /\ UNCHANGED <<risk, appetiteOfClass, cost, linked, chars, shares, riskEdits, mails>>

-----------------------------------------------------------------------------
EditRisk == riskEdits < MaxRiskEdits /\ riskEdits' = riskEdits + 1

\* An edit that moves the appetite leaves the rise as it is: nothing is mailed, and nothing forgotten.
AppetiteMoves(row, class) ==
  /\ mails' = IF Above(row, class) THEN mails ELSE 0
  /\ unsure' = /\ Above(row, class)
               /\ unsure \/ AppetiteOf(row, class) # AppetiteOf(risk, appetiteOfClass)

\* update_event and archive_event, a field at a time (the expert's frequency comes with its flag).
UpdateRisk ==
  /\ EditRisk
  /\ \/ \E appetite \in Appetites \cup {NONE} : risk' = [risk EXCEPT !.appetite = appetite]
     \/ \E aro \in {NONE, 2}, expert \in BOOLEAN : risk' = [risk EXCEPT !.aro = aro, !.expert = expert]
     \/ \E sle \in (Costs \cap Nat) \cup {NONE} : risk' = [risk EXCEPT !.sle = sle]
     \/ risk' = [risk EXCEPT !.active = ~ @]
  /\ risk' # risk
  /\ AppetiteMoves(risk', appetiteOfClass)
  /\ UNCHANGED <<appetiteOfClass, cost, linked, chars, shares, recompute>>

\* The configuration, the risk's system or that system's class.
ClassAppetite(a) ==
  /\ EditRisk /\ a # appetiteOfClass /\ appetiteOfClass' = a
  /\ AppetiteMoves(risk, a)
  /\ UNCHANGED <<risk, cost, linked, chars, shares, recompute>>

\* The economics of a failure are entered or computed again.
Recost(f, c) ==
  /\ EditRisk /\ c # cost[f] /\ cost' = [cost EXCEPT ![f] = c]
  /\ UNCHANGED <<risk, appetiteOfClass, linked, chars, shares, recompute, mails, unsure>>

\* link_incident and unlink_incident: a link is made once (a unique key says so too).
LinkFailure(f) ==
  /\ EditRisk /\ linked' = IF f \in linked THEN linked \ {f} ELSE linked \cup {f}
  /\ UNCHANGED <<risk, appetiteOfClass, cost, chars, shares, recompute, mails, unsure>>

\* link_subchar and unlink_subchar.
LinkSubchar(s) ==
  /\ EditRisk /\ chars' = IF s \in chars THEN chars \ {s} ELSE chars \cup {s}
  /\ UNCHANGED <<risk, appetiteOfClass, cost, linked, shares, recompute, mails, unsure>>

\* link_measure and unlink_measure: shares may add up to anything.
LinkMeasure(m, share) ==
  /\ EditRisk /\ shares' = [shares EXCEPT ![m] = IF @ = NONE THEN share ELSE NONE]
  /\ UNCHANGED <<risk, appetiteOfClass, cost, linked, chars, recompute, mails, unsure>>

RisksNext ==
  \/ \E r \in Recomputers : RecomputeRead(r) \/ RecomputeCommit(r) \/ RecomputeNotify(r) \/ RecomputeDie(r)
  \/ UpdateRisk
  \/ \E a \in Appetites \cup {NONE} : ClassAppetite(a)
  \/ \E f \in Failures : LinkFailure(f) \/ \E c \in Costs : Recost(f, c)
  \/ \E s \in Subchars : LinkSubchar(s)
  \/ \E m \in Remedies, share \in 0 .. SHARE : LinkMeasure(m, share)

RisksSpec == RisksInit /\ [][RisksNext]_riskVars

-----------------------------------------------------------------------------
\* Mutant: a risk is divided by its links, not by the different characteristics among them.
CharacteristicsOfLinks == Max({Cardinality(chars), 1})

\* _characteristics_per_risk.
CharacteristicsOf == Max({Cardinality({s[1] : s \in chars}), 1})

\* cell_detail: the risk's part in a cell, in parts of an n-th (Whole of them make the loss).
Whole == ProductSet(1 .. Cardinality(Characteristics))
InCell(ch) ==
  IF risk.active /\ \E s \in chars : s[1] = ch THEN risk.ale * (Whole \div CharacteristicsOf) ELSE 0

ShareOf(m) == IF shares[m] = NONE THEN 0 ELSE shares[m]
SharesOf(ms) == SumFunction([m \in ms |-> ShareOf(m)])

\* What the measures take off in a cell: never more than the risk has there.
CellDelta(ch) == (InCell(ch) * Min({SHARE, SharesOf(Remedies)})) \div SHARE

\* portfolio_risk_summary: what is at risk, and what the measures that are done take off.
AtRisk == IF risk.active THEN risk.ale ELSE 0
CoveredByDone == (AtRisk * SharesOf(Done)) \div SHARE
Residual == AtRisk - CoveredByDone

-----------------------------------------------------------------------------
(***************************************************************************)
(* While the loss stands above the appetite, its owner has been told once, *)
(* or is about to be: unless recomputations crossed, one died between its  *)
(* commit and its mail, or the appetite was moved.                         *)
(***************************************************************************)
CrossingIsTold ==
  Above(risk, appetiteOfClass) /\ ~ unsure =>
    mails + Cardinality({r \in Committed : Due(recompute[r])}) = 1

(***************************************************************************)
(* The cells of the heat map add up to what the portfolio shows at risk,   *)
(* whatever characteristics the risk is linked to and however often, and   *)
(* the effects in them to no more than it; the portfolio's residual loss   *)
(* is not negative unless the shares of the measures exceed the whole.     *)
(***************************************************************************)
MoneyAddsUp ==
  /\ chars # {} => SumFunction([ch \in Characteristics |-> InCell(ch)]) = AtRisk * Whole
  /\ SumFunction([ch \in Characteristics |-> CellDelta(ch)]) <= AtRisk * Whole
  /\ SharesOf(Done) <= SHARE => Residual >= 0

=============================================================================
