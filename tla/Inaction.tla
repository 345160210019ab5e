------------------------------ MODULE Inaction ------------------------------
(***************************************************************************)
(* The price of an overdue measure (governance/economics_service.py): the  *)
(* snapshot taken when it is first found overdue, the current price, and   *)
(* one point a day of its history.  A nightly task prices every overdue    *)
(* card on one session, from copies it read when it began; a button prices *)
(* one card.  An exception ends the task, and what it has not reached      *)
(* waits for the next night.                                               *)
(***************************************************************************)
EXTENDS Absent, Orm, Integers, FiniteSets

CONSTANTS
  Cards, Compensating,   \* measures, and those that compensate a risk rather than remove it
  Buttons,               \* requests to price one card
  Pricer,                \* the nightly task
  Losses,                \* money at risk under a measure
  MaxNight, MaxTurns     \* bounds: days; edits, presses of the button and deaths

ASSUME CardsAssumption ==
  /\ Compensating \subseteq Cards /\ Pricer \notin Buttons
  /\ MaxNight \in Nat /\ MaxTurns \in Nat
  /\ NONE \notin Nat /\ NONE \notin Losses

VARIABLES
  card,        \* the rows: approved, done, due, snapshot, snapshot_at, current, current_at
  loss,        \* Sum of ale_avg and share over the risks linked to a measure
  hurt,        \* days on which a failure linked to its risks happened (each costs 1)
  namesakes,   \* cards whose system's name two rows of the register bear
  point,       \* proposal_price_snapshots: <<card, day>> |-> price or NONE
  pricing,     \* what the task or a button is doing
  today,       \* the day
  turns

inactionVars == <<card, loss, hurt, namesakes, point, pricing, today, turns>>

Nights == 0 .. MaxNight
Prices == 0 .. (MaxNight + 1) \cup Losses

InactionTypeOK ==
  /\ \A c \in Cards :
       /\ card[c].due \in Nights \cup {NONE} /\ card[c].snapshot_at \in Nights \cup {NONE}
       /\ card[c].snapshot \in Prices \cup {NONE} /\ card[c].current \in Prices \cup {NONE}
       /\ (card[c].snapshot = NONE) = (card[c].snapshot_at = NONE)
       /\ card[c].snapshot # NONE => card[c].current # NONE
  /\ loss \in [Cards -> Losses] /\ hurt \in [Cards -> SUBSET Nights] /\ namesakes \subseteq Cards
  /\ point \in [Cards \X Nights -> Prices \cup {NONE}]
  /\ today \in Nights /\ turns \in 0 .. MaxTurns

InactionInit ==
  /\ \E due \in {0, NONE}, approved \in BOOLEAN :
       card = [c \in Cards |-> [approved |-> approved, done |-> FALSE, due |-> due,
                                snapshot |-> NONE, snapshot_at |-> NONE, current |-> NONE, current_at |-> NONE]]
  /\ loss \in [Cards -> Losses] /\ hurt = [c \in Cards |-> {}] /\ namesakes = {}
  /\ point = [p \in Cards \X Nights |-> NONE]
  /\ pricing = [j \in Buttons \cup {Pricer} |-> NONE]
  /\ today = 0 /\ turns = 0

-----------------------------------------------------------------------------
\* _proposal_overdue: the status is not looked at.
LateMeasure(row) == ~ row.done /\ row.due # NONE /\ row.due < today

\* compute_price_of_inaction: money at risk, or what failures have cost since the snapshot.
Price(c, copy) ==
  LET since == IF copy.snapshot_at # NONE THEN copy.snapshot_at ELSE copy.due
  IN IF c \in Compensating THEN Cardinality({d \in hurt[c] : d >= since}) ELSE loss[c]

\* Mutant: the snapshot is taken, its day is forgotten.
PricedUndated(c, copy) ==
  [copy EXCEPT !.snapshot = IF copy.snapshot = NONE THEN Price(c, copy) ELSE @,
               !.current = Price(c, copy), !.current_at = today]

\* The copy after recompute_price_of_inaction: the snapshot is taken once.
Priced(c, copy) ==
  [copy EXCEPT !.snapshot    = IF copy.snapshot = NONE THEN Price(c, copy) ELSE @,
               !.snapshot_at = IF copy.snapshot = NONE THEN today ELSE @,
               !.current = Price(c, copy), !.current_at = today]

\* The cards of the task's SELECT: approved, not done, overdue.
DueNow == {c \in Cards : card[c].approved /\ LateMeasure(card[c])}

Begin(j, cards) ==
  /\ pricing[j] = NONE
  /\ pricing' = [pricing EXCEPT ![j] =
       [copies |-> [c \in cards |-> card[c]], left |-> cards, at |-> NONE, price |-> 0, found |-> NONE]]
  /\ UNCHANGED <<card, loss, hurt, namesakes, point, today>>

TaskBegin == DueNow # {} /\ Begin(Pricer, DueNow) /\ UNCHANGED turns
Press(b, c) == turns < MaxTurns /\ turns' = turns + 1 /\ Begin(b, {c})

\* The next card: priced and committed; one whose system cannot be told ends everything.
PriceNext(j, c) ==
  LET p == pricing[j]
      copy == p.copies[c]
  IN /\ p # NONE /\ p.at = NONE /\ c \in p.left
     /\ IF c \in namesakes
        THEN pricing' = [pricing EXCEPT ![j] = NONE] /\ UNCHANGED card
        ELSE IF ~ LateMeasure(copy)
        THEN pricing' = [pricing EXCEPT ![j].left = @ \ {c}] /\ UNCHANGED card
        ELSE /\ card' = [card EXCEPT ![c] = Flush(card[c], copy, Priced(c, copy))]
             /\ pricing' = [pricing EXCEPT ![j].left = @ \ {c}, ![j].at = <<c, today>>,
                                           ![j].price = Price(c, copy), ![j].found = NONE]
     /\ UNCHANGED <<loss, hurt, namesakes, point, today, turns>>

\* record_daily_price_snapshot: the row of the day is looked for ...
LookForPoint(j) ==
  /\ pricing[j] # NONE /\ pricing[j].at # NONE /\ pricing[j].found = NONE
  /\ pricing' = [pricing EXCEPT ![j].found = point[pricing[j].at] # NONE]
  /\ UNCHANGED <<card, loss, hurt, namesakes, point, today, turns>>

\* Mutant: the point is inserted whether there is one or not.
WritePointInsert(j) ==
  LET p == pricing[j]
  IN /\ p # NONE /\ p.at # NONE /\ p.found # NONE
     /\ IF point[p.at] # NONE
        THEN pricing' = [pricing EXCEPT ![j] = NONE] /\ UNCHANGED point
        ELSE /\ point' = [point EXCEPT ![p.at] = p.price]
             /\ pricing' = [pricing EXCEPT ![j].at = NONE, ![j].found = NONE]
     /\ UNCHANGED <<card, loss, hurt, namesakes, today, turns>>

\* ... and written; a second insert breaks the unique key, and ends everything too.
WritePoint(j) ==
  LET p == pricing[j]
  IN /\ p # NONE /\ p.at # NONE /\ p.found # NONE
     /\ IF ~ p.found /\ point[p.at] # NONE
        THEN pricing' = [pricing EXCEPT ![j] = NONE] /\ UNCHANGED point
        ELSE /\ point' = [point EXCEPT ![p.at] = p.price]
             /\ pricing' = [pricing EXCEPT ![j].at = NONE, ![j].found = NONE]
     /\ UNCHANGED <<card, loss, hurt, namesakes, today, turns>>

End(j) ==
  /\ pricing[j] # NONE /\ pricing[j].at = NONE /\ pricing[j].left = {}
  /\ pricing' = [pricing EXCEPT ![j] = NONE]
  /\ UNCHANGED <<card, loss, hurt, namesakes, point, today, turns>>

Turn == turns < MaxTurns /\ turns' = turns + 1

PricingDies(j) ==
  /\ Turn /\ pricing[j] # NONE /\ pricing' = [pricing EXCEPT ![j] = NONE]
  /\ UNCHANGED <<card, loss, hurt, namesakes, point, today>>

\* The rest of the system: the card's own handlers, the risks, the failures, the register of systems.
Approve(c) == ~ card[c].approved /\ card' = [card EXCEPT ![c].approved = TRUE]
SetDone(c) == card[c].approved /\ card' = [card EXCEPT ![c].done = ~ @]
SetDue(c, d) == card[c].due # d /\ card' = [card EXCEPT ![c].due = d]
Elsewhere ==
  /\ Turn
  /\ \/ /\ \E c \in Cards : Approve(c) \/ SetDone(c) \/ \E d \in Nights \cup {NONE} : SetDue(c, d)
        /\ UNCHANGED <<loss, hurt, namesakes>>
     \/ /\ \E c \in Cards \ Compensating, l \in Losses : loss[c] # l /\ loss' = [loss EXCEPT ![c] = l]
        /\ UNCHANGED <<card, hurt, namesakes>>
     \/ /\ \E c \in Compensating : hurt' = [hurt EXCEPT ![c] = @ \cup {today}]
        /\ UNCHANGED <<card, loss, namesakes>>
     \/ /\ \E c \in Cards : namesakes' = IF c \in namesakes THEN namesakes \ {c} ELSE namesakes \cup {c}
        /\ UNCHANGED <<card, loss, hurt>>
  /\ UNCHANGED <<point, pricing, today>>

Dawn ==
  /\ today < MaxNight /\ today' = today + 1
  /\ UNCHANGED <<card, loss, hurt, namesakes, point, pricing, turns>>

TaskStep == TaskBegin \/ LookForPoint(Pricer) \/ WritePoint(Pricer) \/ End(Pricer)
            \/ \E c \in Cards : PriceNext(Pricer, c)

InactionNext ==
  \/ TaskStep
  \/ \E b \in Buttons :
       \/ LookForPoint(b) \/ WritePoint(b) \/ End(b)
       \/ \E c \in Cards : Press(b, c) \/ PriceNext(b, c)
  \/ \E j \in Buttons \cup {Pricer} : PricingDies(j)
  \/ Elsewhere \/ Dawn

InactionSpec == InactionInit /\ [][InactionNext]_inactionVars /\ WF_inactionVars(TaskStep)

-----------------------------------------------------------------------------
(***************************************************************************)
(* An overdue approved measure gets its price in the end, whatever the     *)
(* button does at the same time and however often the task dies, or the    *)
(* measure stops being overdue: provided no card's system remains one that *)
(* cannot be told, which would keep the task from every card after it.     *)
(***************************************************************************)
OverduePriced ==
  <>[](namesakes = {}) =>
    \A c \in Cards : c \in DueNow ~> card[c].current # NONE \/ c \notin DueNow

=============================================================================
