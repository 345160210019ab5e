-------------------------------- MODULE Rates --------------------------------
(***************************************************************************)
(* The rates of support by line (econ/service.py): entered by hand, or     *)
(* filled in from the reference book of the market, where a filled rate    *)
(* is refreshed until somebody confirms or changes it.  A fill reads the   *)
(* rates of its place once, looks up each line in turn and commits at the  *)
(* end; a user's change of one rate is a request of its own.               *)
(***************************************************************************)
EXTENDS Absent, Orm, Integers, SequencesExt

CONSTANTS
  Places,           \* what a fill is for: a system, or all of them, and a type of executor
  LINES,            \* L1, L2, L3: in this order
  Sizes, Industries,
  References,       \* the records of the reference book that may be entered, for one type of executor
  Seeded,           \* those of them the program itself enters (seed_market_benchmarks)
  Users,            \* requests
  Amounts,          \* what a user may enter as a rate
  MaxRates, MaxChanges     \* bounds: rows; changes of rates, of the profile and of the book

RateLines == {LINES[i] : i \in DOMAIN LINES}

ASSUME RatesAssumption ==
  /\ LINES \in Seq(RateLines)
  /\ Seeded \subseteq References /\ \A b \in References : b.amount \in Int
  /\ Amounts \subseteq Int
  /\ MaxRates \in Nat /\ MaxRates > 0 /\ MaxChanges \in Nat

VARIABLES
  rates,      \* support_rates
  profile,    \* the enterprise's size and industry
  book,       \* market_benchmarks
  task,       \* what a request has read and is about to write
  changes

rateVars == <<rates, profile, book, task, changes>>

Rate == [place : Places, line : RateLines, amount : Int, source : {"MANUAL", "REFERENCE"},
         confirmed : BOOLEAN, active : BOOLEAN]

RatesTypeOK ==
  /\ rates \in Seq(Rate) /\ Len(rates) <= MaxRates
  /\ profile \in [size : Sizes \cup {NONE}, industry : Industries \cup {NONE}]
  /\ book \subseteq References
  /\ \A u \in Users : task[u] # NONE => task[u].kind \in {"fill", "change"}
  /\ changes \in 0 .. MaxChanges

\* A rate as a fill adds it.
FromBook(place, line, amount) ==
  [place |-> place, line |-> line, amount |-> amount, source |-> "REFERENCE",
   confirmed |-> FALSE, active |-> TRUE]

\* The book is seeded, and one line may have been filled from it, and confirmed.
RatesInit ==
  /\ book = Seeded
  /\ rates \in {<<>>} \cup
       {<<[FromBook(p, l, b.amount) EXCEPT !.confirmed = c]>> :
          p \in Places, l \in RateLines, b \in book, c \in BOOLEAN}
  /\ profile = [size |-> NONE, industry |-> NONE]
  /\ task = [u \in Users |-> NONE]
  /\ changes = 0

-----------------------------------------------------------------------------
\* score: a record with a field that is not the enterprise's does not fit; a line outweighs a size, a size an industry.
Fits(b, line) == /\ b.line \in {NONE, line}
                 /\ b.size \in {NONE, profile.size} /\ b.industry \in {NONE, profile.industry}
Score(b) == (IF b.line # NONE THEN 4 ELSE 0) + (IF b.size # NONE THEN 2 ELSE 0)
            + (IF b.industry # NONE THEN 1 ELSE 0)

\* typical_rate: the most specific records, and the freshest of those.
Typical(line) ==
  LET fit == {b \in book : Fits(b, line)}
  IN {b \in fit : \A other \in fit : \/ Score(other) < Score(b)
                                     \/ Score(other) = Score(b) /\ other.on <= b.on}

\* A rate nobody has confirmed or entered; only such a rate is refreshed.
Settled(row) == row.source = "MANUAL" \/ row.confirmed

\* fill_default_rates: the rates of the place by line (of two rates of one line, either) ...
FillRead(u, place, refresh) ==
  LET of(line) == {i \in DOMAIN rates : rates[i].place = place /\ rates[i].line = line}
      present == {line \in RateLines : of(line) # {}}
  IN /\ task[u] = NONE
     /\ \E found \in [present -> DOMAIN rates] :
          /\ \A line \in present : found[line] \in of(line)
          /\ task' = [task EXCEPT ![u] =
               [kind |-> "fill", place |-> place, refresh |-> refresh, left |-> LINES,
                found |-> found, loaded |-> [line \in present |-> rates[found[line]]],
                copies |-> [line \in present |-> rates[found[line]]], added |-> <<>>]]
     /\ UNCHANGED <<rates, profile, book, changes>>

\* Mutant: a confirmed rate is refreshed too.
RefreshedReference(t, line) == t.refresh /\ t.loaded[line].source = "REFERENCE"

\* Of the rates that are there, a fill refreshes those that are not settled.
Refreshed(t, line) == t.refresh /\ ~ Settled(t.loaded[line])

\* What a fill does with the typical rate of a line: it refreshes the rate of the line, or adds one.
WithTypical(t, line, amount) ==
  IF line \notin DOMAIN t.loaded
  THEN [t EXCEPT !.added = Append(@, FromBook(t.place, line, amount))]
  ELSE IF Refreshed(t, line) THEN [t EXCEPT !.copies[line].amount = amount] ELSE t

\* ... then a line at a time: its typical rate as the book and the profile are now ...
FillLine(u) ==
  /\ task[u] # NONE /\ task[u].kind = "fill" /\ task[u].left # <<>>
  /\ LET line == Head(task[u].left)
         next == [task[u] EXCEPT !.left = Tail(@)]
     IN \/ Typical(line) = {} /\ task' = [task EXCEPT ![u] = next]
        \/ \E b \in Typical(line) : task' = [task EXCEPT ![u] = WithTypical(next, line, b.amount)]
  /\ UNCHANGED <<rates, profile, book, changes>>

\* The row as it is when the copy of its line has been written back.
Refilled(t, i) ==
  LET line == CHOOSE l \in DOMAIN t.found : t.found[l] = i
  IN IF \E l \in DOMAIN t.found : t.found[l] = i
     THEN Flush(rates[i], t.loaded[line], t.copies[line]) ELSE rates[i]

\* ... and one commit.
FillCommit(u) ==
  /\ task[u] # NONE /\ task[u].kind = "fill" /\ task[u].left = <<>>
  /\ Len(rates) + Len(task[u].added) <= MaxRates
  /\ rates' = [i \in DOMAIN rates |-> Refilled(task[u], i)] \o task[u].added
  /\ task' = [task EXCEPT ![u] = NONE]
  /\ UNCHANGED <<profile, book, changes>>

-----------------------------------------------------------------------------
Change == changes < MaxChanges /\ changes' = changes + 1

\* get_rate_or_404, for a change or a confirmation.
OpenRate(u, i) ==
  /\ Change /\ task[u] = NONE
  /\ task' = [task EXCEPT ![u] = [kind |-> "change", id |-> i, loaded |-> rates[i]]]
  /\ UNCHANGED <<rates, profile, book>>

CommitRate(u, new) ==
  /\ task[u] # NONE /\ task[u].kind = "change"
  /\ rates' = [rates EXCEPT ![task[u].id] = Flush(@, task[u].loaded, new)]
  /\ task' = [task EXCEPT ![u] = NONE]
  /\ UNCHANGED <<profile, book, changes>>

\* update_rate, a field at a time: entering an amount takes a rate out of the reference book.
UpdateRate(u) ==
  LET row == task[u].loaded
      entered(x) == IF row.source = "REFERENCE"
                    THEN [row EXCEPT !.amount = x, !.source = "MANUAL", !.confirmed = TRUE]
                    ELSE [row EXCEPT !.amount = x]
  IN /\ task[u] # NONE /\ task[u].kind = "change"
     /\ \/ \E x \in Amounts : CommitRate(u, entered(x))
        \/ \E line \in RateLines \ {row.line} : CommitRate(u, [row EXCEPT !.line = line])
        \/ CommitRate(u, [row EXCEPT !.active = ~ @])

\* confirm_rate.
ConfirmRate(u) ==
  /\ task[u] # NONE /\ task[u].kind = "change"
  /\ CommitRate(u, [task[u].loaded EXCEPT !.confirmed = TRUE])

\* create_rate: nothing is looked for.
CreateRate(place, line, x) ==
  /\ Change /\ Len(rates) < MaxRates
  /\ rates' = Append(rates, [place |-> place, line |-> line, amount |-> x, source |-> "MANUAL",
                             confirmed |-> FALSE, active |-> TRUE])
  /\ UNCHANGED <<profile, book, task>>

\* update_enterprise_profile.
SetProfile(new) ==
  /\ Change /\ new # profile /\ profile' = new
  /\ UNCHANGED <<rates, book, task>>

\* create_benchmark: records are only added.
Enter(b) ==
  /\ Change /\ b \notin book /\ book' = book \cup {b}
  /\ UNCHANGED <<rates, profile, task>>

\* A request dies before its commit.
TaskDies(u) ==
  /\ task[u] # NONE /\ task' = [task EXCEPT ![u] = NONE]
  /\ UNCHANGED <<rates, profile, book, changes>>

RatesNext ==
  \/ \E u \in Users :
       \/ \E place \in Places, refresh \in BOOLEAN : FillRead(u, place, refresh)
       \/ FillLine(u) \/ FillCommit(u) \/ UpdateRate(u) \/ ConfirmRate(u) \/ TaskDies(u)
       \/ \E i \in DOMAIN rates : OpenRate(u, i)
  \/ \E place \in Places, line \in RateLines, x \in Amounts : CreateRate(place, line, x)
  \/ \E size \in Sizes \cup {NONE}, industry \in Industries \cup {NONE} :
       SetProfile([size |-> size, industry |-> industry])
  \/ \E b \in References : Enter(b)

RatesSpec == RatesInit /\ [][RatesNext]_rateVars

-----------------------------------------------------------------------------
(***************************************************************************)
(* "Confirmed rates and rates entered by hand are never touched" by a      *)
(* fill (fill_default_rates): the amount of a settled rate changes by the  *)
(* end of a user's change of that rate and by nothing else, except a fill  *)
(* that had read the rate before it was settled.                           *)
(***************************************************************************)
ConfirmedIsNotRefilled ==
  [][\A i \in DOMAIN rates :
       Settled(rates[i]) /\ rates'[i].amount # rates[i].amount =>
         \E u \in Users :
           /\ task[u] # NONE /\ task'[u] = NONE
           /\ \/ task[u].kind = "change" /\ task[u].id = i
              \/ task[u].kind = "fill" /\ \E line \in DOMAIN task[u].found :
                   task[u].found[line] = i /\ ~ Settled(task[u].loaded[line])]_rateVars

=============================================================================
