---------------------------- MODULE FailureCosts ----------------------------
(***************************************************************************)
(* The money of a failure (incidents/economics_service.py,                 *)
(* econ/service.py, econ/economics.py): what its repair and its downtime   *)
(* cost is computed from its own fields, from the rates of the lines of    *)
(* support, from the processes its system serves, and from the hours of    *)
(* the vendor's monthly package that EARLIER failures of the month have    *)
(* used.  The sum is kept on the row and computed again only when          *)
(* somebody saves the economics of that failure or an export from the      *)
(* ticket system names it; risks read what is kept.                        *)
(*                                                                         *)
(* A request reads, computes and commits later: what it computed on may    *)
(* have changed by then, and it writes only the columns it changed (Orm).  *)
(*                                                                         *)
(* Time is in minutes, coefficients are in PARTS of one, money is exact:   *)
(* the rounding to kopecks is left out.                                    *)
(***************************************************************************)
EXTENDS Absent, Integers, FiniteSets, Functions, Orm

CONSTANTS
  Outages,       \* the rows of failures
  Estate,        \* the systems
  BusinessProcesses,
  Frontal,       \* the processes that earn
  SupportLines,  \* L1, L2, L3
  Moments,       \* minutes
  Calendar,      \* of a moment: its month, whether it is a day off, the hour
  Reports,       \* what a failure is entered with: [system, name, at, resolved]
  ExportLines,   \* what an export says of one failure
  CostForms,         \* the partial edits of the economics of a failure
  Tariffs,       \* the rates that may be in force
  Services,      \* the links of a system with a process that may be made
  CardForms,     \* what is entered for the price of a minute of a process
  Thresholds,    \* when a degradation is a downtime: [k, minutes]
  Desks,         \* requests in progress
  PARTS,         \* the column of a coefficient keeps so many parts of one
  MaxCostEdits   \* bound on the requests and changes of a behaviour

\* What a degradation is measured by, what a line and a failure cost, and a row.
Inputs ==
  [kind : {"FUNCTIONAL"}, lost : Int, of : Int] \cup [kind : {"THROUGHPUT"}, actual : Int, of : Int]
    \cup [kind : {"PERFORMANCE"}, ratio : Int]

LineBills == [billed : Nat, packaged : Nat, money : Nat]
Bill == [lines : [SupportLines -> LineBills \cup {NONE}], downtime : Int]

Types == {"DOWNTIME", "DEGRADATION"}
Labor == [SupportLines -> Nat \cup {NONE}]
OutageRow ==
  [ticket : BOOLEAN, system : Estate \cup {NONE}, name : Estate, at : Moments,
   resolved : Moments \cup {NONE}, type : Types, inputs : Inputs \cup {NONE}, minutes : Int \cup {NONE},
   k : 0 .. PARTS \cup {NONE}, labor : Labor, vendor : SUBSET SupportLines,
   counts : BOOLEAN \cup {NONE}, bill : Bill \cup {NONE}]
OutageRows(F) == DOMAIN F \subseteq Outages /\ F \in [DOMAIN F -> OutageRow]

DayProfiles == [weekend : Nat \cup {NONE}, from : Nat, to : Nat, peak : Nat, offpeak : Nat] \cup {NONE}
Card == [base : Nat \cup {NONE}, profile : DayProfiles]
Params ==
  [method : {"RESOURCE"}, employees : Nat, hourly : Nat, idle : Nat, catchup : Nat]
    \cup [method : {"TRANSACTIONAL"}, revenue : Nat, minutes : Nat, share : Nat]
    \cup [method : {"EXPERT"}, low : Nat, high : Nat]

\* What a failure is entered with, and what an export says of one: its hours are made of its log.
Report == [system : Estate \cup {NONE}, name : Estate, at : Moments, resolved : Moments \cup {NONE}]
ExportLine ==
  [system : Estate \cup {NONE}, name : Estate, at : Moments, resolved : Moments \cup {NONE},
   labor : Labor \cup {NONE}]

\* A rate, a link of a system with a process, the price of a process's minute.
SupportRate ==
  [line : SupportLines, system : Estate \cup {NONE}, executor : {"INTERNAL", "VENDOR"}, perHour : Nat,
   evening : Nat, weekend : Nat, quantum : Nat, package : Nat \cup {NONE}, overlimit : Nat \cup {NONE}]
ServiceLink == [system : Estate, process : BusinessProcesses, share : Nat, k : 0 .. PARTS \cup {NONE}]
CardForm ==
  [method : {"RESOURCE", "TRANSACTIONAL", "EXPERT"}, params : Params \cup {NONE}, base : Nat \cup {NONE},
   profile : DayProfiles]

\* An edit of the economics names some of the columns, and is validated.
Valid(form) ==
  /\ DOMAIN form \subseteq {"type", "inputs", "minutes", "k", "labor", "vendor"}
  /\ "type" \in DOMAIN form => form.type \in Types
  /\ "inputs" \in DOMAIN form => form.inputs \in Inputs \cup {NONE}
  /\ "minutes" \in DOMAIN form => form.minutes \in Nat \cup {NONE}
  /\ "k" \in DOMAIN form => form.k \in 0 .. PARTS \cup {NONE}
  /\ "labor" \in DOMAIN form =>
       DOMAIN form.labor \subseteq SupportLines /\ form.labor \in [DOMAIN form.labor -> Nat \cup {NONE}]
  /\ "vendor" \in DOMAIN form => form.vendor \in SUBSET SupportLines

ASSUME FailureCostsAssumption ==
  /\ IsFiniteSet(Outages) /\ IsFiniteSet(SupportLines) /\ IsFiniteSet(Services)
  /\ PARTS \in Nat \ {0} /\ MaxCostEdits \in Nat
  /\ Moments \subseteq Nat
  /\ Calendar \in [Moments -> [month : Nat, off : BOOLEAN, hour : 0 .. 23]]
  /\ Reports \subseteq Report /\ ExportLines \subseteq ExportLine
  /\ Tariffs \subseteq SupportRate /\ Services \subseteq ServiceLink
  /\ CardForms \subseteq CardForm
  /\ \A form \in CardForms : form.params # NONE => form.params.method = form.method
  /\ Thresholds \subseteq [k : Nat, minutes : Nat]
  /\ \A form \in CostForms : Valid(form)
  /\ NONE \notin Int /\ NONE \notin Estate /\ NONE \notin Tariffs /\ NONE \notin Inputs /\ NONE \notin LineBills
  /\ NONE \notin Bill /\ NONE \notin Labor /\ NONE \notin Params

VARIABLES
  outages,    \* the rows entered so far
  tariffs,     \* the active rates
  cards,       \* of a process: the price of its minute and the profile of its day
  services,    \* the links made
  threshold,
  desk,        \* of a request: what it read, what it will write
  doubtful,    \* history: failures something was changed under since they were computed
  costEdits

costVars == <<outages, tariffs, cards, services, threshold, desk, doubtful, costEdits>>

\* What a request holds between its reading and its commit.
CostJob(job) ==
  /\ DOMAIN job = {"was", "now", "shaken"} /\ job = [c \in DOMAIN job |-> job[c]]
  /\ OutageRows(job.was) /\ OutageRows(job.now) /\ job.shaken \in BOOLEAN

FailureCostsTypeOK ==
  /\ OutageRows(outages)
  /\ tariffs \in SUBSET Tariffs
  /\ cards \in [BusinessProcesses -> Card]
  /\ services \in SUBSET Services
  /\ threshold \in Thresholds
  /\ desk = [d \in Desks |-> desk[d]]
  /\ \A d \in Desks : desk[d] # NONE => CostJob(desk[d])
  /\ doubtful \in SUBSET DOMAIN outages
  /\ costEdits \in 0 .. MaxCostEdits

-----------------------------------------------------------------------------
\* The coefficient of a degradation (economics.py).
Nearest(a, b) == (2 * a + b) \div (2 * b)
Clipped(k) == IF k < 0 THEN 0 ELSE IF k > PARTS THEN PARTS ELSE k

FunctionalK(d) == IF d.of <= 0 THEN 0 ELSE Clipped(Nearest(PARTS * d.lost, d.of))
ThroughputK(d) == IF d.of <= 0 THEN 0 ELSE Clipped(Nearest(PARTS * (d.of - d.actual), d.of))

\* How many times slower the answer is, and how many hundredths of the process that costs.
Slower == << <<1, 0>>, <<2, 20>>, <<3, 35>>, <<5, 50>>, <<10, 80>> >>
PerformanceK(d) ==
  LET enough == {i \in DOMAIN Slower : d.ratio <= Slower[i][1]}
  IN IF enough = {} THEN PARTS
     ELSE (PARTS * Slower[CHOOSE i \in enough : \A j \in enough : i <= j][2]) \div 100

ComputedK(d) ==
  CASE d = NONE -> NONE
    [] d # NONE /\ d.kind = "FUNCTIONAL" -> FunctionalK(d)
    [] d # NONE /\ d.kind = "THROUGHPUT" -> ThroughputK(d)
    [] d # NONE /\ d.kind = "PERFORMANCE" -> PerformanceK(d)

\* What is entered by hand gives way to what the inputs of the card say.
Keyed(row) ==
  IF row.type = "DEGRADATION" /\ ComputedK(row.inputs) # NONE
  THEN [row EXCEPT !.k = ComputedK(row.inputs)] ELSE row

CountsAsDowntime(row) ==
  IF row.type # "DEGRADATION" THEN TRUE
  ELSE IF row.k = NONE \/ row.minutes = NONE THEN NONE
  ELSE row.k >= threshold.k /\ row.minutes >= threshold.minutes

-----------------------------------------------------------------------------
(***************************************************************************)
(* The repair.                                                             *)
(***************************************************************************)

\* The vendor bills whole quanta of time.
Billed(minutes, quantum) == IF quantum <= 0 THEN minutes ELSE quantum * (- ((- minutes) \div quantum))

TimeFactor(t, at) ==
  IF Calendar[at].off THEN t.weekend
  ELSE IF Calendar[at].hour < 8 \/ Calendar[at].hour >= 20 THEN t.evening
  ELSE PARTS

\* The first of these that is not empty; the base gives its rates in no order.
Instead(some, others) == IF some # {} THEN some ELSE others

InForce(line, system) == {t \in tariffs : t.line = line /\ t.system = system}
By(executor, ts) == {t \in ts : t.executor = executor}
Applicable(line, system, executor) ==
  LET own == IF system = NONE THEN {} ELSE InForce(line, system)
      general == InForce(line, NONE)
  IN Instead(By(executor, own), Instead(By(executor, general), Instead(own, general)))

Worked(row) == {l \in SupportLines : row.labor[l] \notin {NONE, 0}}
ExecutorOf(row, l) == IF l \in row.vendor THEN "VENDOR" ELSE "INTERNAL"

\* Which rate each line worked on is billed by.
RateChoices(row) ==
  { c \in [Worked(row) -> Tariffs \cup {NONE}] :
      \A l \in Worked(row) :
        LET ts == Applicable(l, row.system, ExecutorOf(row, l))
        IN IF ts = {} THEN c[l] = NONE ELSE c[l] \in ts }

CountedTogether(x, row) == IF row.system # NONE THEN x.system = row.system ELSE x.name = row.name

\* Mutant: the failures after this one use the package up too.
InPackageAll(F, f) ==
  {g \in DOMAIN F \ {f} : CountedTogether(F[g], F[f]) /\ Calendar[F[g].at].month = Calendar[F[f].at].month}

\* The failures that used the package of the month up before this one.
InPackage(F, f) ==
  { g \in DOMAIN F \ {f} :
      /\ CountedTogether(F[g], F[f])
      /\ Calendar[F[g].at].month = Calendar[F[f].at].month
      /\ F[g].at < F[f].at }

HoursOn(row, l) == IF row.labor[l] = NONE THEN 0 ELSE row.labor[l]

\* Mutant: every failure is the first of its month.
UsedBeforeNone(F, f, l) == 0

UsedBefore(F, f, l) ==
  IF l \notin F[f].vendor THEN 0
  ELSE SumFunction([g \in {o \in InPackage(F, f) : l \in F[o].vendor} |-> HoursOn(F[g], l)])

\* Mutant: the package never runs out.
LineBillInside(t, minutes, at, used) ==
  LET billed == IF t.executor = "VENDOR" THEN Billed(minutes, t.quantum) ELSE minutes
  IN [billed |-> billed, packaged |-> IF t.package # NONE THEN billed ELSE 0,
      money |-> billed * t.perHour * TimeFactor(t, at)]

\* The bill of one line: what is inside the package, what is over it, the money.
LineBill(t, minutes, at, used) ==
  LET vendor == t.executor = "VENDOR"
      billed == IF vendor THEN Billed(minutes, t.quantum) ELSE minutes
      limited == vendor /\ t.package # NONE /\ t.overlimit # NONE
      left == IF used > t.package THEN 0 ELSE t.package - used
      inside == IF ~ limited \/ billed <= left THEN billed ELSE left
      over == IF limited THEN (billed - inside) * t.overlimit ELSE 0
  IN [billed |-> billed, packaged |-> IF limited THEN inside ELSE 0,
      money |-> (inside * t.perHour + over) * TimeFactor(t, at)]

-----------------------------------------------------------------------------
(***************************************************************************)
(* The downtime.                                                           *)
(***************************************************************************)
ProfileFactor(profile, at) ==
  IF profile = NONE THEN PARTS
  ELSE IF Calendar[at].off /\ profile.weekend # NONE THEN profile.weekend
  ELSE IF Calendar[at].hour \in profile.from .. profile.to - 1 THEN profile.peak
  ELSE profile.offpeak

DownMinutes(row) ==
  IF row.minutes # NONE THEN row.minutes
  ELSE IF row.resolved # NONE THEN row.resolved - row.at ELSE 0

\* The coefficient of the failure, else of the link, else the whole.
Impact(row, s) == IF row.k # NONE THEN row.k ELSE IF s.k # NONE THEN s.k ELSE PARTS

Stopped(row) == {s \in services : s.system = row.system /\ cards[s.process].base # NONE}

DowntimeCost(row) ==
  SumFunction([s \in Stopped(row) |->
    DownMinutes(row) * cards[s.process].base * ProfileFactor(cards[s.process].profile, row.at)
      * Impact(row, s) * s.share])

-----------------------------------------------------------------------------
\* What the failure may be said to cost, after these hours of the package.
BillsAfter(row, used) ==
  { [ lines |-> [l \in SupportLines |->
                   IF l \notin Worked(row) \/ c[l] = NONE THEN NONE
                   ELSE LineBill(c[l], row.labor[l], row.at, used[l])],
      downtime |-> DowntimeCost(row) ] : c \in RateChoices(row) }

Bills(F, f) == BillsAfter(F[f], [l \in SupportLines |-> UsedBefore(F, f, l)])

\* The row after the sum is computed: its coefficient and its kind with it.
Recomputed(F, f) ==
  LET row == Keyed(F[f])
  IN {[row EXCEPT !.counts = CountsAsDowntime(row), !.bill = b] : b \in Bills([F EXCEPT ![f] = row], f)}

-----------------------------------------------------------------------------

New(ticket, system, name, at, resolved) ==
  [ticket |-> ticket, system |-> system, name |-> name, at |-> at, resolved |-> resolved,
   type |-> "DOWNTIME", inputs |-> NONE, minutes |-> NONE, k |-> NONE,
   labor |-> [l \in SupportLines |-> NONE], vendor |-> {}, counts |-> NONE, bill |-> NONE]

FailureCostsInit ==
  /\ outages = <<>>
  /\ tariffs \in SUBSET Tariffs
  /\ cards = [p \in BusinessProcesses |-> [base |-> NONE, profile |-> NONE]]
  /\ services \in {S \in SUBSET Services : \A s, o \in S : <<s.system, s.process>> = <<o.system, o.process>> => s = o}
  /\ threshold \in Thresholds
  /\ desk = [d \in Desks |-> NONE]
  /\ doubtful = {}
  /\ costEdits = 0

EditCosts == costEdits < MaxCostEdits /\ costEdits' = costEdits + 1

With(F, rows) == [f \in DOMAIN F \cup DOMAIN rows |-> IF f \in DOMAIN rows THEN rows[f] ELSE F[f]]

-----------------------------------------------------------------------------
(***************************************************************************)
(* What is changed under a failure that is computed: its row, a row whose  *)
(* hours come before it in the package, or what its money is made of.      *)
(***************************************************************************)
Precedes(x, row) ==
  /\ CountedTogether(x, row)
  /\ Calendar[x.at].month = Calendar[row.at].month
  /\ x.at < row.at
  /\ x.vendor \cap row.vendor # {}

\* g was as F has it, or was not there, and is now as G has it.
Stirs(F, G, g, row) ==
  /\ g \notin DOMAIN F \/ F[g] # G[g]
  /\ Precedes(G[g], row) \/ (g \in DOMAIN F /\ Precedes(F[g], row))

Shaken(F, G, f, row) ==
  \/ f \in DOMAIN F /\ F[f] # G[f]
  \/ \E g \in DOMAIN G \ {f} : Stirs(F, G, g, row)

\* What is kept of fs is in doubt now, and what the requests of ds computed.
Unsettle(fs, ds) ==
  /\ doubtful' = doubtful \cup fs
  /\ desk' = [d \in Desks |-> IF d \in ds THEN [desk[d] EXCEPT !.shaken = TRUE] ELSE desk[d]]

Busy == {d \in Desks : desk[d] # NONE}
Costed == {f \in DOMAIN outages : outages[f].bill # NONE}

ShakenBy(G) == {f \in Costed : Shaken(outages, G, f, outages[f])}
DesksShakenBy(G) ==
  {d \in Busy : \E f \in DOMAIN desk[d].now : Shaken(outages, G, f, desk[d].now[f])}

\* The rows are as G has them.
RowsBecome(G) ==
  /\ outages' = G
  /\ Unsettle(ShakenBy(G), DesksShakenBy(G))
  /\ UNCHANGED <<tariffs, cards, services, threshold>>

-----------------------------------------------------------------------------
\* A failure is entered by hand, or by a table, which names its system and no more.
EnterOutage(f, report) ==
  /\ UNCHANGED costEdits
  /\ f \notin DOMAIN outages \cup UNION {DOMAIN desk[d].now : d \in Busy}
  /\ RowsBecome(With(outages, [g \in {f} |->
       New(FALSE, report.system, report.name, report.at, report.resolved)]))

\* The dates of a failure are corrected, or it is resolved: its sum is left as it is.
Correct(f, at, resolved) ==
  /\ EditCosts
  /\ f \in DOMAIN outages
  /\ <<at, resolved>> # <<outages[f].at, outages[f].resolved>>
  /\ RowsBecome([outages EXCEPT ![f].at = at, ![f].resolved = resolved])

Patched(row, form) ==
  [c \in DOMAIN row |->
    IF c \notin DOMAIN form THEN row[c]
    ELSE IF c = "labor" THEN With(row.labor, form.labor) ELSE form[c]]

\* A full stop has no inputs of a degradation.
Plain(row) == IF row.type = "DEGRADATION" THEN row ELSE [row EXCEPT !.inputs = NONE]

Compute(d, now) ==
  /\ EditCosts
  /\ desk[d] = NONE
  /\ desk' = [desk EXCEPT ![d] =
       [was |-> [f \in DOMAIN now \cap DOMAIN outages |-> outages[f]], now |-> now, shaken |-> FALSE]]
  /\ UNCHANGED <<outages, tariffs, cards, services, threshold, doubtful>>

\* Mutant: the economics are saved and the sum is left.
SaveEconomicsOnly(d, f, form) ==
  /\ f \in DOMAIN outages
  /\ Compute(d, [g \in {f} |-> Plain(Patched(outages[f], form))])

\* The economics of a failure are saved, and computed.
SaveEconomics(d, f, form) ==
  /\ f \in DOMAIN outages
  /\ LET F == [outages EXCEPT ![f] = Plain(Patched(@, form))]
     IN \E row \in Recomputed(F, f) : Compute(d, [g \in {f} |-> row])

\* What an export says of a failure; the log of reassignments gives the hours, if there is one.
Reported(row, x) ==
  [row EXCEPT !.system = x.system, !.name = x.name, !.at = x.at, !.resolved = x.resolved,
              !.minutes = IF x.resolved = NONE THEN row.minutes ELSE x.resolved - x.at,
              !.labor = IF x.labor = NONE THEN row.labor ELSE x.labor]

\* An export names failures, known and new; all its rows are written before any is computed.
ImportExport(d, said) ==
  /\ \A f \in DOMAIN said \cap DOMAIN outages : outages[f].ticket
  /\ DOMAIN said \cap UNION {DOMAIN desk[i].now : i \in Busy} \subseteq DOMAIN outages
  /\ LET row(f) == IF f \in DOMAIN outages THEN outages[f]
                   ELSE New(TRUE, said[f].system, said[f].name, said[f].at, said[f].resolved)
         F == With(outages, [f \in DOMAIN said |-> Reported(row(f), said[f])])
         rows == UNION {Recomputed(F, f) : f \in DOMAIN said}
     IN \E now \in [DOMAIN said -> rows] :
          /\ \A f \in DOMAIN said : now[f] \in Recomputed(F, f)
          /\ Compute(d, now)

(***************************************************************************)
(* A risk needs what its failures cost and computes those nobody has, with *)
(* no hours of the package used (risk/event_service.py).                   *)
(***************************************************************************)
CountForRisk(d, fs) ==
  /\ fs # {} /\ fs \subseteq DOMAIN outages \ Costed
  /\ LET bills(f) == BillsAfter(outages[f], [l \in SupportLines |-> 0])
     IN \E b \in [fs -> UNION {bills(f) : f \in fs}] :
          /\ \A f \in fs : b[f] \in bills(f)
          /\ Compute(d, [f \in fs |-> [outages[f] EXCEPT !.bill = b[f]]])

\* The three columns of hours are three columns.
Merged(row, was, new) == [Flush(row, was, new) EXCEPT !.labor = Flush(row.labor, was.labor, new.labor)]

CommitCosts(d) ==
  /\ desk[d] # NONE
  /\ LET job == desk[d]
         own == DOMAIN job.now
         G == With(outages, [f \in own |->
                IF f \in DOMAIN outages THEN Merged(outages[f], job.was[f], job.now[f]) ELSE job.now[f]])
     IN /\ outages' = G
        /\ doubtful' = ((doubtful \cup ShakenBy(G)) \ own) \cup (IF job.shaken THEN own ELSE {})
        /\ desk' = [i \in Desks |-> IF i = d THEN NONE
                                    ELSE IF i \in DesksShakenBy(G) THEN [desk[i] EXCEPT !.shaken = TRUE]
                                    ELSE desk[i]]
  /\ UNCHANGED <<tariffs, cards, services, threshold, costEdits>>

\* The process dies before its commit.
GiveUp(d) ==
  /\ desk[d] # NONE
  /\ desk' = [desk EXCEPT ![d] = NONE]
  /\ UNCHANGED <<outages, tariffs, cards, services, threshold, doubtful, costEdits>>

-----------------------------------------------------------------------------
(***************************************************************************)
(* What the money is made of is changed; no sum is computed again.         *)
(***************************************************************************)
UsesRate(row, t) == t.line \in Worked(row) /\ t.system \in {NONE, row.system}
RateMoves(ts) ==
  Unsettle({f \in Costed : \E t \in ts : UsesRate(outages[f], t)},
           {d \in Busy : \E f \in DOMAIN desk[d].now : \E t \in ts : UsesRate(desk[d].now[f], t)})

AddTariff(t) ==
  /\ EditCosts /\ t \notin tariffs
  /\ tariffs' = tariffs \cup {t}
  /\ RateMoves({t})
  /\ UNCHANGED <<outages, cards, services, threshold>>

\* A rate becomes another, or is not in force any more.
UpdateTariff(t, becomes) ==
  /\ EditCosts /\ t \in tariffs /\ becomes # {t}
  /\ tariffs' = (tariffs \ {t}) \cup becomes
  /\ RateMoves({t} \cup becomes)
  /\ UNCHANGED <<outages, cards, services, threshold>>

\* The price of a minute, by the method chosen; nothing if the parameters do not suffice.
PerMinute(form) ==
  LET p == form.params
  IN CASE p = NONE -> NONE
       [] p # NONE /\ form.method = "RESOURCE" ->
            IF p.employees = 0 \/ p.hourly = 0 THEN NONE
            ELSE Nearest(p.employees * p.hourly * p.idle * p.catchup, 60 * PARTS * PARTS)
       [] p # NONE /\ form.method = "TRANSACTIONAL" ->
            IF p.revenue = 0 \/ p.minutes = 0 THEN NONE ELSE Nearest(p.revenue * p.share, p.minutes * PARTS)
       [] p # NONE /\ form.method = "EXPERT" ->
            IF p.high < p.low THEN NONE ELSE Nearest(p.low + p.high, 2)

ServesBy(row, p) == \E s \in services : s.system = row.system /\ s.process = p
DowntimeMoves(P) ==
  Unsettle({f \in Costed : \E p \in P : ServesBy(outages[f], p)},
           {d \in Busy : \E f \in DOMAIN desk[d].now : \E p \in P : ServesBy(desk[d].now[f], p)})

Given(new, old) == IF new = NONE THEN old ELSE new

\* What the form leaves out, and what cannot be computed, stays as it was.
PriceMinute(p, form) ==
  /\ EditCosts
  /\ form.method = "TRANSACTIONAL" => p \in Frontal
  /\ cards' = [cards EXCEPT ![p] =
       [base |-> Given(Given(form.base, PerMinute(form)), @.base), profile |-> Given(form.profile, @.profile)]]
  /\ DowntimeMoves({p})
  /\ UNCHANGED <<outages, tariffs, services, threshold>>

Link(s) ==
  /\ EditCosts
  /\ \A o \in services : <<o.system, o.process>> # <<s.system, s.process>>
  /\ services' = services \cup {s}
  /\ Unsettle({f \in Costed : outages[f].system = s.system},
              {d \in Busy : \E f \in DOMAIN desk[d].now : desk[d].now[f].system = s.system})
  /\ UNCHANGED <<outages, tariffs, cards, threshold>>

SetThreshold(h) ==
  /\ EditCosts /\ h # threshold
  /\ threshold' = h
  /\ Unsettle({f \in Costed : outages[f].type = "DEGRADATION"},
              {d \in Busy : \E f \in DOMAIN desk[d].now : desk[d].now[f].type = "DEGRADATION"})
  /\ UNCHANGED <<outages, tariffs, cards, services>>

-----------------------------------------------------------------------------
FailureCostsNext ==
  \/ \E f \in Outages, r \in Reports : EnterOutage(f, r)
  \/ \E f \in Outages, at \in Moments, end \in Moments \cup {NONE} : Correct(f, at, end)
  \/ \E d \in Desks, f \in Outages, form \in CostForms : SaveEconomics(d, f, form)
  \/ \E d \in Desks, S \in SUBSET Outages \ {{}} : \E said \in [S -> ExportLines] : ImportExport(d, said)
  \/ \E d \in Desks, fs \in SUBSET Outages : CountForRisk(d, fs)
  \/ \E d \in Desks : CommitCosts(d) \/ GiveUp(d)
  \/ \E t \in Tariffs : AddTariff(t)
  \/ \E t \in Tariffs : \E becomes \in {{}} \cup {{u} : u \in Tariffs} : UpdateTariff(t, becomes)
  \/ \E p \in BusinessProcesses, form \in CardForms : PriceMinute(p, form)
  \/ \E s \in Services : Link(s)
  \/ \E h \in Thresholds : SetThreshold(h)

FailureCostsSpec == FailureCostsInit /\ [][FailureCostsNext]_costVars

-----------------------------------------------------------------------------
\* What is kept is what would be computed now.
Current(F, f) ==
  /\ F[f].bill \in Bills(F, f)
  /\ F[f].type = "DEGRADATION" => F[f] = Keyed(F[f]) /\ F[f].counts = CountsAsDowntime(F[f])

(***************************************************************************)
(* The sum kept on a failure is what would be computed of it now, unless   *)
(* the failure was corrected, an earlier failure of the month that shares  *)
(* a line of the vendor was, or a rate, a process or a threshold it uses   *)
(* was, since it was computed or while it was. Nothing else makes a kept   *)
(* sum wrong: no later failure, no other system's, no other line's hours,  *)
(* nor that a risk computes it without asking for the package              *)
(* (recompute, compute_incident_cost, recompute_ale).                      *)
(***************************************************************************)
KeptIsCurrent == \A f \in Costed \ doubtful : Current(outages, f)

\* A failure nobody computed has no hours and no coefficient, so no package is asked for.
UncostedIsBare ==
  \A f \in DOMAIN outages \ Costed :
    outages[f].type = "DOWNTIME" /\ outages[f].vendor = {} /\ Worked(outages[f]) = {}

(***************************************************************************)
(* The package of a month is spent once: where nothing is in doubt and no  *)
(* two failures began at one moment, what the failures of a system bill    *)
(* inside the package of a line, but for what rounding to the vendor's     *)
(* quanta added to their hours, is no more than the package                *)
(* (_vendor_hours_used, vendor_labor_cost).                                *)
(***************************************************************************)
OnVendor(s, m, l) ==
  { f \in Costed :
      /\ outages[f].system = s /\ Calendar[outages[f].at].month = m
      /\ l \in outages[f].vendor /\ l \in Worked(outages[f]) }

InsidePackage(f, l) ==
  LET b == outages[f].bill.lines[l] IN IF b = NONE THEN 0 ELSE b.packaged
AddedByQuanta(f, l) ==
  LET b == outages[f].bill.lines[l] IN IF b = NONE THEN 0 ELSE b.billed - outages[f].labor[l]

Packages(l) == {t.package : t \in {t \in tariffs : t.line = l /\ t.package # NONE}}

PackageSpentOnce ==
  \A s \in Estate, l \in SupportLines, m \in {Calendar[at].month : at \in Moments} :
    LET fs == OnVendor(s, m, l)
    IN (fs \cap doubtful = {} /\ \A f, g \in fs : outages[f].at = outages[g].at => f = g) =>
         \A p \in Packages(l) : (\A q \in Packages(l) : q <= p) =>
           SumFunction([f \in fs |-> InsidePackage(f, l) - AddedByQuanta(f, l)]) <= p

=============================================================================
