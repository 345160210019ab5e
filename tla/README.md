# Verification of ASOK-IS

ASOK-IS assesses the quality of a bank's information systems (ISO/IEC 25010),
turns the weak spots into risks in money and *measures* against them, and
follows each *nonconformity* until an independent auditor has confirmed that it
is closed. The server is FastAPI and SQLAlchemy (async) over PostgreSQL, with
Celery tasks for everything that happens by the calendar, a key-value store for
sessions, and a language model inside the server. This directory holds TLA+
models of its core, their TLC configurations and TLAPS proofs.

All paths below are relative to `src/backend/app/`. The hazards each property is
for are listed with their lines in `PROJECT.json`, and so are the lines every
definition stands for.

1. Inventory; 2. Modules and how they correspond to the code; 3. Runs, bounds,
fairness; 4. Proofs; 5. What is only model-checked, what is not modelled, what
is left; 6. Disagreements met on the way that no run shows.

## 1. Inventory

| Component (where) | State it keeps | Operations | Hard behaviour | What makes it correct |
|---|---|---|---|---|
| Sessions and the ORM (`infrastructure/database.py`) | one copy of a row per request or task | load, change, commit | no lock, no row version; the UPDATE names the changed columns only | a commit touches what its handler changed, nothing else |
| Measure (`modules/governance/service.py`, `economics_service.py`) | `proposals`: status and verdict, deadline twice (text and date), execution, actuals, effect in money, escalation, audit list | create, decide, update_meta, edit, update_task, set_execution, set_effort_hours, set_actuals, rewrite_for_executor, take_to_work, escalate, decide_escalation, resolve_escalation, set_measure_economics, recompute_economics | several people and a nightly task on one card; checks made before awaits; a verdict routed by facts of other tables | a verdict is final; work only on approved measures; a ruling belongs to its escalation |
| Price of inaction (`governance/economics_service.py`, `tasks.py`) | a snapshot, a current value, a history row per day | recompute one, recompute all (daily) | one failing card stops the batch; select-then-insert of the daily row | every overdue measure gets its price in the end |
| Nonconformity (`modules/nonconformity`) | `nonconformities`: a status out of seven, term, verdict, signature, measure, executor, verifier, history | create, evaluate, decide, assign_measure, start, execute, verify; nightly escalation of nonconformities and of measures | a chain of status checks; separation of duties by name; tasks beside users | stages passed in order; independent verification; nothing overdue stays silent |
| Assessment (`modules/assessment`, `dataio/router.py`) | periods (DRAFT, CALCULATED, COMPLETE), values, judgments, checklist items | create, save metrics, add value, import, carry over, finalize, reopen, set depth; checklist | locks checked once and used after awaits; items refused half-way; two contours on one status column | a complete period is complete and does not change without a reopen |
| Assessment of AI systems (`assessment/ai_*.py`, `quality/ai_*.py`) | forms, weights, experts' scores, data sets | save, agree (concordance), transfer, complete | ties, missing weights, a mean written over a measured row | an agreed group is accepted; the mean stays within its values; what is complete is calculated |
| Quality model, scoring (`quality/scoring.py`, `depth.py`) | none (pure) | two-level weighted mean, required set by depth | missing values, zero weights; which quarter is the last | only the last quarter that says something makes the score |
| Weight versions (`quality/weight_versions.py`) | versions, one active; score snapshots | publish, edit, recompute | two editors; death between two commits | exactly one active version; the active one holds every edit |
| Risk register (`modules/risk`) | risk events, links to failures (shares), characteristics, measures | link, recompute ALE, thresholds | three steps of a recomputation; shares capped in one place and not in another | the owner is told of a rise once; the money of two screens adds up |
| Economics (`modules/econ`) | rates, reference book, configuration | fill, confirm, change; pure engine, dashboards, queues | a fill works from what it read at its start | a confirmed rate is not refilled |
| Cost of a failure (`incidents/economics_service.py`, `econ/service.py`, `econ/economics.py`) | the economics and the sum on the row of a failure | save economics, ITSM import, recompute for a risk; change of rates, prices, links, threshold | a kept sum is made of other rows: earlier failures of the month, rates, processes | what is kept is what would be computed, or what it is made of was changed; a package is spent once |
| Incidents (`modules/incidents`) | the register of failures, aliases, groups | manual edits, table import, ITSM import (upsert by external id), correlation | import beside edits and imports | a ticket is one failure; one failure is one window |
| Notifications (`modules/notifications`) | delivery journal | dispatch, emit, scans, retry_failed | delivery before the commit; retries; dedupe key | no mail without a journal row; no claimed delivery that was not |
| Sessions, throttling (`modules/iam`) | JWT, key-value store (Redis or memory) | login, refresh, logout, change_password, revoke; counters and locks | a token used twice; a crash between commit and revocation; sign-ins that all pass the check | a closed session stays closed; attempts are bounded |
| Permissions, audit (`modules/iam`) | role matrix, cache per process, audit log | set, read, seed | stale caches | a process sees its own changes |
| LLM subsystem (`modules/llm`) | model, queue, cache of answers; memory of conclusions | complete, warmup, reload; reason, recall, remember, accept, reject | three locks; reload beside questions; one conclusion is an input of the next | everybody is answered; the cache of answers outlives no reload, but for an answer then in flight; no number is invented |
| Reporting (`modules/reporting`), register of systems (`modules/systems`) | none / `systems` | views, CRUD | two screens choose quarters and systems by different rows | they show the same figures |
| Migrations (`../alembic`, `scripts/migrate.py`, `init_db.py`) | the schema, `alembic_version` | upgrade in two places, stamp, downgrade, create_all, deployment | two upgrades at once; a container killed in one; an older image | what serves finds the schema it names |
| Ports (`infrastructure/integrations`) | none | ITSM, DWH, KMS, task sync, mail stubs | failure of the other side | callers survive it |

How they interact. HTTP handlers call a service function with a session of
their own; services of one module call those of another inside that session.
The nonconformity service writes `is_blocking_override` into the measure it
assigns, and its nightly task escalates overdue measures, so the measure has
writers in two modules. The measure's decision reads the risk register (is the
card linked, how much is at risk); the risk register reads the incidents. The
two assessment contours write one status column. Every state change of interest
mails somebody through the notification journal. Celery beat
(`infrastructure/workers.py`) starts the nightly jobs, which run in a process of
their own beside the web workers.

What is hard here is that no handler locks what it reads: any two of them, or
one of them and a task, may work on copies of the same row.

## 2. Modules

| Module | Models | Instance | Proofs |
|---|---|---|---|
| `Orm`, `Absent` | what a commit writes: for every column the copy's value if the handler changed it, the row's otherwise; the value NONE | used by most of the others | lemmas in each proof module |
| `Measure` | one measure with every handler that writes a modelled column, the nonconformity that assigns it and the nightly task | `MCMeasure` | `MeasureProofs` |
| `Closure` | the contour a nonconformity is promised to follow (abstract) | refined by `Nonconformity` | `NonconformityProofs` |
| `Nonconformity` | one nonconformity, its six handlers and its nightly task | `MCNonconformity`, `MCNightly`, `MCOverlaps` | `NonconformityProofs` |
| `Inaction` | the nightly pricing of overdue measures and the button beside it | `MCNightly` | `NonconformityProofs` |
| `Assessment` | one assessment period with its values: save, add, import, carry over, complete, reopen, depth, and the AI contour on the same period row | `MCAssessment`, `MCRegisters` | `RegistersProofs` |
| `AiPanel` | the panel of one AI system: values, weights, data sets, experts' scores, their agreement and transfer, completion | `MCRegisters` | `FiguresProofs` |
| `RiskEvents` | one risk event, its links, its recomputation and mail, its money on two screens | `MCRegisters` | `FiguresProofs` |
| `Rates` | the rates of support: fill, refresh, confirm, change; the reference book and the profile | `MCRegisters` | `RegistersProofs` |
| `WeightVersions` | the versions of the weights: publish, edit, recount, journal | `MCRegisters` | `RegistersProofs` |
| `Incidents` | the register of failures: both imports, correlation, aliases, groups, calibration, edits by hand | `MCOverlaps` | `IncidentsProofs` |
| `FailureCosts` | what a failure costs, and the sum kept on it: repair, downtime, the vendor's package; what changes under it | `MCOverlaps` | `FiguresProofs` |
| `Dashboards` | the scores two screens make of the quarters, the effect of measures, the lists of judgments to be written | `MCRegisters` | `FiguresProofs` |
| `Migrations` | the schema of the base and the code deployed on it: upgrades, stamp, downgrades, create_all | `MCOverlaps` | `AccessProofs` |
| `Revisions`, `OrmModels` | data: the chain of 27 revisions as tables, columns and references; the tables the application's classes name | `MCOverlaps` | |
| `Notifications` | the journal of mails: handler's notice, daily scan, repetitions | `MCNotifications` | `NotificationsProofs` |
| `Sessions` | the sessions of one account | `MCOverlaps` | `AccessProofs` |
| `Throttle` | the limit on failed sign-ins of one name | `MCOverlaps` | `AccessProofs` |
| `Permissions` | the matrix of roles and its copies | `MCOverlaps` | `AccessProofs` |
| `Inference` | the runtime of the language model: load, queue, cache, reload | `MCLlm` | `LlmProofs` |
| `Reasoning` | a conclusion in its passes, the memory of conclusions, the trust table | `MCLlm` | `LlmProofs` |

`MCOverlaps`, `MCRegisters`, `MCNightly` and `MCLlm` put several specifications
side by side that share no variable. A behaviour is of one of them, chosen in
the initial state (`part`, in `MCOverlaps` `overlap`), while the others stay as they began: TLC explores the
sum of the state spaces and not their product, and loses nothing, since the
parts do not interact in the code either, or interact through what one of them
has as an input of any value (the exposure of a measure, the failures of a risk).

### Correspondence with the code

*A handler is two steps or more*: what it reads (`Load`, `…Read`, `…Check`), then
the operator named after the service function, which commits; one step for every
`await` between the two that other requests can tell (`decide` has `Route`,
`finalize_assessment` has `Explained`, `refresh` checks, consumes, reads and mints,
a recomputation of a risk reads, commits and notifies). The copy a handler works
on is in its slot (`req[r].seen`, `task[u].loaded`, `pricing[j].copies`): every
guard looks at the copy, never at the row. The commit is `Flush(row, seen, new)`.
A handler that is refused, or that dies, leaves nothing (`Refuse`, `Abandon`,
`…Die`), as the session is closed without a commit; where the code has two
commits, or a commit and a write to the key-value store, the death comes between
them too.

*Serial and overlapping.* With one slot, handlers run one after another; with
two, they overlap in every way. Both are the same specification. What is true of
a card used by one person at a time is checked and proved under
`Serial == \A r, s \in Requests : r = s` (or `Requests \subseteq {s}`), the rest
under no such assumption.

*Columns.* Texts, comments and time stamps written together with a modelled
column are left out. In `Measure`, `effort_hours`, `executor_brief`, `actuals`,
`taken_to_work` are whether the value is there, `escalation_reason` is the number
of the escalation it was written for, and of the audit list the model keeps what
the code reads of it and the parity of its length, which is enough for an
appended list to differ from the one loaded. `Nonconformity` keeps the list whole.

*Other tables.* `exposure` is what `has_linked_risks` and `route_measure` would
answer about the card; it changes at any time (`Revalue`). `critical` is whether
a CRITICAL nonconformity names the card. Permissions of single endpoints are not
part of `Measure` but for the two of the decision: the model lets everybody call.
In `Nonconformity` they are, since separation of duties is about them.

*Days.* `now` (`today` in `Inaction`) counts days. In `Measure` and `Nonconformity`
a handler takes seconds: none is in flight when the day changes (`Tick`). The pricing of a
night may be.

*Assessment.* `values` maps a pair to its rows: nothing in the database makes them
one, and inserting is an append. What a form or a file says is the X its inputs
come to, NULL when one is missing. A form refused for want of a reason has still
changed its row (`Saved`), a line of a workbook that fails has still added one
(`ImportLine`).

*AiPanel.* Weights and values are small numbers; concordance is computed as the
code does, with its correction for ties, in fractions. The weights are those of both levels, of
the characteristics and within each. The formulas of the single metrics are an input.

*Notifications.* The channel answers with whether it took the mail and how many
attempts that was; a row's identity is its event (kind, subject, stamp), of which
the dedupe key is made; an event without a stamp has none.

*Sessions.* A pair of tokens is the row it was minted from, its session and its
moment; `closed`, `used` and `cutoff` are the keys of the store. The store is
atomic per key (`SET NX`, `INCR`), the row and the store are not.

*Incidents.* A ticket is its number, CI, group, moment and parent. The stable sort is the
place of each line among those before it (`Before`, `Nth`), the sweep a recursive function along
those places. A line without a number or a moment is dropped (`to_record`); one whose moment cannot be
read is a record (`ExportRecords`), but no line of the sweep and no row (`Lines`). A file may
repeat a ticket: its last line gives its row, every line takes part in the sweep, and its last
*record*, readable or not, gives the row's system (`AsRow`).

*FailureCosts.* Time is in minutes, coefficients in parts of one, money exact. A request takes two
steps: it reads and computes (`Compute`, under `SaveEconomics`, `ImportExport` and
`CountForRisk`) and commits (`CommitCosts`) the columns it changed (`Merged`). `cost_total` and
`cost_breakdown` are one column, `bill`. `resolve_support_rate` has no ORDER BY: where several
rates apply, any of them is chosen (`RateChoices`). A failure is identified by its system, or by
its name where it has none, as in `_vendor_hours_used`.

*Dashboards.* X is in hundredths. The state is the registers; the screens are operators of it.
A quarter is a label `Qn-YYYY`, ordered as `period_sort_key` orders them.

*Migrations.* A part of the schema is `<<t, n>>`: what revision n makes of table t. A run of
alembic is one transaction: it opens (`Open`) at the version it read and commits
(`Upgrade`) only if the version is still that one. What an image's classes name is compared
column by column with what the chain makes (`Models`, from `OrmModels`; `Chain`, from `Revisions`).

*Inference.* The three locks are guards on where the other threads are; the queue
is the counter the code keeps. *Reasoning.* A text is the set of percents in it;
a pass may use any percents, and `Kept` is the control that drops a text with one
that was not in the input.

*History variables* record what happened for the properties only (`past`,
`completed_by`, `stale`, `accepted`, `lost`, `excused`, `edited`, `stated`, `moved`,
`word`, `unsure`, `asked`, `checked`, `doubtful`, `shaken`, `made`, `behind`, `taken_back`); no guard reads them, but for the bounds
(`past` numbers the escalations for `MaxRaised`).

## 3. Runs

| Run | Instance | Shows |
|---|---|---|
| `measure_serial` | one slot; a top manager and the executor who owns the card; four days | `RulingMatchesEscalation`, `AutoEscalatedOnce`, `DecisionFinal` |
| `measure_races` | two slots, a top manager and a quality manager; the handlers whose columns meet | `WorkFollowsApproval`, `NothingForgotten` |
| `measure_decision_race` | two `decide` | *violates* `DecisionFinal` |
| `measure_due_dates` | `update_task` | *violates* `DueDatesAgree` |
| `closure_verifier` | the slot of `nightly`, users and task in turn | *violates* `IndependentVerification` |
| `notifications` | a handler's mail, the daily scan on two days, two repetitions at once, crashes between delivery and commit | `OneRowPerKey`, `MailHasRow`, `JournalTruthful`, `RetriedToTheEnd` |
| `overlaps`, part `sessions` | two requests, an administrator's edit, a death half-way | `OneLiveRefresh`, `TokensSpeakForTheAccount`, `ClosedForGood` |
| `overlaps`, part `throttle` | sign-ins for one name from two addresses | `AttemptsBounded` |
| `overlaps`, part `permissions` | web and worker process, two saves, a restart | `OwnChangesSeen` |
| `overlaps`, part `closure` | two handlers on one nonconformity, an administrator and an auditor | `MilestonesKept`, `AcceptanceSigned` |
| `overlaps`, part `incidents` | two imports into the register of failures beside a correction by hand | `TicketOnce`, `OneFailureOneWindow` |
| `overlaps`, part `migrations` | the real chain; an image of revision 12 and one of 27, two runs, a stamp, downgrades to 11 and 26, create_all, deaths | `SchemaOfItsVersion`, `ServedWhole` |
| `overlaps`, part `costs` | two failures, two requests; a vendor's rate with a package and a rate of one's own | `KeptIsCurrent`, `PackageSpentOnce` |
| `permissions_choice` | part `permissions` | *violates* `ChoiceKept` |
| `nightly`, part `nonconformity` | one slot shared by users and task; an administrator, a risk manager, an auditor; four days | `ContourHonoured` (refinement of `Closure`), `OverdueNeverSilent` |
| `nightly`, part `inaction` | two overdue measures, the nightly pricing, the button, deaths of the task | `OverduePriced` |
| `registers`, part `assessment` | one slot; an AI system; two pairs, one without a row at first; two depths; two items a save, two lines a file | `CompletedStillCounts`, `CompleteIsLocked` |
| `registers`, part `panel` | three subcharacteristics, three experts, two cards of scores, seven forms of a value, weights of either level and of both | `AgreedAlike`, `QualityWithin`, `CompleteIsCalculated` |
| `registers`, part `risks` | two failures, two overlapping recomputations, three edits | `CrossingIsTold`, `MoneyAddsUp` |
| `registers`, part `conditions` | the conditions of the AI panel's tests: data set, outliers, parity | only the types (`RegistersTypeCorrect`) |
| `registers`, part `rates` | two users who fill, confirm and change; book and profile change | `ConfirmedIsNotRefilled` |
| `registers`, part `weights` | two callers who publish and edit, a recount | `LastWord` |
| `registers`, part `scores` | two systems, three quarters over the turn of a year, two metrics | `ScreensAgree`, `LastQuarterSpeaks` |
| `registers`, part `judgments` | two quarters of one system and the last of the other, two judgments, some of a pair nobody values; lists cut to one system and to one and three values | `ScreensAgree` |
| `weights_two_active` | part `weights`, one version more | *violates* `ExactlyOneActive` |
| `llm`, part `inference` | two threads that ask, the warm-up, a reload and a swap of the file | `CacheOfTheModel`, `EveryoneAnswered` |
| `llm`, part `reasoning` | a chain of three conclusions through the memory, a verdict, a restart | `NothingInvented`, `BoardOnGrounds` |

The type invariants were checked on these runs first and are theorems now (section 4), so no
run repeats them. `OverlapsTypeOK`, `NightlyTypeOK`, `RegistersTypeOK` and `LlmTypeOK` are the
types of the part a behaviour is of. The five violations are disagreements of the code with its own
comments and messages; `PROJECT.json` quotes each.

What the runs with overlapping requests say is not that overlapping is harmless. Two of them
may decide a card twice, repeat a stage of a nonconformity or set it back, lose an entry of a history,
leave two versions active. They say what survives all that: facts once recorded
are not taken back, because a commit names only the columns its handler changed
and no handler resets those columns; of two verdicts on a nonconformity, the
signed one never loses its signature; and where two versions are active, a later
edit is still in one of them.

### Bounds, and why they are enough

* *Two slots* (two requests, callers, users, recomputations, importers): the code
  gives a handler no way to see more than one other commit between its load and
  its own commit that two handlers one after the other in the second slot could not produce.
  Where a property counts (`AttemptsBounded`, `CrossingIsTold`), its proof is for any number.
* `Measure`: `MaxRaised = 2` (an escalation, its ruling, and one more: the task
  escalates at most once, so that both orders of task and person occur);
  `SlaDays = 2`, `SlaDaysCritical = 1`, `MaxDay = 3`, deadline on day 0: both terms pass, on
  different days. The runs with races keep the calendar still.
* `Nonconformity`: `MaxLog = 7` in `nightly`, six stages and the task's entry, the longest
  history of a serial path; `MaxLog = 6` and `MaxDay = 0` in `overlaps`: the nightly task does not
  overlap there; the proofs let it.
* `Notifications`: attempts 1 and 3 for the code's 3 and 6, so that a row is
  repeated and given up; `QuarterDays = 1`, `DueSoonDays = 1` and two days: each scan has
  one day on which it mails and one on which it must not; two rows, two disturbances (a death or a late import).
* `Sessions`: three pairs (sign-in, renewal, one more); `Throttle`: limits 2 and
  3 for 5 and 10, three lockouts: both limits are reached, each first.
* `Incidents`: `WINDOW = 1` unit (45 minutes in the code), moments and lags 0 and 1: inside and outside of a
  window; five rows, three imports, one correction; a file that gives one ticket twice, with and
  without a readable moment.
* `FailureCosts`: two failures that may be earlier and later in one month, or in two; three
  moments, one past the end of the month; `MaxCostEdits = 2` besides entering a failure and
  committing: two requests at once, or one and a change under it; the package is one
  hour and the edits bill half an hour (a quantum rounds it up) and an hour and a half, so that it
  is left, used up and exceeded; two rates, of which the failure's own system has one.
* `Migrations`: the chain is the real one, so the bounds are only which images and targets there
  are: 12 and 27, before and after the revisions began to check what is there; 11 and 26, one
  revision back from each.
* `Dashboards`: `MaxJudgments = 2`; quarters on both sides of the turn of a year; sheets that are
  blank, in part impossible to measure, and filled. `LISTED = 1` for the 30 systems the manager is
  told of, and `Limits` 0 and 3 (0 counts as 1) for 1000 values: every list is cut and is whole.
* `Assessment`: two depths, one of which requires a pair the other does not; two
  items a save, so that one form may be refused and another accepted; two lines a file, so that a
  file may repeat a pair; `MaxRows = 2`, the second row such a file adds.
* `AiPanel`: `TOP = 6` for the scale, `WHOLE = 3` for the sum of weights: none, of the characteristics,
  within one of them, and one that is refused; three experts (fewer have no concordance to speak
  of), cards that agree and cards that do not. `CHI2` are the critical values of
  `chi2_sf` at `ALPHA = 0.05` in thousandths, for one and two degrees of freedom, which is
  two and three subcharacteristics: `AgreedAlike` is about groups up to three by three. `RiskEvents`: `SHARE = 2` parts make
  a whole failure, so that half, whole and more than whole shares occur. `Rates`:
  two rates, two changes. `WeightVersions`: three versions, a first, an edit, an edit of it.
* `Inaction`: two nights, so that the second finds a row of the first; two
  turns of the task, the second after a death or on the second night.
* `Inference`: `LLM_MAX_WAITING = 1` for 4 and `CACHE_MAX_ENTRIES = 1` for 256: both are reached; one
  swap and one reload. `Reasoning`: `RECALL_MAX = 1` for 3, three conclusions: one that
  is recalled, one that recalls it, one that recalls that.
* `overlaps` begins with one role and, where costs do not matter, with one threshold: the roles
  are not told apart, so that loses nothing.
* Symmetry is used over requests in `overlaps`, over failures and recomputations in
  `registers`, never in a run with a liveness property. The MC modules choose the handlers an
  instance lets run (`Ops`, `Parts`, `Overlaps`), so that every handler appears with those it
  shares columns with.

### Fairness

Nothing is assumed of users: nobody has to decide, answer, retry or sign out.

* `OverdueNeverSilent`: a request ends (`WF` on `Abandon`: a handler neither commits nor
  fails for ever is not in the model), and the nightly task gets its turn and does not die each time (`SF`
  on `TaskLoad`, `TaskEscalate`). Celery beat starts it daily and it waits for no
  handler: strong fairness stands for a task that is started again and
  again, however busy the row is.
* `OverduePriced`: `WF` on the steps of the nightly pricing. A death costs it one turn of `MaxTurns`.
* `RetriedToTheEnd`: `WF` on the steps of the hourly repetition, not of a repetition
  somebody starts by hand.
* `EveryoneAnswered`: `WF` on every thread that asks and on the reload: a lock is
  taken in the end by who waits for it, and inference returns (it has a limit of tokens).

## 4. Proofs

For every value of the constants that satisfies the assumptions named in the
modules. Those assumptions say of constants what the code has fixed (a term of
at least one day, the inline attempts fewer than the total, the special values
unlike the others, finitely many threads); TLC evaluates each on the runs.
"However many" below means: for any set of requests, any interleaving, any length of behaviour.

A property is seldom inductive, because a commit writes from a copy as old as you like.
The strengthening is nearly always of one kind: what is claimed of the row is claimed
*of every copy in flight*, with a relation of copy and row that every commit of another request keeps.

**`MeasureProofs`.** `TypeCorrect`, with the count of automatic escalations
(`AutoCounted`). However many handlers overlap, from `OverlapInv`: `WorkFollowsApproval`, `NothingForgotten`,
and that a verdict has an author. `OverlapInv` says of the row and of every copy
that it is truthful about the past, and that what a copy records the row records
too; both survive `Flush` because the facts in question only grow. One handler at a
time, from `SerialInv`: `RulingMatchesEscalation`, `AutoEscalatedOnce`, `DecisionFinal`, that work is only on approved
measures and that a blocking one is decided by a top manager. Its heart is
`SeenIsRow`: the copy in flight is the row, so that a guard on the copy is one on
the row.

**`NonconformityProofs`.** However many handlers and nightly tasks overlap:
`MilestonesKept`, `AcceptanceSigned`. A stage sets the status its own copy leads to, on a row whose
other columns came from elsewhere; so `ContourInv` has both properties of the row and of every
copy, and that the row keeps what any copy records (`Records`). The status is not
among what is recorded: it can go back. With `Requests \subseteq {Task}`,
`ContourSerially`: the service implements `Closure`, every commit a step of the documented contour and
all else a stutter. The invariant of `Inaction` says that a copy may lack a price its row
has by now and never the reverse; with it, `NightlyTypeCorrect` for the composition.

**`NotificationsProofs`.** `Typed` adds to the types that a repetition's copies are rows
of the journal as they were, with no more attempts than the row has room for.
`OneRowPerKey` needs `KeysApart`: the scan's SELECT sees committed rows only,
so what it has sent and not committed, and what it is going to send, must be
apart from the journal and from each other. `MailHasRow` needs to know where the row
of a mail is (`MailsAccounted`): in the journal, in the handler's or the scan's
transaction, or lost with a death. `JournalTruthful` is counting: rows marked SENT, *or
about to be marked by a repetition in flight*, and SENT rows on their way, are no
more than the mails taken (`ClaimsCovered`). It holds although a repetition can
set the columns of another back.

**`AccessProofs`.** Sessions: `OneLiveRefresh` needs `OneEnd`: a request past `SET NX` and before its
new pair stands in for the pair it took, so that a session has at most one end, whether or not
it is alive. `TokensSpeakForTheAccount` is inductive with what requests hold.
`ClosedForGood` is an action property of the same invariant: no step brings a pair back, and a
pair minted into a closed session is refused from the start. Throttling: `AttemptsBounded`, for any
limits, addresses and number of requests: while a key is open its counter and the failures not counted
yet are the whole history (`CountersTrue`); it passes its limit only by requests that are about to lock
it (`CountersBounded`); once it is locked, only requests that were past the check add to the history
(`LockHolds`). These are four parts of one invariant, none inductive alone. Permissions: `OwnChangesSeen`
for any number of processes and any catalogue. Migrations, for any chain, images and
downgrades: `SchemaOfItsVersion` is inductive with the types and with `Whole`, that with a part of a
table the base has the table, since a downgrade drops tables and columns separately. `ServedWhole` needs `RunsKnow`, what an open run has read, and `ServedInv`: a
container that serves has the version its image ends with. `MCOverlaps` implements each of
its seven components (`OverlapsImplementEach`); the types of six give `OverlapsTypeCorrect`, those of
`FailureCosts` are `CostsTypeCorrect`, beside the lemmas on sums they need.

**`IncidentsProofs`.** `TicketOnce` and `OneFailureOneWindow`, for every export and table, any
number of importers and any window. Three layers. *The file*: the places of the sort are taken
each by one line and keep its order (`NthLine`, by counting); every line is a record, and of a
ticket with one record the line has that record's system (`FromRecords`); a link the sweep finds joins two
lines of one group within the window (`SweepLinks`, by induction along the sweep). *The commit*:
the rows an import writes are those it found, one for each ticket, and after them exactly the next
numbers of the register (`Targets`, `WrittenRows`); a row nobody changed meanwhile becomes its
line (`AfterRow`). *The invariant* (`IncidentsInv`): of an import in flight, the rows of a ticket
are exactly those it found, unless the ticket is in the hands of two imports or repeated in the
file; the keys of a table are in the register only if another brought them or an edit did. TLC checked it on the
instance of `overlaps` before it was proved. Induction is on the least counterexample: `Least` is the
first-order form of the library's theorem on well-founded orders.

**`FiguresProofs`.** Sums. What `SumFunction`, `ProductSet` and the other folds of the community
modules return is proved from their definitions: a fold takes the element its set picks, so a
subset of a finite set that contradicted a claim about it would have a smallest one
(`SmallestSet`); from there that there is one fold and only one (`FoldUniqueWith`,
`FoldExistsWith`), and its monotonicity, bounds and divisibility. With them, for any number of failures,
characteristics, measures, recomputations and experts:
*risks*: the loss is an amount, whatever failures cost (`RisksTypeCorrect`; an expert's estimate is not negative, section 5);
`CrossingIsTold`: among the recomputations past their commit exactly one, or the mail it has sent,
accounts for the loss being over the appetite (`Told`); `MoneyAddsUp`: the part of a
cell is the loss by the number of characteristics, which divides the whole.
*AI panel*: `CompleteIsCalculated` from `PanelInv`: agreement writes only rows that are computed, so
it may write them into a complete period. `QualityWithin`: a weighted mean lies within
any bounds of what it is taken of, whatever weights of either level were saved, and Q is one mean
of others.
`AgreedAlike`, by algebra: the correction for ties is what
the squares of deviations of (doubled) ranks lack of their largest sum, so the denominator of W is
`3 * (Spread + D)`, where D says how far the experts are from each other; with two experts or two
subcharacteristics the critical value is out of reach, with three by three only `D = 0` reaches it.

*Dashboards*: the labels of quarters are ordered by year and quarter, so the newest of them is one;
`OnlyLastQuarterSpeaks`: what is changed before the last quarter that says something leaves it the
last (`LastStaysLast`). `DashboardsAgree` holds in every state, whatever the register holds
and wherever the lists are cut: a system left out of the first so many has no more judgments than those kept (`LeftOut`).
*Costs of failures*, for any number of failures, requests, rates, links and edits:
`KeptIsCurrentAlways`, from `CostsInv`. Three things have to be added to it. A failure nobody computed has no
hours and no vendor (`UncostedIsBare`): that is why a risk may compute it with no hours of the
package used. What a request holds (`JobsOK`): while nothing under it has changed, the rows it read are
as they were and every sum it will write is current beside the others it will write; two
requests bring a new failure only once. And the types, with the natural numbers that a sum is made
of. The heart is `UnstirredIsCurrent`: a sum depends on its own row, and of all other rows only on
those that come before it in its month on a line of the same vendor; so an edit that `Shaken` does not
see leaves it current. TLC checked `CostsInv` on the instance of `overlaps` before it was
proved. `PackageSpentOnceAlways` follows from it: of the failures that take something of the package beyond
what quanta added, the latest took at most what all before it had left, and those after it took nothing
(`SumCompare`, `BeganLast`, `InsideOfOne`).

**`RegistersProofs`.** *Assessment*: `AssessmentTypeCorrect` for any number of overlapping handlers; the lines
of an imported file are a fold, each of which keeps the types (`More`). For one handler at a time
(`Requests \subseteq {s}`) and any pairs and
depths: `CompletedStillCounts` and the action property `CompleteIsLocked`, from `UpToDate`: what
a handler has read is still there when it commits, its checks included. That the
hypothesis is needed is no accident: with two, both fail (section 6).
*Rates*: `ConfirmedIsNotRefilled`, for any
users and any book: the copies a fill writes back differ from what it loaded only in
lines that were not settled when it loaded them (`OnlyUnsettled`), and `Flush` writes
differences only. *Weights*: `LastWord`: however publications and edits cross and
wherever requests die, there is an active version once there was any, and if
only one is active it holds every committed edit. *The composition*: every behaviour of `MCRegisters` is one of
each of its components (`RegistersImplementEach`), so that what is proved of a component
holds of the composition; `RegistersTypeCorrect` is such a case.

**`LlmProofs`.** `CacheOfTheModel`, for any threads, models and sizes: needs who holds
what at each place (`ThreadsFit`), that a load goes into an empty place (`LoadsIntoNone`), and that
a thread in the model holds the model that is loaded (`HoldsTheModel`), since the reload takes the lock of
inference before it frees. The types contain that the queue's counter is
the number of threads that wait and that one thread at most is in the model. `NothingInvented`,
through any chain of recalls: what is recalled was known to somebody who asked, and a text is
kept only if its percents are in the input of its pass; the invariant says so of every
trace while it is written (`RequestFits`). `BoardOnGrounds`: the trust table is asked before the
ninth section is there, but counts enough of the rest. `LlmTypeCorrect` for the composition.

## 5. What is only model-checked, what is not modelled, what is left

*Out of the prover's reach:* the four liveness properties `OverdueNeverSilent`, `OverduePriced`, `RetriedToTheEnd`,
`EveryoneAnswered`. They rest on fairness, hence on `ENABLED`, which the prover
does not expand. TLC has them on the instances above. Every other property of a passing run is a theorem.

*What the theorems assume.* The serial ones (of `Measure`, `Assessment`, and the contour of `Nonconformity`) say `Serial` or
`Requests \subseteq {s}` and are false without it. The expert's estimate of a loss is not negative
(`UpdateRisk`): its form has `min={0}` (`frontend/src/pages/riskEconomics/RiskEventsTab.tsx`),
the schema of the API sets no bound, so a caller who bypasses the form can make the loss
a negative number. A failure may cost less than nothing (one that was resolved before it
occurred, `econ/service.py`), and counts as one that costs nothing.
`PanelAssumption` fixes the two critical values `AgreedAlike` compares with.
`DashboardsAssumption` and the costs: systems are keyed by name on the screens and are taken to have
distinct names; all labels of periods are of one form. `PackageSpentOnce` says nothing of failures
that began at one moment, which do not count each other, nor of failures in doubt.

*Left:* of overlapping handlers of `Assessment` only the types are proved; what they keep of
the two serial properties is not stated yet.

*Not modelled:* the cockpit and the lists of reporting, the self-check of the model, prompts
and personas, the pure economics of effects (discounting, scenarios, the queue of the budget), seeds,
schemas of the API and the frontend. They keep no state of a protocol: they compute a
picture from the rows or fill an empty data base, and what could be wrong in
them is arithmetic over real numbers or wording. They are most of the rest of the lines: 30 % of the
lines have a definition here. In `FailureCosts` the rounding to kopecks, the correction of
moments by the monitoring and what `cost_breakdown` says beside the hours and the money are left
out, and a request reads at one instant what the code reads in several queries. In `Migrations` types,
defaults, indexes and rewrites of data are left out. The
catalogue of systems is plain records; the ports are stubs, modelled by what their callers see.

## 6. Disagreements met on the way that no run shows

Governance (`modules/governance`)

* A measure approved before its economics are filled in freezes an effect of NULL, and the
  metrics of managers take the current one instead (`econ/manager_metrics_service.py:175` against `:11`).
* A measure linked to no risk is refused by `decide` and escalated by `escalate` and the task
  (`service.py:432`), where `:184` names both.
* A measure counts as overdue by `due_on` on one screen and by the parsed text on
  another; the priority's overdue mark ignores the status (`service.py:133`).
* `take_to_work` does not look at the execution: work starts on what is done.
* Two nonconformities may name one measure; which decides "verified" is the order of a SELECT.

Nonconformity (`modules/nonconformity/service.py`)

* The history is read, appended and written as a whole: of two handlers at once, one loses its entry (`:60`).
* `assign_measure` looks neither at the measure's status nor at its execution
  (`:160`), and `:168` sets its blocking flag, which changes who may decide, also after the decision.
* The nightly escalation commits all rows together (`:236`): one row that cannot be written undoes them all.

Assessment (`modules/assessment`, `modules/quality`)

* The two contours complete one status column: completing the AI contour makes a
  period COMPLETE that fails the check of the other (`ai_router.py:342`).
* The lock is checked once: a save that began before a completion commits after it (`router.py:569`).
* A rejected checklist item waits for the owner, whom the code does not let answer
  it (`analyst_load_service.py:222`); answer and verification may cross.
* A judgments form that names a pair twice fails as a whole; `judgments_status` wants all
  31 judgments also at the screening depth, while the list of pending ones is empty.
* `judgments_status` tells of 30 systems (`router.py:1091`), those that lack the fewest judgments, where its text
  speaks of the systems that have empty ones; `judgments_pending` is cut to `limit` values (`:1188`), also with
  `all_periods`. Beyond, a system with values to judge is on neither list or on one.
* AI panel: two overlapping `save_ai_values` or `apply_consensus` mix columns of one row; a data
  set form without its criterion wipes the result of the check for outliers; the group's values stay when its scores change.
* Weights are committed before the journal entry that names them (`quality/router.py:225`).

Incidents (`modules/incidents/itsm_service.py`)

* Of a ticket an export repeats, the link comes from one line, the row's moment from the last with
  one, and its system from the last record, also when that one's moment cannot be read and it is skipped
  (`:78-105`): a child may be outside the window of its parent, or of another system.
* The link of a child is never taken back, also when a later export moves the ticket away from its parent.

Notifications (`modules/notifications`)

* The dedupe key is an index and not unique (`models.py:47`): only the SELECT of `dispatch` (`service.py:107`)
  keeps a key to one row. With one daily scan that suffices; two scans at once would write two.

Costs of failures (`incidents/economics_service.py`, `econ/service.py`)

* A failure switched from a degradation back to a full stop loses the inputs of its coefficient
  and keeps the coefficient, which still scales the cost of its downtime (`econ/service.py:518`); the
  comment at `economics_service.py:127` says that the inputs are cleared lest K «из прошлого» be carried along.
* A sum is not computed again when an earlier failure of the month is entered, edited or imported,
  though `:78` counts the hours used before it; nor when a rate, a price, a link or the
  threshold changes. Two requests on one failure at once leave a sum that agrees with neither.
* The hours used before are counted as worked, the bill in whole quanta (`:99`, `economics.py:159`): the
  package lasts longer than the vendor would bill. Failures of one instant do not count each other
  (`:90`), and failures known by name only are not counted for those with a system.
* New parameters of a price that do not suffice to compute it leave the old price beside the new
  parameters (`econ/service.py:319`). Of several rates that apply the first one the base happens to return is taken (`:421`).

Migrations (`../alembic/versions`, `scripts/migrate.py`)

* `ExpertJudgmentHistory` has `updated_at` (`assessment/models.py:203`), which no revision creates;
  `tests/test_migrations_parity.py` compares the names of tables only.
* `scripts/init_db.py:3` says that `main.py` creates the schema at its start; `main.py:116` says
  that it does not any more.
* Revisions 001 to 012 fail on what exists, 013 and later check first; `stamp` takes for present
  what it does not look at. 012 cannot be taken back whole: its extension `vector` stays, where
  `docs/ТЗ_04_Бэкенд_API_Модули.md:633` says that every migration has a downgrade. 026
  grants again the permissions an administrator has taken away between.
* The pipeline runs `alembic upgrade head` beside the container's own (`.gitlab-ci.yml:131`), and the
  worker's container does not wait for the migration.

Risks, reports

* The heat map divides a loss by links, the register by distinct characteristics. A
  negative appetite is accepted (`risk/event_schemas.py:30`).
* Opening a new quarter without values takes a system out of the executive's
  figure, while the assessment screen shows the quarter before (`reporting/router.py:491`, whose
  comment at `:489` promises the choice of `/assessments/dashboard`; `score_sheet.py:4`); the
  regression gate compares with such an opened quarter too.
* "Low" is counted by the raw score (< 0.41) in one place and the rounded one (< 41) in
  another; the anomaly threshold of the trend of scores cannot be reached.

Language model (`modules/llm`)

* `reload` clears the cache of answers without its lock, and an answer in flight is cached after the
  clearing (this is the exception `CacheOfTheModel` makes); a fallback text is cached like an answer; the endpoint blocks the event
  loop while it reloads (`reporting/router.py:155`).
* The cache of conclusions has no bound and is cleared neither by a reload nor by a
  rejection (`reasoning.py:773`). Personas share the fingerprint by which a conclusion
  is rejected in the memory, and what was drawn from a conclusion rejected later stays.
* Two processes write the memory's files through one temporary name.
* Recall adds two points for an accepted conclusion of an unrelated system. The fallback of
  the ninth section is not counted in the confidence, and "high" is out of reach for three of the callers.
