---------------------------- MODULE Notifications ----------------------------
(***************************************************************************)
(* Mail and its journal (notifications/service.py): a handler's notice,    *)
(* the daily scan (governance and assessment notifications_scan.py) and    *)
(* the repetition of failed mails, hourly or by an administrator.  The     *)
(* channel is asked BEFORE the journal row is committed, and any of them   *)
(* may die in between.                                                     *)
(***************************************************************************)
EXTENDS Naturals, Sequences, FiniteSets, Orm

CONSTANTS
  Measures,            \* approved measures with a deadline
  Systems,             \* systems that are assessed every quarter
  Retriers,            \* the slots in which retry_failed runs
  Hourly,              \* the slot of the hourly task; the others are POST /retry
  DueSoonDays,         \* notify_due_soon_days
  QuarterDays,         \* days in a quarter
  MAX_INLINE_ATTEMPTS,
  MAX_TOTAL_ATTEMPTS,
  MaxDay,              \* bound: the last day
  MaxRows,             \* bound: rows of the journal
  MaxDisturbances,     \* bound: how often a process dies, an administrator asks for a
                       \* repetition or users change what the jobs read
  NULL

ASSUME HourlyAssumption == Hourly \in Retriers
ASSUME AttemptsAssumption ==
  /\ MAX_INLINE_ATTEMPTS \in Nat \ {0}
  /\ MAX_TOTAL_ATTEMPTS \in Nat /\ MAX_INLINE_ATTEMPTS < MAX_TOTAL_ATTEMPTS
ASSUME BoundsAssumption ==
  /\ DueSoonDays \in Nat /\ QuarterDays \in Nat \ {0}
  /\ MaxDay \in Nat /\ MaxRows \in Nat /\ MaxDisturbances \in Nat

(***************************************************************************)
(* What a mail is about.  The stamp is what the dedupe key adds to kind    *)
(* and subject: the due date of the measure, the quarter without an        *)
(* assessment.  Mails of handlers carry no key, and no stamp.              *)
(***************************************************************************)
Quarters == 0 .. (MaxDay \div QuarterDays)

Events ==
  [kind : {"due_soon"}, about : Measures, stamp : 0 .. MaxDay] \cup
  [kind : {"measurement_overdue"}, about : Systems, stamp : Quarters] \cup
  [kind : {"decided"}, about : Measures, stamp : {NULL}]

(***************************************************************************)
(* A row of notification_deliveries; address: whether there is one.        *)
(***************************************************************************)
Row ==
  [event : Events, address : BOOLEAN,
   status : {"SENT", "FAILED", "UNDELIVERABLE"},
   attempts : 1 .. MAX_TOTAL_ATTEMPTS, is_retryable : BOOLEAN]

VARIABLES
  now,       \* today
  due,       \* the deadline of each measure
  done,      \* the measures whose execution is DONE
  latest,    \* the last quarter each system has an assessment of, or NULL
  contact,   \* what the owner field of a subject leads to: nobody named, no address, an address
  journal,   \* the committed rows
  letter,    \* the rows a handler has sent and not yet committed (one at most)
  scan,      \* the daily task: its phase, whom it has still to mail, its uncommitted rows
  retry,     \* the copies each run of retry_failed works on
  disturbed, \* how many disturbances there have been
  accepted,  \* history: how often the channel took a mail of each event (up to MaxRows)
  lost       \* history: the events a row of which died with its process

world == <<now, due, done, latest, contact>>
vars == <<now, due, done, latest, contact, journal, letter, scan, retry, disturbed,
          accepted, lost>>

Subjects == Measures \cup Systems

Phases == {"idle", "due_soon", "measurement_overdue"}

TypeOK ==
  /\ now \in 0 .. MaxDay
  /\ due \in [Measures -> 0 .. MaxDay] /\ done \subseteq Measures
  /\ latest \in [Systems -> Quarters \cup {NULL}]
  /\ contact \in [Subjects -> {"blank", "unknown", "known"}]
  /\ journal \in Seq(Row) /\ Len(journal) <= MaxRows
  /\ letter \in Seq(Row) /\ Len(letter) <= 1
  /\ scan \in [phase : Phases, todo : SUBSET Events, rows : Seq(Row), ran : BOOLEAN]
  /\ DOMAIN retry = Retriers
  /\ \A r \in Retriers :
       /\ retry[r].seen \in Seq(Row) /\ retry[r].new \in Seq(Row)
       /\ Len(retry[r].seen) = Len(retry[r].new) /\ Len(retry[r].seen) <= Len(journal)
  /\ disturbed \in 0 .. MaxDisturbances
  /\ accepted \in [Events -> 0 .. MaxRows] /\ lost \subseteq Events

-----------------------------------------------------------------------------
NoRetry == [seen |-> <<>>, new |-> <<>>]

\* Everybody named has an address, deadlines lie ahead, no system has been
\* assessed: users change all that.
Init ==
  /\ now = 0
  /\ due = [m \in Measures |-> MaxDay] /\ done = {}
  /\ latest = [s \in Systems |-> NULL]
  /\ contact = [s \in Subjects |-> "known"]
  /\ journal = <<>> /\ letter = <<>>
  /\ scan = [phase |-> "idle", todo |-> {}, rows |-> <<>>, ran |-> FALSE]
  /\ retry = [r \in Retriers |-> NoRetry]
  /\ disturbed = 0
  /\ accepted = [e \in Events |-> 0] /\ lost = {}

-----------------------------------------------------------------------------
\* Rows that are being written somewhere and not in the journal yet.
InFlight == Len(letter) + Len(scan.rows)

\* One of the bounded disturbances.
Disturb == disturbed < MaxDisturbances /\ disturbed' = disturbed + 1

\* The channel takes one more mail of e.
Capped(n) == IF n > MaxRows THEN MaxRows ELSE n

Taken(e, ok) == accepted' = IF ok THEN [accepted EXCEPT ![e] = Capped(@ + 1)] ELSE accepted

(***************************************************************************)
(* _deliver and the row dispatch makes of its answer: up to                *)
(* MAX_INLINE_ATTEMPTS calls, the last of which succeeds if ok.  The       *)
(* channel is asked even when there is no address.                         *)
(***************************************************************************)
Dispatched(e, ok, tries) ==
  LET address == contact[e.about] = "known"
      status == IF ~ address THEN "UNDELIVERABLE" ELSE IF ok THEN "SENT" ELSE "FAILED"
  IN [event |-> e, address |-> address, status |-> status, attempts |-> tries,
      is_retryable |-> status = "FAILED"]

\* The answers of the channel to one dispatch: it succeeded at some try, or at none.
Answers == ({TRUE} \X (1 .. MAX_INLINE_ATTEMPTS)) \cup {<<FALSE, MAX_INLINE_ATTEMPTS>>}

\* Mutant: the key is looked for among the delivered mails only.
AlreadySent(e) == \E i \in DOMAIN journal : journal[i].event = e /\ journal[i].status = "SENT"

\* The dedupe check: a SELECT of committed rows with the key, in whatever status.
Already(e) == \E i \in DOMAIN journal : journal[i].event = e

(***************************************************************************)
(* A handler (decide, take_to_work ...) tells the owner, after its own     *)
(* commit: mail first, then the row and its commit.                        *)
(***************************************************************************)
Emit(m) ==
  LET e == [kind |-> "decided", about |-> m, stamp |-> NULL]
  IN /\ letter = <<>> /\ contact[m] # "blank"
     /\ Len(journal) + InFlight < MaxRows
     /\ \E a \in Answers :
          /\ letter' = <<Dispatched(e, a[1], a[2])>>
          /\ Taken(e, a[1])
     /\ UNCHANGED <<world, journal, scan, retry, disturbed, lost>>

\* Mutant: an undeliverable mail is not journalled.
EmitCommitAddressed ==
  /\ letter # <<>>
  /\ journal' = IF letter[1].address THEN journal \o letter ELSE journal
  /\ letter' = <<>>
  /\ UNCHANGED <<world, scan, retry, disturbed, accepted, lost>>

EmitCommit ==
  /\ letter # <<>>
  /\ journal' = journal \o letter /\ letter' = <<>>
  /\ UNCHANGED <<world, scan, retry, disturbed, accepted, lost>>

\* The process dies, or the INSERT fails, after the mail has gone.
EmitDie ==
  /\ letter # <<>>
  /\ Disturb /\ lost' = lost \cup {letter[1].event} /\ letter' = <<>>
  /\ UNCHANGED <<world, journal, scan, retry, accepted>>

-----------------------------------------------------------------------------
(***************************************************************************)
(* The daily scan.  Whom to mail is read once; each mail looks for its key *)
(* and is delivered; one commit ends a phase.                              *)
(***************************************************************************)
DueSoon ==
  {[kind |-> "due_soon", about |-> m, stamp |-> due[m]] :
     m \in {m \in Measures \ done : now <= due[m] /\ due[m] <= now + DueSoonDays}}

\* expected_period: the quarter before the one today is in (numbered from 1 on).
Expected == now \div QuarterDays

MeasurementOverdue ==
  {[kind |-> "measurement_overdue", about |-> s, stamp |-> Expected] :
     s \in {s \in Systems : latest[s] = NULL \/ latest[s] < Expected}}

ScanStart ==
  /\ scan.phase = "idle" /\ ~ scan.ran
  /\ scan' = [phase |-> "due_soon", todo |-> DueSoon, rows |-> <<>>, ran |-> TRUE]
  /\ UNCHANGED <<world, journal, letter, retry, disturbed, accepted, lost>>

\* No recipient is named, or the key is taken: no mail and no row.
ScanSkip(e) ==
  /\ e \in scan.todo
  /\ contact[e.about] = "blank" \/ Already(e)
  /\ scan' = [scan EXCEPT !.todo = @ \ {e}]
  /\ UNCHANGED <<world, journal, letter, retry, disturbed, accepted, lost>>

ScanEmit(e) ==
  /\ e \in scan.todo
  /\ contact[e.about] # "blank" /\ ~ Already(e)
  /\ Len(journal) + InFlight < MaxRows
  /\ \E a \in Answers :
       /\ scan' = [scan EXCEPT !.todo = @ \ {e}, !.rows = Append(@, Dispatched(e, a[1], a[2]))]
       /\ Taken(e, a[1])
  /\ UNCHANGED <<world, journal, letter, retry, disturbed, lost>>

\* notify_overdue_measurements follows notify_due_soon in the same task.
ScanCommit ==
  /\ scan.phase # "idle" /\ scan.todo = {}
  /\ journal' = journal \o scan.rows
  /\ scan' = [scan EXCEPT
       !.rows = <<>>,
       !.todo = IF scan.phase = "due_soon" THEN MeasurementOverdue ELSE {},
       !.phase = IF scan.phase = "due_soon" THEN "measurement_overdue" ELSE "idle"]
  /\ UNCHANGED <<world, letter, retry, disturbed, accepted, lost>>

\* An exception in a mail of the batch or the end of the worker: the rows of
\* the phase are rolled back, its mails stay delivered, tomorrow is another run.
ScanDie ==
  /\ scan.phase # "idle"
  /\ Disturb
  /\ lost' = lost \cup {scan.rows[i].event : i \in DOMAIN scan.rows}
  /\ scan' = [scan EXCEPT !.phase = "idle", !.todo = {}, !.rows = <<>>]
  /\ UNCHANGED <<world, journal, letter, retry, accepted>>

-----------------------------------------------------------------------------
\* Mutant: one attempt too many.
FailedOrExhausted(rows) ==
  {i \in DOMAIN rows : rows[i].status = "FAILED" /\ rows[i].attempts <= MAX_TOTAL_ATTEMPTS}

\* The rows retry_failed selects.
Failed(rows) ==
  {i \in DOMAIN rows : rows[i].status = "FAILED" /\ rows[i].attempts < MAX_TOTAL_ATTEMPTS}

\* Mutant: a repetition marks the row whatever the channel says.
RetriedBlindly(row, ok) ==
  [row EXCEPT !.attempts = @ + 1,
              !.status = "SENT",
              !.is_retryable = ~ ok /\ row.attempts + 1 < MAX_TOTAL_ATTEMPTS]

\* Mutant: an attempt that fails is not counted.
RetriedUncounted(row, ok) ==
  [row EXCEPT !.attempts = IF ok THEN @ + 1 ELSE @,
              !.status = IF ok THEN "SENT" ELSE @,
              !.is_retryable = ~ ok]

\* What one more attempt makes of the copy of a row.
Retried(row, ok) ==
  [row EXCEPT !.attempts = @ + 1,
              !.status = IF ok THEN "SENT" ELSE @,
              !.is_retryable = ~ ok /\ row.attempts + 1 < MAX_TOTAL_ATTEMPTS]

(***************************************************************************)
(* A run: the failed rows are read and each is mailed once.  What happens  *)
(* to the journal meanwhile it does not see.                               *)
(***************************************************************************)
RetryDeliver(r) ==
  /\ retry[r] = NoRetry /\ Failed(journal) # {}
  /\ IF r = Hourly THEN UNCHANGED disturbed ELSE Disturb
  /\ \E delivered \in SUBSET Failed(journal) :
       /\ retry' = [retry EXCEPT ![r] =
            [seen |-> journal,
             new |-> [i \in DOMAIN journal |->
                        IF i \in Failed(journal) THEN Retried(journal[i], i \in delivered)
                        ELSE journal[i]]]]
       /\ accepted' = [e \in Events |->
            Capped(accepted[e] + Cardinality({i \in delivered : journal[i].event = e}))]
  /\ UNCHANGED <<world, journal, letter, scan, lost>>

\* The journal after the batch: the changed columns of the rows it had loaded.
Merged(rt) ==
  [i \in DOMAIN journal |->
     IF i \in DOMAIN rt.seen THEN Flush(journal[i], rt.seen[i], rt.new[i]) ELSE journal[i]]

RetryCommit(r) ==
  /\ retry[r] # NoRetry
  /\ journal' = Merged(retry[r])
  /\ retry' = [retry EXCEPT ![r] = NoRetry]
  /\ UNCHANGED <<world, letter, scan, disturbed, accepted, lost>>

\* The attempts of the whole batch are forgotten; the mails are not.
RetryDie(r) ==
  /\ retry[r] # NoRetry
  /\ Disturb /\ retry' = [retry EXCEPT ![r] = NoRetry]
  /\ UNCHANGED <<world, journal, letter, scan, accepted, lost>>

-----------------------------------------------------------------------------
Change == Disturb /\ UNCHANGED <<now, journal, letter, scan, retry, accepted, lost>>

\* An e-mail is filled in or taken away, an owner is named or removed.
Correct(s) ==
  /\ Change
  /\ \E c \in {"blank", "unknown", "known"} : c # contact[s] /\ contact' = [contact EXCEPT ![s] = c]
  /\ UNCHANGED <<due, done, latest>>

\* A deadline is moved, a measure is finished, a system is assessed.
Replan(m) ==
  /\ Change /\ \E d \in now .. MaxDay : d # due[m] /\ due' = [due EXCEPT ![m] = d]
  /\ UNCHANGED <<done, latest, contact>>

Finish(m) ==
  /\ Change /\ m \notin done /\ done' = done \cup {m}
  /\ UNCHANGED <<due, latest, contact>>

Assess(s) ==
  /\ Change /\ latest[s] # Expected /\ latest' = [latest EXCEPT ![s] = Expected]
  /\ UNCHANGED <<due, done, contact>>

\* A task that runs into the next day does not exist.
Tick ==
  /\ now < MaxDay /\ scan.phase = "idle"
  /\ now' = now + 1 /\ scan' = [scan EXCEPT !.ran = FALSE]
  /\ UNCHANGED <<due, done, latest, contact, journal, letter, retry, disturbed, accepted, lost>>

RetryStep(r) == RetryDeliver(r) \/ RetryCommit(r)

Next ==
  \/ \E m \in Measures : Emit(m) \/ Replan(m) \/ Finish(m)
  \/ EmitCommit \/ EmitDie
  \/ ScanStart \/ ScanCommit \/ ScanDie
  \/ \E e \in Events : ScanSkip(e) \/ ScanEmit(e)
  \/ \E r \in Retriers : RetryStep(r) \/ RetryDie(r)
  \/ \E s \in Subjects : Correct(s)
  \/ \E s \in Systems : Assess(s)
  \/ Tick

Spec == Init /\ [][Next]_vars

\* Celery beat starts the repetition every hour, and it ends.
FairSpec == Spec /\ WF_vars(RetryStep(Hourly))

-----------------------------------------------------------------------------
(***************************************************************************)
(* Journal rows have different dedupe keys: the scan of the same day, of   *)
(* the next one, and one after a crash mail nobody twice who is in the     *)
(* journal.                                                                *)
(***************************************************************************)
OneRowPerKey ==
  \A i, j \in DOMAIN journal :
    journal[i].event = journal[j].event /\ journal[i].event.stamp # NULL => i = j

(***************************************************************************)
(* No mail goes out without a row of the journal, unless the process died  *)
(* between the two: what the channel took is in the journal, on its way    *)
(* there, or lost in a crash.                                              *)
(***************************************************************************)
MailHasRow ==
  \A e \in Events : accepted[e] > 0 =>
    \/ \E i \in DOMAIN journal : journal[i].event = e
    \/ \E i \in DOMAIN letter : letter[i].event = e
    \/ \E i \in DOMAIN scan.rows : scan.rows[i].event = e
    \/ e \in lost

(***************************************************************************)
(* A row never claims a delivery that did not take place, however          *)
(* repetitions overlap: the rows marked SENT are no more than the mails    *)
(* the channel took.                                                       *)
(***************************************************************************)
JournalTruthful ==
  \A e \in Events :
    Cardinality({i \in DOMAIN journal : journal[i].event = e /\ journal[i].status = "SENT"})
      <= accepted[e]

(***************************************************************************)
(* A failed mail is repeated until it is delivered or has had all its      *)
(* attempts, even when repetitions overlap (and then set the counter       *)
(* back).                                                                  *)
(***************************************************************************)
RetriedToTheEnd ==
  \A i \in 1 .. MaxRows : (i \in Failed(journal)) ~> (i \notin Failed(journal))

=============================================================================
