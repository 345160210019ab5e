------------------------ MODULE NotificationsProofs ------------------------
(***************************************************************************)
(* Proofs about Notifications, for every set of measures, systems and      *)
(* repetitions, every limit of attempts and every bound: what the journal  *)
(* of mails says, however its writers overlap and die.                     *)
(***************************************************************************)
EXTENDS Notifications, TLAPS, FiniteSetTheorems

(***************************************************************************)
(* The copies a repetition works on are of rows that are still there, and  *)
(* no repetition changes what a row is about.                              *)
(***************************************************************************)
CopiesFit(j, rt) ==
  /\ rt \in [Retriers -> [seen : Seq(Row), new : Seq(Row)]]
  /\ \A r \in Retriers :
       /\ Len(rt[r].seen) = Len(rt[r].new) /\ Len(rt[r].seen) <= Len(j)
       /\ \A i \in 1 .. Len(rt[r].seen) :
            rt[r].seen[i].event = j[i].event /\ rt[r].new[i].event = j[i].event

\* The bound on rows holds of the rows in flight too.
RoomKept == Len(journal) + Len(letter) + Len(scan.rows) <= MaxRows

\* Handlers' mails carry no key, those of the scan are of the scan's kinds.
KindsFit ==
  /\ \A i \in 1 .. Len(letter) :
       letter[i].event.kind = "decided" /\ letter[i].event.stamp = NULL
  /\ \A e \in scan.todo : e.kind # "decided"
  /\ \A i \in 1 .. Len(scan.rows) : scan.rows[i].event.kind # "decided"

Typed == TypeOK /\ CopiesFit(journal, retry) /\ RoomKept /\ KindsFit

-----------------------------------------------------------------------------
(***************************************************************************)
(* Sequences.                                                              *)
(***************************************************************************)
LEMMA RowsOf ==
  ASSUME NEW n \in Nat, NEW f \in [1 .. n -> Row]
  PROVE  f \in Seq(Row) /\ Len(f) = n /\ DOMAIN f = 1 .. n
OBVIOUS

LEMMA Rows ==
  ASSUME NEW t \in Seq(Row)
  PROVE  /\ Len(t) \in Nat /\ DOMAIN t = 1 .. Len(t)
         /\ \A i \in 1 .. Len(t) : t[i] \in Row
OBVIOUS

LEMMA Joined ==
  ASSUME NEW j \in Seq(Row), NEW t \in Seq(Row)
  PROVE  /\ j \o t \in Seq(Row) /\ Len(j \o t) = Len(j) + Len(t)
         /\ \A i \in 1 .. Len(j) : (j \o t)[i] = j[i]
         /\ \A i \in (1 .. Len(j) + Len(t)) \ (1 .. Len(j)) :
              i - Len(j) \in 1 .. Len(t) /\ (j \o t)[i] = t[i - Len(j)]
OBVIOUS

LEMMA Appended ==
  ASSUME NEW t \in Seq(Row), NEW row \in Row
  PROVE  /\ Append(t, row) \in Seq(Row) /\ Len(Append(t, row)) = Len(t) + 1
         /\ \A i \in 1 .. Len(t) : Append(t, row)[i] = t[i]
         /\ Append(t, row)[Len(t) + 1] = row
OBVIOUS

-----------------------------------------------------------------------------
(***************************************************************************)
(* The operators of the model.                                             *)
(***************************************************************************)
LEMMA QuarterOf ==
  ASSUME NEW d \in 0 .. MaxDay
  PROVE  d \div QuarterDays \in Quarters
<1> DEFINE a == d \div QuarterDays
           b == MaxDay \div QuarterDays
<1>1. QuarterDays \in Nat \ {0} /\ MaxDay \in Nat /\ d \in Nat /\ d <= MaxDay
  BY BoundsAssumption
<1>2. /\ a \in Nat /\ QuarterDays * a <= d
      /\ b \in Nat /\ MaxDay < QuarterDays * b + QuarterDays
  BY <1>1
<1>3. QuarterDays * (b + 1) = QuarterDays * b + QuarterDays
  BY <1>1, <1>2
<1>4. ASSUME b + 1 <= a PROVE FALSE
  <2> HIDE DEF a, b
  <2>1. QuarterDays * (b + 1) <= QuarterDays * a
    BY <1>1, <1>2, <1>4
  <2>2. QuarterDays * (b + 1) \in Int /\ QuarterDays * a \in Int
    BY <1>1, <1>2
  <2> QED
    BY <1>1, <1>2, <1>3, <2>1, <2>2
<1>5. a <= b
  <2> HIDE DEF a, b
  <2> QED
    BY <1>2, <1>4
<1> HIDE DEF a, b
<1>6. a \in 0 .. b
  BY <1>2, <1>5
<1> QED
  BY <1>6 DEF a, b, Quarters

LEMMA DueSoonEvents ==
  ASSUME TypeOK
  PROVE  /\ DueSoon \subseteq Events /\ \A e \in DueSoon : e.kind # "decided"
         /\ MeasurementOverdue \subseteq Events /\ \A e \in MeasurementOverdue : e.kind # "decided"
<1>1. \A m \in Measures : due[m] \in 0 .. MaxDay
  BY DEF TypeOK
<1>2. Expected \in Quarters
  BY QuarterOf DEF Expected, TypeOK
<1>3. \A e \in DueSoon : e \in Events /\ e.kind # "decided"
  BY <1>1 DEF DueSoon, Events
<1>4. \A e \in MeasurementOverdue : e \in Events /\ e.kind # "decided"
  BY <1>2 DEF MeasurementOverdue, Events
<1> QED
  BY <1>3, <1>4

LEMMA AnswerType ==
  ASSUME NEW a \in Answers
  PROVE  a[1] \in BOOLEAN /\ a[2] \in 1 .. MAX_TOTAL_ATTEMPTS
<1>1. /\ MAX_INLINE_ATTEMPTS \in 1 .. MAX_TOTAL_ATTEMPTS
      /\ 1 .. MAX_INLINE_ATTEMPTS \subseteq 1 .. MAX_TOTAL_ATTEMPTS
  BY AttemptsAssumption
<1>2. CASE a \in {TRUE} \X (1 .. MAX_INLINE_ATTEMPTS)
  BY <1>1, <1>2
<1>3. CASE a = <<FALSE, MAX_INLINE_ATTEMPTS>>
  BY <1>1, <1>3
<1> QED
  BY <1>2, <1>3 DEF Answers

LEMMA DispatchedFits ==
  ASSUME NEW e \in Events, NEW a \in Answers
  PROVE  LET row == Dispatched(e, a[1], a[2])
         IN row \in Row /\ row.event = e /\ (row.status = "SENT" => a[1])
BY AnswerType DEF Dispatched, Row

LEMMA RetriedFits ==
  ASSUME NEW row \in Row, row.attempts < MAX_TOTAL_ATTEMPTS, NEW ok \in BOOLEAN
  PROVE  LET q == Retried(row, ok)
         IN /\ q \in Row /\ q.event = row.event
            /\ row.status # "SENT" => (q.status = "SENT" <=> ok)
<1>1. row.attempts + 1 \in 1 .. MAX_TOTAL_ATTEMPTS
  BY AttemptsAssumption DEF Row
<1> QED
  BY <1>1 DEF Retried, Row

LEMMA FlushFits ==
  ASSUME NEW cur \in Row, NEW old \in Row, NEW new \in Row,
         old.event = cur.event, new.event = cur.event
  PROVE  LET q == Flush(cur, old, new)
         IN /\ q \in Row /\ q.event = cur.event
            /\ q.status = "SENT" => cur.status = "SENT" \/ new.status = "SENT"
BY DEF Flush, Row

\* The journal once the batch of a repetition is committed.
LEMMA MergedFits ==
  ASSUME Typed, NEW r \in Retriers
  PROVE  LET j == Merged(retry[r])
         IN /\ j \in Seq(Row) /\ Len(j) = Len(journal)
            /\ \A i \in 1 .. Len(journal) :
                 /\ j[i].event = journal[i].event
                 /\ j[i].status = "SENT" =>
                      \/ journal[i].status = "SENT"
                      \/ i \in 1 .. Len(retry[r].seen) /\ retry[r].new[i].status = "SENT"
<1> DEFINE j == Merged(retry[r])
           n == Len(journal)
<1>1. /\ journal \in Seq(Row) /\ n \in Nat /\ DOMAIN journal = 1 .. n
      /\ retry[r].seen \in Seq(Row) /\ retry[r].new \in Seq(Row)
      /\ DOMAIN retry[r].seen = 1 .. Len(retry[r].seen)
      /\ Len(retry[r].seen) = Len(retry[r].new) /\ Len(retry[r].seen) \in Nat
      /\ Len(retry[r].seen) <= n
  BY DEF Typed, TypeOK
<1>2. ASSUME NEW i \in 1 .. n
      PROVE  /\ j[i] \in Row /\ j[i].event = journal[i].event
             /\ j[i].status = "SENT" =>
                  \/ journal[i].status = "SENT"
                  \/ i \in 1 .. Len(retry[r].seen) /\ retry[r].new[i].status = "SENT"
  <2>1. CASE i \in 1 .. Len(retry[r].seen)
    <3>1. /\ journal[i] \in Row /\ retry[r].seen[i] \in Row /\ retry[r].new[i] \in Row
          /\ retry[r].seen[i].event = journal[i].event /\ retry[r].new[i].event = journal[i].event
      BY <1>1, <2>1 DEF Typed, CopiesFit
    <3>2. j[i] = Flush(journal[i], retry[r].seen[i], retry[r].new[i])
      BY <1>1, <2>1 DEF Merged
    <3> HIDE DEF j
    <3> QED
      BY <2>1, <3>1, <3>2, FlushFits
  <2>2. CASE i \notin 1 .. Len(retry[r].seen)
    <3>1. j[i] = journal[i] /\ journal[i] \in Row
      BY <1>1, <2>2 DEF Merged
    <3> QED
      BY <3>1
  <2> QED
    BY <2>1, <2>2
<1>3. j \in [1 .. n -> Row]
  <2>1. DOMAIN j = 1 .. n /\ j = [i \in 1 .. n |-> j[i]]
    BY <1>1 DEF Merged
  <2> HIDE DEF j
  <2> QED
    BY <1>2, <2>1
<1>4. j \in Seq(Row) /\ Len(j) = n
  <2> HIDE DEF j, n
  <2> QED
    BY <1>1, <1>3, RowsOf
<1> QED
  BY <1>2, <1>4

(***************************************************************************)
(* The bound on rows, as arithmetic on the three lengths.                  *)
(***************************************************************************)
LEMMA RoomOf ==
  ASSUME Typed
  PROVE  \E a, b, c \in Nat :
           /\ Len(journal) = a /\ Len(letter) = b /\ Len(scan.rows) = c
           /\ a + b + c <= MaxRows
           /\ InFlight = b + c
<1>1. Len(journal) \in Nat /\ Len(letter) \in Nat /\ Len(scan.rows) \in Nat
  BY DEF Typed, TypeOK
<1>2. Len(journal) + Len(letter) + Len(scan.rows) <= MaxRows
  BY DEF Typed, RoomKept
<1>3. InFlight = Len(letter) + Len(scan.rows)
  BY DEF InFlight
<1> QED
  BY <1>1, <1>2, <1>3, Zenon

LEMMA RoomLeft ==
  ASSUME NEW a \in Nat, NEW b \in Nat, NEW c \in Nat, a + b + c <= MaxRows,
         Len(journal') = a, Len(letter') = b, Len(scan'.rows) = c
  PROVE  RoomKept'
BY Zenon DEF RoomKept

-----------------------------------------------------------------------------
(***************************************************************************)
(* Types, action by action.                                                *)
(***************************************************************************)
LEMMA CappedType == \A n \in Nat : Capped(n) \in 0 .. MaxRows
BY BoundsAssumption DEF Capped

LEMMA TakenType ==
  ASSUME accepted \in [Events -> 0 .. MaxRows], NEW e \in Events, NEW ok \in BOOLEAN,
         Taken(e, ok)
  PROVE  accepted' \in [Events -> 0 .. MaxRows]
<1>1. accepted[e] + 1 \in Nat
  BY BoundsAssumption
<1>2. Capped(accepted[e] + 1) \in 0 .. MaxRows
  BY <1>1, CappedType
<1> QED
  BY <1>2 DEF Taken

LEMMA EmitTyped ==
  ASSUME Typed, NEW m \in Measures, Emit(m)
  PROVE  Typed'
<1> DEFINE e == [kind |-> "decided", about |-> m, stamp |-> NULL]
<1>1. PICK a \in Answers : letter' = <<Dispatched(e, a[1], a[2])>> /\ Taken(e, a[1])
  BY DEF Emit
<1>2. e \in Events /\ e.kind = "decided" /\ e.stamp = NULL
  BY DEF Events
<1> HIDE DEF e
<1> DEFINE row == Dispatched(e, a[1], a[2])
<1>3. row \in Row /\ row.event = e
  BY <1>2, DispatchedFits
<1>4. accepted' \in [Events -> 0 .. MaxRows]
  BY <1>1, <1>2, AnswerType, TakenType DEF Typed, TypeOK
<1>5. /\ letter' = <<row>> /\ letter = <<>> /\ Len(journal) + InFlight < MaxRows
      /\ UNCHANGED <<now, due, done, latest, contact, journal, scan, retry, disturbed, lost>>
  BY <1>1 DEF Emit, world
<1> HIDE DEF row
<1>6. /\ letter' \in Seq(Row) /\ Len(letter') = 1 /\ Len(letter) = 0
      /\ \A i \in 1 .. Len(letter') : letter'[i] = row
  BY <1>3, <1>5
<1>7. TypeOK'
  BY <1>4, <1>5, <1>6 DEF Typed, TypeOK
<1>8. RoomKept'
  <2>1. PICK d, b, c \in Nat : /\ Len(journal) = d /\ Len(letter) = b /\ Len(scan.rows) = c
                               /\ d + b + c <= MaxRows /\ InFlight = b + c
    BY RoomOf, Zenon
  <2>2. Len(journal') = d /\ Len(letter') = 1 /\ Len(scan'.rows) = c /\ d + (b + c) < MaxRows
    BY <1>5, <1>6, <2>1, Zenon
  <2>3. d + 1 + c <= MaxRows
    BY <2>2, BoundsAssumption
  <2> QED
    BY <2>2, <2>3, RoomLeft
<1>9. KindsFit'
  BY <1>2, <1>3, <1>5, <1>6 DEF Typed, KindsFit
<1> QED
  BY <1>5, <1>7, <1>8, <1>9 DEF Typed, CopiesFit

\* More rows at the end of the journal leave the copies where they are.
LEMMA CopiesOfMore ==
  ASSUME NEW j \in Seq(Row), NEW t \in Seq(Row), NEW rt, CopiesFit(j, rt)
  PROVE  CopiesFit(j \o t, rt)
<1>1. \A r \in Retriers : Len(rt[r].seen) \in Nat
  BY DEF CopiesFit
<1> QED
  BY <1>1, Joined, Rows DEF CopiesFit

LEMMA EmitCommitTyped ==
  ASSUME Typed, EmitCommit
  PROVE  Typed'
<1>1. /\ journal' = journal \o letter /\ letter' = <<>>
      /\ UNCHANGED <<now, due, done, latest, contact, scan, retry, disturbed, accepted, lost>>
  BY DEF EmitCommit, world
<1>2. /\ journal \in Seq(Row) /\ letter \in Seq(Row) /\ scan.rows \in Seq(Row)
      /\ Len(journal) + Len(letter) + Len(scan.rows) <= MaxRows
  BY DEF Typed, TypeOK, RoomKept
<1>3. /\ journal' \in Seq(Row) /\ Len(journal') = Len(journal) + Len(letter)
      /\ Len(journal) \in Nat /\ Len(letter) \in Nat /\ Len(scan.rows) \in Nat
      /\ letter' \in Seq(Row) /\ Len(letter') = 0
  BY <1>1, <1>2, Joined, Rows
<1>4. CopiesFit(journal', retry')
  BY <1>1, <1>2, CopiesOfMore DEF Typed
<1>5. Len(journal') <= MaxRows /\ RoomKept'
  <2>1. PICK a, b, c \in Nat : /\ Len(journal) = a /\ Len(letter) = b /\ Len(scan.rows) = c
                               /\ a + b + c <= MaxRows /\ InFlight = b + c
    BY RoomOf, Zenon
  <2>2. Len(journal') = a + b /\ Len(letter') = 0 /\ Len(scan'.rows) = c
    BY <1>1, <1>3, <2>1, Zenon
  <2>3. /\ a + b + 0 + c <= MaxRows /\ a + b \in Nat /\ 0 \in Nat
        /\ a + b <= MaxRows
    BY <2>1, BoundsAssumption
  <2> QED
    BY <2>2, <2>3, RoomLeft, Zenon
<1>6. \A r \in Retriers : Len(retry[r].seen) <= Len(journal')
  BY <1>1, <1>4 DEF CopiesFit
<1>7. TypeOK'
  BY <1>1, <1>3, <1>5, <1>6 DEF Typed, TypeOK
<1>8. KindsFit'
  BY <1>1, <1>3 DEF Typed, KindsFit
<1> QED
  BY <1>4, <1>5, <1>7, <1>8 DEF Typed, CopiesFit

LEMMA DisturbType == ASSUME Typed, Disturb PROVE disturbed' \in 0 .. MaxDisturbances
BY BoundsAssumption DEF Typed, TypeOK, Disturb

LEMMA EmitDieTyped ==
  ASSUME Typed, EmitDie
  PROVE  Typed'
<1>1. /\ letter' = <<>> /\ lost' = lost \cup {letter[1].event} /\ letter # <<>> /\ Disturb
      /\ UNCHANGED <<now, due, done, latest, contact, journal, scan, retry, accepted>>
  BY DEF EmitDie, world
<1>2. letter \in Seq(Row) /\ Len(letter) \in Nat \ {0} /\ Len(letter') = 0
  BY <1>1 DEF Typed, TypeOK
<1>3. letter[1] \in Row
  BY <1>2
<1>4. letter[1].event \in Events
  BY <1>3 DEF Row
<1>5. lost' \subseteq Events
  BY <1>1, <1>4 DEF Typed, TypeOK
<1>6. disturbed' \in 0 .. MaxDisturbances
  BY <1>1, DisturbType
<1>7. TypeOK'
  BY <1>1, <1>2, <1>5, <1>6 DEF Typed, TypeOK
<1>8. RoomKept'
  <2>1. PICK a, b, c \in Nat : /\ Len(journal) = a /\ Len(letter) = b /\ Len(scan.rows) = c
                               /\ a + b + c <= MaxRows /\ InFlight = b + c
    BY RoomOf, Zenon
  <2>2. Len(journal') = a /\ Len(letter') = 0 /\ Len(scan'.rows) = c
    BY <1>1, <1>2, <2>1, Zenon
  <2>3. a + 0 + c <= MaxRows /\ 0 \in Nat
    BY <2>1, BoundsAssumption
  <2> QED
    BY <2>2, <2>3, RoomLeft, Zenon
<1>9. KindsFit'
  BY <1>1, <1>2 DEF Typed, KindsFit
<1> QED
  BY <1>1, <1>7, <1>8, <1>9 DEF Typed, CopiesFit

-----------------------------------------------------------------------------
LEMMA ScanStartTyped ==
  ASSUME Typed, ScanStart
  PROVE  Typed'
<1>1. /\ scan' = [phase |-> "due_soon", todo |-> DueSoon, rows |-> <<>>, ran |-> TRUE]
      /\ UNCHANGED <<now, due, done, latest, contact, journal, letter, retry, disturbed,
                     accepted, lost>>
  BY DEF ScanStart, world
<1>2. DueSoon \subseteq Events /\ \A e \in DueSoon : e.kind # "decided"
  BY DueSoonEvents DEF Typed
<1>3. /\ scan'.todo = DueSoon /\ scan'.rows = <<>> /\ Len(scan'.rows) = 0
      /\ scan' \in [phase : Phases, todo : SUBSET Events, rows : Seq(Row), ran : BOOLEAN]
  <2> HIDE DEF DueSoon
  <2> QED
    BY <1>1, <1>2 DEF Phases
<1>4. TypeOK'
  BY <1>1, <1>3 DEF Typed, TypeOK
<1>5. RoomKept'
  <2>1. PICK a, b, c \in Nat : /\ Len(journal) = a /\ Len(letter) = b /\ Len(scan.rows) = c
                               /\ a + b + c <= MaxRows /\ InFlight = b + c
    BY RoomOf, Zenon
  <2>2. Len(journal') = a /\ Len(letter') = b /\ Len(scan'.rows) = 0
    BY <1>1, <1>3, <2>1, Zenon
  <2>3. a + b + 0 <= MaxRows /\ 0 \in Nat
    BY <2>1, BoundsAssumption
  <2> QED
    BY <2>2, <2>3, RoomLeft, Zenon
<1>6. KindsFit'
  BY <1>1, <1>2, <1>3 DEF Typed, KindsFit
<1> QED
  BY <1>1, <1>4, <1>5, <1>6 DEF Typed, CopiesFit

LEMMA ScanSkipTyped ==
  ASSUME Typed, NEW e \in Events, ScanSkip(e)
  PROVE  Typed'
<1>1. /\ scan' = [scan EXCEPT !.todo = @ \ {e}]
      /\ UNCHANGED <<now, due, done, latest, contact, journal, letter, retry, disturbed,
                     accepted, lost>>
  BY DEF ScanSkip, world
<1>2. scan \in [phase : Phases, todo : SUBSET Events, rows : Seq(Row), ran : BOOLEAN]
  BY DEF Typed, TypeOK
<1>3. /\ scan'.todo = scan.todo \ {e} /\ scan'.rows = scan.rows
      /\ scan' \in [phase : Phases, todo : SUBSET Events, rows : Seq(Row), ran : BOOLEAN]
  BY <1>1, <1>2
<1> QED
  BY <1>1, <1>3 DEF Typed, TypeOK, CopiesFit, RoomKept, KindsFit

LEMMA ScanEmitTyped ==
  ASSUME Typed, NEW e \in Events, ScanEmit(e)
  PROVE  Typed'
<1>1. PICK a \in Answers :
        /\ scan' = [scan EXCEPT !.todo = @ \ {e}, !.rows = Append(@, Dispatched(e, a[1], a[2]))]
        /\ Taken(e, a[1])
  BY DEF ScanEmit
<1> DEFINE row == Dispatched(e, a[1], a[2])
<1>2. row \in Row /\ row.event = e
  BY DispatchedFits
<1>3. /\ e \in scan.todo /\ Len(journal) + InFlight < MaxRows
      /\ UNCHANGED <<now, due, done, latest, contact, journal, letter, retry, disturbed, lost>>
  BY DEF ScanEmit, world
<1>4. accepted' \in [Events -> 0 .. MaxRows]
  BY <1>1, AnswerType, TakenType DEF Typed, TypeOK
<1>5. scan \in [phase : Phases, todo : SUBSET Events, rows : Seq(Row), ran : BOOLEAN]
  BY DEF Typed, TypeOK
<1>6. scan' = [scan EXCEPT !.todo = @ \ {e}, !.rows = Append(@, row)]
  BY <1>1
<1> HIDE DEF row
<1>7. scan.rows \in Seq(Row) /\ Append(scan.rows, row) \in Seq(Row)
  BY <1>2, <1>5
<1>8. /\ scan'.todo = scan.todo \ {e} /\ scan'.rows = Append(scan.rows, row)
      /\ scan' \in [phase : Phases, todo : SUBSET Events, rows : Seq(Row), ran : BOOLEAN]
  BY <1>5, <1>6, <1>7
<1>9. TypeOK'
  BY <1>3, <1>4, <1>8 DEF Typed, TypeOK
<1>10. RoomKept'
  <2>1. PICK d, b, c \in Nat : /\ Len(journal) = d /\ Len(letter) = b /\ Len(scan.rows) = c
                               /\ d + b + c <= MaxRows /\ InFlight = b + c
    BY RoomOf, Zenon
  <2>2. Len(scan'.rows) = Len(scan.rows) + 1
    BY <1>2, <1>7, <1>8
  <2>3. /\ Len(journal') = d /\ Len(letter') = b /\ Len(scan'.rows) = c + 1
        /\ d + (b + c) < MaxRows
    BY <1>3, <2>1, <2>2, Zenon
  <2>4. d + b + (c + 1) <= MaxRows /\ c + 1 \in Nat
    BY <2>3, BoundsAssumption
  <2> QED
    BY <2>3, <2>4, RoomLeft, Zenon
<1>11. KindsFit'
  <2>1. e.kind # "decided"
    BY <1>3 DEF Typed, KindsFit
  <2>2. ASSUME NEW i \in 1 .. Len(scan'.rows) PROVE scan'.rows[i].event.kind # "decided"
    <3>1. Len(scan.rows) \in Nat /\ Len(scan'.rows) = Len(scan.rows) + 1
      BY <1>2, <1>7, <1>8
    <3>2. CASE i \in 1 .. Len(scan.rows)
      BY <1>2, <1>7, <1>8, <3>2, Appended DEF Typed, KindsFit
    <3>3. CASE i = Len(scan.rows) + 1
      BY <1>2, <1>7, <1>8, <2>1, <3>3, Appended
    <3> QED
      BY <3>1, <3>2, <3>3
  <2> QED
    BY <1>3, <1>8, <2>2 DEF Typed, KindsFit
<1> QED
  BY <1>3, <1>9, <1>10, <1>11 DEF Typed, CopiesFit

LEMMA ScanCommitTyped ==
  ASSUME Typed, ScanCommit
  PROVE  Typed'
<1> DEFINE next == IF scan.phase = "due_soon" THEN MeasurementOverdue ELSE {}
           phase == IF scan.phase = "due_soon" THEN "measurement_overdue" ELSE "idle"
<1>1. /\ journal' = journal \o scan.rows
      /\ scan' = [scan EXCEPT !.rows = <<>>, !.todo = next, !.phase = phase]
      /\ UNCHANGED <<now, due, done, latest, contact, letter, retry, disturbed, accepted, lost>>
  BY DEF ScanCommit, world
<1>2. next \in SUBSET Events /\ \A e \in next : e.kind # "decided"
  BY DueSoonEvents DEF Typed
<1>3. phase \in Phases
  BY DEF Phases
<1> HIDE DEF next, phase
<1>4. /\ journal \in Seq(Row) /\ letter \in Seq(Row)
      /\ scan \in [phase : Phases, todo : SUBSET Events, rows : Seq(Row), ran : BOOLEAN]
      /\ Len(journal) + Len(letter) + Len(scan.rows) <= MaxRows
  BY DEF Typed, TypeOK, RoomKept
<1>5. /\ scan'.todo = next /\ scan'.rows = <<>> /\ Len(scan'.rows) = 0
      /\ scan' \in [phase : Phases, todo : SUBSET Events, rows : Seq(Row), ran : BOOLEAN]
  <2>1. scan' = [phase |-> phase, todo |-> next, rows |-> <<>>, ran |-> scan.ran]
    BY <1>1, <1>4
  <2> QED
    BY <1>2, <1>3, <1>4, <2>1
<1>6. scan.rows \in Seq(Row)
  BY <1>4
<1>7. /\ journal' \in Seq(Row) /\ Len(journal') = Len(journal) + Len(scan.rows)
      /\ Len(journal) \in Nat /\ Len(letter) \in Nat /\ Len(scan.rows) \in Nat
  BY <1>1, <1>4, <1>6, Joined, Rows
<1>8. CopiesFit(journal', retry')
  BY <1>1, <1>4, <1>6, CopiesOfMore DEF Typed
<1>9. Len(journal') <= MaxRows /\ RoomKept'
  <2>1. PICK a, b, c \in Nat : /\ Len(journal) = a /\ Len(letter) = b /\ Len(scan.rows) = c
                               /\ a + b + c <= MaxRows /\ InFlight = b + c
    BY RoomOf, Zenon
  <2>2. Len(journal') = a + c /\ Len(letter') = b /\ Len(scan'.rows) = 0
    BY <1>1, <1>5, <1>7, <2>1, Zenon
  <2>3. /\ a + c + b + 0 <= MaxRows /\ a + c \in Nat /\ 0 \in Nat
        /\ a + c <= MaxRows
    BY <2>1, BoundsAssumption
  <2> QED
    BY <2>2, <2>3, RoomLeft, Zenon
<1>10. \A r \in Retriers : Len(retry[r].seen) <= Len(journal')
  BY <1>1, <1>8 DEF CopiesFit
<1>11. TypeOK'
  BY <1>1, <1>5, <1>7, <1>9, <1>10 DEF Typed, TypeOK
<1>12. KindsFit'
  BY <1>1, <1>2, <1>5 DEF Typed, KindsFit
<1> QED
  BY <1>8, <1>9, <1>11, <1>12 DEF Typed, CopiesFit

LEMMA ScanDieTyped ==
  ASSUME Typed, ScanDie
  PROVE  Typed'
<1>1. /\ lost' = lost \cup {scan.rows[i].event : i \in DOMAIN scan.rows} /\ Disturb
      /\ scan' = [scan EXCEPT !.phase = "idle", !.todo = {}, !.rows = <<>>]
      /\ UNCHANGED <<now, due, done, latest, contact, journal, letter, retry, accepted>>
  BY DEF ScanDie, world
<1>2. /\ scan \in [phase : Phases, todo : SUBSET Events, rows : Seq(Row), ran : BOOLEAN]
      /\ lost \subseteq Events
  BY DEF Typed, TypeOK
<1>3. /\ scan'.todo = {} /\ scan'.rows = <<>> /\ Len(scan'.rows) = 0
      /\ scan' \in [phase : Phases, todo : SUBSET Events, rows : Seq(Row), ran : BOOLEAN]
  <2>1. scan' = [phase |-> "idle", todo |-> {}, rows |-> <<>>, ran |-> scan.ran]
    BY <1>1, <1>2
  <2> QED
    BY <1>2, <2>1 DEF Phases
<1>4. \A i \in DOMAIN scan.rows : scan.rows[i].event \in Events
  <2>1. scan.rows \in Seq(Row)
    BY <1>2
  <2> QED
    BY <2>1, Rows DEF Row
<1>5. lost' \subseteq Events
  BY <1>1, <1>2, <1>4
<1>6. disturbed' \in 0 .. MaxDisturbances
  BY <1>1, DisturbType
<1>7. TypeOK'
  BY <1>1, <1>3, <1>5, <1>6 DEF Typed, TypeOK
<1>8. RoomKept'
  <2>1. PICK a, b, c \in Nat : /\ Len(journal) = a /\ Len(letter) = b /\ Len(scan.rows) = c
                               /\ a + b + c <= MaxRows /\ InFlight = b + c
    BY RoomOf, Zenon
  <2>2. Len(journal') = a /\ Len(letter') = b /\ Len(scan'.rows) = 0
    BY <1>1, <1>3, <2>1, Zenon
  <2>3. a + b + 0 <= MaxRows /\ 0 \in Nat
    BY <2>1, BoundsAssumption
  <2> QED
    BY <2>2, <2>3, RoomLeft, Zenon
<1>9. KindsFit'
  BY <1>1, <1>3 DEF Typed, KindsFit
<1> QED
  BY <1>1, <1>7, <1>8, <1>9 DEF Typed, CopiesFit

-----------------------------------------------------------------------------
\* What a repetition holds after it has asked the channel.
LEMMA DeliverFits ==
  ASSUME Typed, NEW r \in Retriers, RetryDeliver(r)
  PROVE  \E delivered \in SUBSET Failed(journal), new \in Seq(Row) :
           /\ retry' = [retry EXCEPT ![r] = [seen |-> journal, new |-> new]]
           /\ Len(new) = Len(journal)
           /\ \A i \in 1 .. Len(journal) :
                /\ new[i].event = journal[i].event
                /\ new[i].status = "SENT" => journal[i].status = "SENT" \/ i \in delivered
           /\ accepted' = [e \in Events |->
                Capped(accepted[e] + Cardinality({i \in delivered : journal[i].event = e}))]
<1>1. PICK delivered \in SUBSET Failed(journal) :
        /\ retry' = [retry EXCEPT ![r] =
             [seen |-> journal,
              new |-> [i \in DOMAIN journal |->
                         IF i \in Failed(journal) THEN Retried(journal[i], i \in delivered)
                         ELSE journal[i]]]]
        /\ accepted' = [e \in Events |->
             Capped(accepted[e] + Cardinality({i \in delivered : journal[i].event = e}))]
  BY DEF RetryDeliver
<1> DEFINE n == Len(journal)
           new == [i \in DOMAIN journal |->
                     IF i \in Failed(journal) THEN Retried(journal[i], i \in delivered)
                     ELSE journal[i]]
<1>2. journal \in Seq(Row) /\ n \in Nat /\ DOMAIN journal = 1 .. n
  BY DEF Typed, TypeOK
<1>3. ASSUME NEW i \in 1 .. n
      PROVE  /\ new[i] \in Row /\ new[i].event = journal[i].event
             /\ new[i].status = "SENT" => journal[i].status = "SENT" \/ i \in delivered
  <2>1. journal[i] \in Row
    BY <1>2
  <2>2. CASE i \in Failed(journal)
    <3>1. journal[i].attempts < MAX_TOTAL_ATTEMPTS /\ journal[i].status = "FAILED"
      BY <2>2 DEF Failed
    <3>2. new[i] = Retried(journal[i], i \in delivered)
      BY <1>2, <2>2
    <3> DEFINE ok == i \in delivered
    <3>3. ok \in BOOLEAN
      OBVIOUS
    <3>4. new[i] = Retried(journal[i], ok)
      BY <3>2
    <3> HIDE DEF ok, new
    <3>5. /\ new[i] \in Row /\ new[i].event = journal[i].event
          /\ journal[i].status # "SENT" => (new[i].status = "SENT" <=> ok)
      BY <2>1, <3>1, <3>3, <3>4, RetriedFits
    <3>6. new[i].status = "SENT" => ok
      BY <3>1, <3>5
    <3> QED
      BY <3>5, <3>6 DEF ok
  <2>3. CASE i \notin Failed(journal)
    <3>1. new[i] = journal[i]
      BY <1>2, <2>3
    <3> QED
      BY <2>1, <3>1
  <2> QED
    BY <2>2, <2>3
<1>4. new \in [1 .. n -> Row]
  <2>1. DOMAIN new = 1 .. n /\ new = [i \in 1 .. n |-> new[i]]
    BY <1>2
  <2> HIDE DEF new
  <2> QED
    BY <1>3, <2>1
<1>5. retry' = [retry EXCEPT ![r] = [seen |-> journal, new |-> new]]
  BY <1>1
<1> HIDE DEF new
<1>6. new \in Seq(Row) /\ Len(new) = n
  BY <1>2, <1>4, RowsOf
<1> QED
  BY <1>1, <1>3, <1>5, <1>6

LEMMA CopiesType ==
  ASSUME Typed
  PROVE  /\ retry \in [Retriers -> [seen : Seq(Row), new : Seq(Row)]]
         /\ \A r \in Retriers :
              /\ retry[r].seen \in Seq(Row) /\ retry[r].new \in Seq(Row)
              /\ Len(retry[r].seen) = Len(retry[r].new) /\ Len(retry[r].seen) <= Len(journal)
BY DEF Typed, TypeOK, CopiesFit

LEMMA CountedType ==
  ASSUME NEW S, IsFiniteSet(S)
  PROVE  Cardinality(S) \in Nat
BY FS_CardinalityType

\* A set of rows is counted.
LEMMA FewRows ==
  ASSUME NEW n \in Nat, NEW S \in SUBSET (1 .. n)
  PROVE  IsFiniteSet(S) /\ Cardinality(S) \in Nat /\ Cardinality(S) <= n
<1>1. IsFiniteSet(1 .. n) /\ Cardinality(1 .. n) = n
  BY FS_Interval
<1> QED
  BY <1>1, FS_Subset, FS_CardinalityType

LEMMA RetryDeliverTyped ==
  ASSUME Typed, NEW r \in Retriers, RetryDeliver(r)
  PROVE  Typed'
<1>1. PICK delivered \in SUBSET Failed(journal), new \in Seq(Row) :
        /\ retry' = [retry EXCEPT ![r] = [seen |-> journal, new |-> new]]
        /\ Len(new) = Len(journal)
        /\ \A i \in 1 .. Len(journal) : new[i].event = journal[i].event
        /\ accepted' = [e \in Events |->
             Capped(accepted[e] + Cardinality({i \in delivered : journal[i].event = e}))]
  BY DeliverFits
<1>2. /\ journal \in Seq(Row) /\ Len(journal) \in Nat /\ DOMAIN journal = 1 .. Len(journal)
      /\ accepted \in [Events -> 0 .. MaxRows]
  BY DEF Typed, TypeOK
<1>3. UNCHANGED <<now, due, done, latest, contact, journal, letter, scan, lost>>
  BY DEF RetryDeliver, world
<1>4. accepted' \in [Events -> 0 .. MaxRows]
  <2>1. ASSUME NEW e \in Events
        PROVE  Capped(accepted[e] + Cardinality({i \in delivered : journal[i].event = e}))
                 \in 0 .. MaxRows
    <3> DEFINE S == {i \in delivered : journal[i].event = e}
    <3>1. S \in SUBSET (1 .. Len(journal))
      BY <1>2 DEF Failed
    <3>2. Cardinality(S) \in Nat
      BY <1>2, <3>1, FewRows
    <3>3. accepted[e] \in Nat
      BY <1>2
    <3> HIDE DEF S
    <3>4. accepted[e] + Cardinality(S) \in Nat
      BY <3>2, <3>3
    <3> QED
      BY <3>4, CappedType DEF S
  <2> QED
    BY <1>1, <2>1
<1>5. disturbed' \in 0 .. MaxDisturbances
  BY DisturbType DEF RetryDeliver, Typed, TypeOK
<1>6. CopiesFit(journal', retry')
  <2>1. [seen |-> journal, new |-> new] \in [seen : Seq(Row), new : Seq(Row)]
    BY <1>2
  <2>2. /\ retry' \in [Retriers -> [seen : Seq(Row), new : Seq(Row)]]
        /\ retry'[r].seen = journal /\ retry'[r].new = new
        /\ \A q \in Retriers \ {r} : retry'[q] = retry[q]
    BY <1>1, <2>1, CopiesType
  <2> QED
    BY <1>1, <1>2, <1>3, <2>2 DEF Typed, CopiesFit
<1>7. TypeOK'
  BY <1>3, <1>4, <1>5, <1>6 DEF Typed, TypeOK, CopiesFit
<1> QED
  BY <1>3, <1>6, <1>7 DEF Typed, CopiesFit, RoomKept, KindsFit

LEMMA NoCopies ==
  ASSUME Typed, NEW r \in Retriers, retry' = [retry EXCEPT ![r] = NoRetry],
         NEW j, Len(j) = Len(journal),
         \A i \in 1 .. Len(journal) : j[i].event = journal[i].event
  PROVE  /\ CopiesFit(j, retry')
         /\ Len(retry'[r].seen) = 0
         /\ \A q \in Retriers \ {r} : retry'[q] = retry[q]
<1>1. NoRetry \in [seen : Seq(Row), new : Seq(Row)] /\ Len(NoRetry.seen) = 0 /\ Len(NoRetry.new) = 0
  BY DEF NoRetry
<1>2. /\ retry' \in [Retriers -> [seen : Seq(Row), new : Seq(Row)]]
      /\ retry'[r] = NoRetry
      /\ \A q \in Retriers \ {r} : retry'[q] = retry[q]
  BY <1>1, CopiesType
<1>3. ASSUME NEW q \in Retriers
      PROVE  /\ Len(retry'[q].seen) = Len(retry'[q].new) /\ Len(retry'[q].seen) <= Len(j)
             /\ \A i \in 1 .. Len(retry'[q].seen) :
                  retry'[q].seen[i].event = j[i].event /\ retry'[q].new[i].event = j[i].event
  <2>1. CASE q = r
    <3>1. Len(journal) \in Nat
      BY DEF Typed, TypeOK
    <3> QED
      BY <1>1, <1>2, <2>1, <3>1
  <2>2. CASE q # r
    <3>1. /\ Len(retry[q].seen) = Len(retry[q].new) /\ Len(retry[q].seen) <= Len(journal)
          /\ \A i \in 1 .. Len(retry[q].seen) :
               retry[q].seen[i].event = journal[i].event /\ retry[q].new[i].event = journal[i].event
      BY DEF Typed, CopiesFit
    <3>2. \A i \in 1 .. Len(retry[q].seen) : i \in 1 .. Len(journal)
      BY <3>1, CopiesType DEF Typed, TypeOK
    <3> QED
      BY <1>2, <2>2, <3>1, <3>2
  <2> QED
    BY <2>1, <2>2
<1> QED
  BY <1>1, <1>2, <1>3 DEF CopiesFit

LEMMA RetryCommitTyped ==
  ASSUME Typed, NEW r \in Retriers, RetryCommit(r)
  PROVE  Typed'
<1>1. /\ journal' = Merged(retry[r]) /\ retry' = [retry EXCEPT ![r] = NoRetry]
      /\ UNCHANGED <<now, due, done, latest, contact, letter, scan, disturbed, accepted, lost>>
  BY DEF RetryCommit, world
<1>2. /\ journal' \in Seq(Row) /\ Len(journal') = Len(journal)
      /\ \A i \in 1 .. Len(journal) : journal'[i].event = journal[i].event
  BY <1>1, MergedFits
<1>3. CopiesFit(journal', retry')
  BY <1>1, <1>2, NoCopies
<1>4. TypeOK'
  BY <1>1, <1>2, <1>3 DEF Typed, TypeOK, CopiesFit
<1>5. RoomKept'
  BY <1>1, <1>2, Zenon DEF Typed, RoomKept
<1> QED
  BY <1>1, <1>3, <1>4, <1>5 DEF Typed, CopiesFit, KindsFit

LEMMA RetryDieTyped ==
  ASSUME Typed, NEW r \in Retriers, RetryDie(r)
  PROVE  Typed'
<1>1. /\ retry' = [retry EXCEPT ![r] = NoRetry] /\ Disturb
      /\ UNCHANGED <<now, due, done, latest, contact, journal, letter, scan, accepted, lost>>
  BY DEF RetryDie, world
<1>2. CopiesFit(journal', retry')
  BY <1>1, NoCopies
<1>3. disturbed' \in 0 .. MaxDisturbances
  BY <1>1, DisturbType
<1>4. TypeOK'
  BY <1>1, <1>2, <1>3 DEF Typed, TypeOK, CopiesFit
<1> QED
  BY <1>1, <1>2, <1>4 DEF Typed, CopiesFit, RoomKept, KindsFit

\* What users do, and midnight, reach no row.
LEMMA WorldTyped ==
  ASSUME Typed,
         \/ \E m \in Measures : Replan(m) \/ Finish(m)
         \/ \E s \in Subjects : Correct(s)
         \/ \E s \in Systems : Assess(s)
  PROVE  Typed'
<1>1. Change
  BY DEF Replan, Finish, Correct, Assess
<1>2. UNCHANGED <<now, journal, letter, scan, retry, accepted, lost>>
  BY <1>1 DEF Change
<1>3. disturbed' \in 0 .. MaxDisturbances
  BY <1>1, DisturbType DEF Change
<1>4. /\ due' \in [Measures -> 0 .. MaxDay] /\ done' \subseteq Measures
      /\ latest' \in [Systems -> Quarters \cup {NULL}]
      /\ contact' \in [Subjects -> {"blank", "unknown", "known"}]
  <2>1. /\ now \in 0 .. MaxDay /\ due \in [Measures -> 0 .. MaxDay] /\ done \subseteq Measures
        /\ latest \in [Systems -> Quarters \cup {NULL}]
        /\ contact \in [Subjects -> {"blank", "unknown", "known"}]
    BY DEF Typed, TypeOK
  <2>2. ASSUME NEW m \in Measures, Replan(m)
        PROVE  due' \in [Measures -> 0 .. MaxDay] /\ UNCHANGED <<done, latest, contact>>
    BY <2>1, <2>2, BoundsAssumption DEF Replan
  <2>3. ASSUME NEW m \in Measures, Finish(m)
        PROVE  done' \subseteq Measures /\ UNCHANGED <<due, latest, contact>>
    BY <2>1, <2>3 DEF Finish
  <2>4. ASSUME NEW s \in Subjects, Correct(s)
        PROVE  /\ contact' \in [Subjects -> {"blank", "unknown", "known"}]
               /\ UNCHANGED <<due, done, latest>>
    BY <2>1, <2>4 DEF Correct
  <2>5. ASSUME NEW s \in Systems, Assess(s)
        PROVE  latest' \in [Systems -> Quarters \cup {NULL}] /\ UNCHANGED <<due, done, contact>>
    <3>1. Expected \in Quarters
      BY <2>1, QuarterOf DEF Expected
    <3> QED
      BY <2>1, <2>5, <3>1 DEF Assess
  <2> QED
    BY <2>1, <2>2, <2>3, <2>4, <2>5
<1>5. TypeOK'
  BY <1>2, <1>3, <1>4 DEF Typed, TypeOK
<1> QED
  BY <1>2, <1>5 DEF Typed, CopiesFit, RoomKept, KindsFit

LEMMA TickTyped ==
  ASSUME Typed, Tick
  PROVE  Typed'
<1>1. /\ now' = now + 1 /\ now < MaxDay /\ scan' = [scan EXCEPT !.ran = FALSE]
      /\ UNCHANGED <<due, done, latest, contact, journal, letter, retry, disturbed, accepted, lost>>
  BY DEF Tick
<1>2. now' \in 0 .. MaxDay
  BY <1>1, BoundsAssumption DEF Typed, TypeOK
<1>3. /\ scan' \in [phase : Phases, todo : SUBSET Events, rows : Seq(Row), ran : BOOLEAN]
      /\ scan'.todo = scan.todo /\ scan'.rows = scan.rows
  BY <1>1 DEF Typed, TypeOK
<1> QED
  BY <1>1, <1>2, <1>3 DEF Typed, TypeOK, CopiesFit, RoomKept, KindsFit

LEMMA InitTyped == Init => Typed
<1> SUFFICES ASSUME Init PROVE Typed
  OBVIOUS
<1>1. NoRetry \in [seen : Seq(Row), new : Seq(Row)] /\ Len(NoRetry.seen) = 0 /\ Len(NoRetry.new) = 0
  BY DEF NoRetry
<1>2. retry = [r \in Retriers |-> NoRetry]
  BY DEF Init
<1> HIDE DEF NoRetry
<1>3. journal = <<>> /\ letter = <<>> /\ Len(journal) = 0 /\ Len(letter) = 0
  BY DEF Init
<1>4. /\ scan = [phase |-> "idle", todo |-> {}, rows |-> <<>>, ran |-> FALSE]
      /\ scan \in [phase : Phases, todo : SUBSET Events, rows : Seq(Row), ran : BOOLEAN]
      /\ scan.todo = {} /\ scan.rows = <<>> /\ Len(scan.rows) = 0
  BY DEF Init, Phases
<1>5. CopiesFit(journal, retry)
  BY <1>1, <1>2, <1>3 DEF CopiesFit
<1>6. journal \in Seq(Row) /\ letter \in Seq(Row)
  BY <1>3
<1>7. TypeOK
  BY <1>1, <1>2, <1>3, <1>4, <1>6, BoundsAssumption DEF TypeOK, Init
<1>8. RoomKept
  <2>1. Len(journal) + Len(letter) + Len(scan.rows) = 0
    BY <1>3, <1>4
  <2>2. 0 <= MaxRows
    BY BoundsAssumption
  <2> QED
    BY <2>1, <2>2, Zenon DEF RoomKept
<1> QED
  BY <1>3, <1>4, <1>5, <1>7, <1>8 DEF Typed, KindsFit

LEMMA NextTyped == Typed /\ [Next]_vars => Typed'
<1> SUFFICES ASSUME Typed, [Next]_vars PROVE Typed'
  OBVIOUS
<1>1. ASSUME NEW m \in Measures, Emit(m) PROVE Typed'
  BY <1>1, EmitTyped
<1>2. CASE EmitCommit
  BY <1>2, EmitCommitTyped
<1>3. CASE EmitDie
  BY <1>3, EmitDieTyped
<1>4. CASE ScanStart
  BY <1>4, ScanStartTyped
<1>5. CASE ScanCommit
  BY <1>5, ScanCommitTyped
<1>6. CASE ScanDie
  BY <1>6, ScanDieTyped
<1>7. ASSUME NEW e \in Events, ScanSkip(e) \/ ScanEmit(e) PROVE Typed'
  BY <1>7, ScanSkipTyped, ScanEmitTyped
<1>8. ASSUME NEW r \in Retriers, RetryStep(r) \/ RetryDie(r) PROVE Typed'
  BY <1>8, RetryDeliverTyped, RetryCommitTyped, RetryDieTyped DEF RetryStep
<1>9. ASSUME \/ \E m \in Measures : Replan(m) \/ Finish(m)
             \/ \E s \in Subjects : Correct(s)
             \/ \E s \in Systems : Assess(s)
      PROVE  Typed'
  BY <1>9, WorldTyped
<1>10. CASE Tick
  BY <1>10, TickTyped
<1>11. CASE UNCHANGED vars
  BY <1>11 DEF vars, Typed, TypeOK, CopiesFit, RoomKept, KindsFit
<1> QED
  BY <1>1, <1>2, <1>3, <1>4, <1>5, <1>6, <1>7, <1>8, <1>9, <1>10, <1>11 DEF Next

LEMMA TypedAlways == Spec => []Typed
<1> QED
  BY InitTyped, NextTyped, PTL DEF Spec

(***************************************************************************)
(* Every reachable state has the types of the columns, and a repetition    *)
(* never counts an attempt beyond the limit (MAX_TOTAL_ATTEMPTS), however  *)
(* repetitions overlap.                                                    *)
(***************************************************************************)
THEOREM JournalTypeCorrect == Spec => []TypeOK
<1>1. Typed => TypeOK
  BY DEF Typed
<1> QED
  BY <1>1, TypedAlways, PTL

-----------------------------------------------------------------------------
(***************************************************************************)
(* Dedupe keys.  The SELECT sees committed rows only, so that the rows the *)
(* scan has sent and not committed, and what it has still to mail, must be *)
(* apart from them and from each other.                                    *)
(***************************************************************************)
KeysApart(j, rows, todo) ==
  /\ \A i, k \in 1 .. Len(j) : j[i].event = j[k].event /\ j[i].event.stamp # NULL => i = k
  /\ \A i, k \in 1 .. Len(rows) : rows[i].event = rows[k].event => i = k
  /\ \A i \in 1 .. Len(j), k \in 1 .. Len(rows) : j[i].event # rows[k].event
  /\ \A k \in 1 .. Len(rows) : rows[k].event \notin todo

Idle(sc) == sc.phase = "idle" => sc.todo = {} /\ sc.rows = <<>>

KeysInv == Typed /\ KeysApart(journal, scan.rows, scan.todo) /\ Idle(scan)

LEMMA KeysInit == Init => KeysInv
<1> SUFFICES ASSUME Init PROVE KeysInv
  OBVIOUS
<1>1. /\ journal = <<>> /\ Len(journal) = 0
      /\ scan = [phase |-> "idle", todo |-> {}, rows |-> <<>>, ran |-> FALSE]
      /\ scan.todo = {} /\ scan.rows = <<>> /\ Len(scan.rows) = 0
  BY DEF Init
<1> QED
  BY <1>1, InitTyped DEF KeysInv, KeysApart, Idle

LEMMA KeysEmitCommit ==
  ASSUME KeysInv, EmitCommit
  PROVE  KeysApart(journal', scan'.rows, scan'.todo) /\ Idle(scan')
<1>1. journal' = journal \o letter /\ scan' = scan
  BY DEF EmitCommit
<1>2. /\ journal \in Seq(Row) /\ letter \in Seq(Row) /\ scan.rows \in Seq(Row)
      /\ Len(journal) \in Nat /\ Len(letter) \in Nat
  BY DEF KeysInv, Typed, TypeOK
<1>3. /\ Len(journal') = Len(journal) + Len(letter)
      /\ \A i \in 1 .. Len(journal) : journal'[i] = journal[i]
      /\ \A i \in (1 .. Len(journal')) \ (1 .. Len(journal)) :
           journal'[i].event.kind = "decided" /\ journal'[i].event.stamp = NULL
  BY <1>1, <1>2, Joined DEF KeysInv, Typed, KindsFit
<1>4. \A k \in 1 .. Len(scan.rows) : scan.rows[k].event.kind # "decided"
  BY DEF KeysInv, Typed, KindsFit
<1>5. \A i, k \in 1 .. Len(journal') :
        journal'[i].event = journal'[k].event /\ journal'[i].event.stamp # NULL => i = k
  <2> SUFFICES ASSUME NEW i \in 1 .. Len(journal'), NEW k \in 1 .. Len(journal'),
                      journal'[i].event = journal'[k].event, journal'[i].event.stamp # NULL
               PROVE  i = k
    OBVIOUS
  <2>1. i \in 1 .. Len(journal) /\ k \in 1 .. Len(journal)
    BY <1>3
  <2> QED
    BY <1>3, <2>1 DEF KeysInv, KeysApart
<1>6. \A i \in 1 .. Len(journal'), k \in 1 .. Len(scan.rows) : journal'[i].event # scan.rows[k].event
  <2> SUFFICES ASSUME NEW i \in 1 .. Len(journal'), NEW k \in 1 .. Len(scan.rows)
               PROVE  journal'[i].event # scan.rows[k].event
    OBVIOUS
  <2>1. CASE i \in 1 .. Len(journal)
    BY <1>3, <2>1 DEF KeysInv, KeysApart
  <2>2. CASE i \notin 1 .. Len(journal)
    BY <1>3, <1>4, <2>2
  <2> QED
    BY <2>1, <2>2
<1> QED
  BY <1>1, <1>5, <1>6 DEF KeysInv, KeysApart

LEMMA KeysScanEmit ==
  ASSUME KeysInv, NEW e \in Events, ScanEmit(e)
  PROVE  KeysApart(journal', scan'.rows, scan'.todo) /\ Idle(scan')
<1>1. PICK a \in Answers :
        scan' = [scan EXCEPT !.todo = @ \ {e}, !.rows = Append(@, Dispatched(e, a[1], a[2]))]
  BY DEF ScanEmit
<1> DEFINE row == Dispatched(e, a[1], a[2])
<1>2. row \in Row /\ row.event = e
  BY DispatchedFits
<1>3. /\ scan \in [phase : Phases, todo : SUBSET Events, rows : Seq(Row), ran : BOOLEAN]
      /\ scan.rows \in Seq(Row) /\ journal \in Seq(Row)
  BY DEF KeysInv, Typed, TypeOK
<1>4. scan' = [scan EXCEPT !.todo = @ \ {e}, !.rows = Append(@, row)]
  BY <1>1
<1> HIDE DEF row
<1>5. scan'.todo = scan.todo \ {e} /\ scan'.rows = Append(scan.rows, row) /\ scan'.phase = scan.phase
  BY <1>3, <1>4
<1>6. /\ Len(scan'.rows) = Len(scan.rows) + 1 /\ Len(scan.rows) \in Nat
      /\ \A i \in 1 .. Len(scan.rows) : scan'.rows[i] = scan.rows[i]
      /\ scan'.rows[Len(scan.rows) + 1].event = e
  BY <1>2, <1>3, <1>5, Appended, Rows
<1>7. e \in scan.todo /\ ~ Already(e) /\ journal' = journal
  BY DEF ScanEmit
<1>8. \A i \in 1 .. Len(journal) : journal[i].event # e
  BY <1>3, <1>7 DEF Already
<1>9. \A i \in 1 .. Len(scan.rows) : scan.rows[i].event # e /\ scan.rows[i].event \notin scan.todo
  BY <1>7 DEF KeysInv, KeysApart
<1>10. \A i \in 1 .. Len(scan'.rows) : i \in 1 .. Len(scan.rows) \/ i = Len(scan.rows) + 1
  BY <1>6
<1>11. /\ \A i, k \in 1 .. Len(scan'.rows) : scan'.rows[i].event = scan'.rows[k].event => i = k
       /\ \A i \in 1 .. Len(journal), k \in 1 .. Len(scan'.rows) :
            journal[i].event # scan'.rows[k].event
       /\ \A k \in 1 .. Len(scan'.rows) : scan'.rows[k].event \notin scan'.todo
  BY <1>5, <1>6, <1>8, <1>9, <1>10 DEF KeysInv, KeysApart
<1>12. Idle(scan')
  BY <1>5, <1>7 DEF KeysInv, Idle
<1> QED
  BY <1>7, <1>11, <1>12 DEF KeysInv, KeysApart

LEMMA KeysScanCommit ==
  ASSUME KeysInv, ScanCommit
  PROVE  KeysApart(journal', scan'.rows, scan'.todo) /\ Idle(scan')
<1> DEFINE next == IF scan.phase = "due_soon" THEN MeasurementOverdue ELSE {}
           phase == IF scan.phase = "due_soon" THEN "measurement_overdue" ELSE "idle"
<1>1. /\ journal' = journal \o scan.rows
      /\ scan' = [scan EXCEPT !.rows = <<>>, !.todo = next, !.phase = phase]
  BY DEF ScanCommit
<1>2. /\ journal \in Seq(Row) /\ scan.rows \in Seq(Row)
      /\ scan \in [phase : Phases, todo : SUBSET Events, rows : Seq(Row), ran : BOOLEAN]
      /\ Len(journal) \in Nat /\ Len(scan.rows) \in Nat
  BY DEF KeysInv, Typed, TypeOK
<1>3. phase = "idle" => next = {}
  OBVIOUS
<1> HIDE DEF next, phase
<1>4. /\ scan'.rows = <<>> /\ Len(scan'.rows) = 0
      /\ scan'.todo = next /\ scan'.phase = phase
  <2>1. scan' = [phase |-> phase, todo |-> next, rows |-> <<>>, ran |-> scan.ran]
    BY <1>1, <1>2
  <2> QED
    BY <2>1
<1>5. /\ Len(journal') = Len(journal) + Len(scan.rows)
      /\ \A i \in 1 .. Len(journal) : journal'[i] = journal[i]
      /\ \A i \in (1 .. Len(journal')) \ (1 .. Len(journal)) :
           i - Len(journal) \in 1 .. Len(scan.rows) /\ journal'[i] = scan.rows[i - Len(journal)]
  BY <1>1, <1>2, Joined
<1>6. ASSUME NEW i \in 1 .. Len(journal'), NEW k \in 1 .. Len(journal'),
             journal'[i].event = journal'[k].event, journal'[i].event.stamp # NULL
      PROVE  i = k
  <2> DEFINE n == Len(journal)
             a == i - n
             b == k - n
  <2>0. n \in Nat /\ i \in Int /\ k \in Int
    BY <1>2
  <2>1. CASE i \in 1 .. n /\ k \in 1 .. n
    BY <1>5, <1>6, <2>1 DEF KeysInv, KeysApart
  <2>2. CASE i \in 1 .. n /\ k \notin 1 .. n
    <3>1. journal'[i] = journal[i] /\ b \in 1 .. Len(scan.rows) /\ journal'[k] = scan.rows[b]
      BY <1>5, <2>2
    <3> HIDE DEF b
    <3> QED
      BY <1>6, <2>2, <3>1 DEF KeysInv, KeysApart
  <2>3. CASE i \notin 1 .. n /\ k \in 1 .. n
    <3>1. journal'[k] = journal[k] /\ a \in 1 .. Len(scan.rows) /\ journal'[i] = scan.rows[a]
      BY <1>5, <2>3
    <3> HIDE DEF a
    <3> QED
      BY <1>6, <2>3, <3>1 DEF KeysInv, KeysApart
  <2>4. CASE i \notin 1 .. n /\ k \notin 1 .. n
    <3>1. /\ a \in 1 .. Len(scan.rows) /\ journal'[i] = scan.rows[a]
          /\ b \in 1 .. Len(scan.rows) /\ journal'[k] = scan.rows[b]
      BY <1>5, <2>4
    <3>2. a = b
      <4> HIDE DEF a, b
      <4> QED
        BY <1>6, <3>1 DEF KeysInv, KeysApart
    <3> HIDE DEF n
    <3> QED
      BY <2>0, <3>2
  <2> QED
    BY <2>1, <2>2, <2>3, <2>4
<1>7. Idle(scan')
  BY <1>3, <1>4 DEF Idle
<1> QED
  BY <1>4, <1>6, <1>7 DEF KeysApart

\* Steps that put no row anywhere.
LEMMA KeysQuiet ==
  ASSUME KeysInv, NEW j, Len(j) = Len(journal),
         \A i \in 1 .. Len(journal) : j[i].event = journal[i].event,
         NEW todo, todo \subseteq scan.todo
  PROVE  KeysApart(j, scan.rows, todo)
BY DEF KeysInv, KeysApart

\* What a step leaves alone, whoever takes it.
LEMMA WorldQuiet ==
  ASSUME KeysInv,
         \/ \E m \in Measures : Replan(m) \/ Finish(m)
         \/ \E s \in Subjects : Correct(s)
         \/ \E s \in Systems : Assess(s)
         \/ Tick
         \/ UNCHANGED vars
  PROVE  /\ UNCHANGED <<journal, letter, retry, accepted, lost>>
         /\ scan'.rows = scan.rows /\ scan'.todo = scan.todo /\ scan'.phase = scan.phase
<1>1. scan \in [phase : Phases, todo : SUBSET Events, rows : Seq(Row), ran : BOOLEAN]
  BY DEF KeysInv, Typed, TypeOK
<1>2. CASE \/ \E m \in Measures : Replan(m) \/ Finish(m)
           \/ \E s \in Subjects : Correct(s)
           \/ \E s \in Systems : Assess(s)
  BY <1>2 DEF Replan, Finish, Correct, Assess, Change
<1>3. CASE Tick
  BY <1>1, <1>3 DEF Tick
<1>4. CASE UNCHANGED vars
  BY <1>4 DEF vars
<1> QED
  BY <1>2, <1>3, <1>4

LEMMA KeysNext == KeysInv /\ [Next]_vars => KeysInv'
<1> SUFFICES ASSUME KeysInv, [Next]_vars PROVE KeysInv'
  OBVIOUS
<1>0. Typed'
  BY NextTyped DEF KeysInv
<1> SUFFICES KeysApart(journal', scan'.rows, scan'.todo) /\ Idle(scan')
  BY <1>0 DEF KeysInv, KeysApart, Idle
<1>1. scan \in [phase : Phases, todo : SUBSET Events, rows : Seq(Row), ran : BOOLEAN]
  BY DEF KeysInv, Typed, TypeOK
<1>2. ASSUME journal' = journal, scan'.rows = scan.rows, scan'.todo \subseteq scan.todo,
             scan'.phase = scan.phase
      PROVE  KeysApart(journal', scan'.rows, scan'.todo) /\ Idle(scan')
  BY <1>2, KeysQuiet DEF KeysInv, Idle
<1>3. ASSUME NEW m \in Measures, Emit(m)
      PROVE  KeysApart(journal', scan'.rows, scan'.todo) /\ Idle(scan')
  BY <1>2, <1>3 DEF Emit
<1>4. ASSUME EmitDie
      PROVE  KeysApart(journal', scan'.rows, scan'.todo) /\ Idle(scan')
  BY <1>2, <1>4 DEF EmitDie
<1>5. ASSUME ScanStart \/ ScanDie
      PROVE  KeysApart(journal', scan'.rows, scan'.todo) /\ Idle(scan')
  <2>1. scan'.rows = <<>> /\ Len(scan'.rows) = 0 /\ journal' = journal
    <3>1. CASE ScanStart
      BY <3>1 DEF ScanStart
    <3>2. CASE ScanDie
      BY <1>1, <3>2 DEF ScanDie
    <3> QED
      BY <1>5, <3>1, <3>2
  <2>2. Idle(scan')
    <3>1. CASE ScanStart
      BY <3>1 DEF ScanStart, Idle
    <3>2. CASE ScanDie
      BY <1>1, <3>2 DEF ScanDie, Idle
    <3> QED
      BY <1>5, <3>1, <3>2
  <2> QED
    BY <2>1, <2>2 DEF KeysInv, KeysApart
<1>6. ASSUME NEW e \in Events, ScanSkip(e)
      PROVE  KeysApart(journal', scan'.rows, scan'.todo) /\ Idle(scan')
  <2>1. /\ journal' = journal /\ scan'.rows = scan.rows /\ scan'.todo \subseteq scan.todo
        /\ scan'.phase = scan.phase
    BY <1>1, <1>6 DEF ScanSkip
  <2> QED
    BY <1>2, <2>1
<1>7. ASSUME NEW r \in Retriers, RetryDeliver(r) \/ RetryDie(r)
      PROVE  KeysApart(journal', scan'.rows, scan'.todo) /\ Idle(scan')
  BY <1>2, <1>7 DEF RetryDeliver, RetryDie
<1>8. ASSUME NEW r \in Retriers, RetryCommit(r)
      PROVE  KeysApart(journal', scan'.rows, scan'.todo) /\ Idle(scan')
  <2>1. journal' = Merged(retry[r]) /\ scan' = scan
    BY <1>8 DEF RetryCommit
  <2>2. /\ Len(journal') = Len(journal)
        /\ \A i \in 1 .. Len(journal) : journal'[i].event = journal[i].event
    BY <2>1, MergedFits DEF KeysInv
  <2> QED
    BY <2>1, <2>2, KeysQuiet DEF KeysInv
<1>9. ASSUME \/ \E m \in Measures : Replan(m) \/ Finish(m)
             \/ \E s \in Subjects : Correct(s)
             \/ \E s \in Systems : Assess(s)
             \/ Tick
             \/ UNCHANGED vars
      PROVE  KeysApart(journal', scan'.rows, scan'.todo) /\ Idle(scan')
  BY <1>2, <1>9, WorldQuiet
<1> QED
  BY <1>3, <1>4, <1>5, <1>6, <1>7, <1>8, <1>9, KeysEmitCommit, KeysScanEmit, KeysScanCommit
  DEF Next, RetryStep

LEMMA KeysAlways == Spec => []KeysInv
<1> QED
  BY KeysInit, KeysNext, PTL DEF Spec

(***************************************************************************)
(* The journal never holds two rows of one dedupe key: not from the scan   *)
(* of the next day, not from one after a crash, not because deadlines,     *)
(* owners and assessments change under it (dedupe_key).                    *)
(***************************************************************************)
THEOREM OneRowPerKeyAlways == Spec => []OneRowPerKey
<1>1. KeysInv => OneRowPerKey
  <2>1. journal \in Seq(Row) => DOMAIN journal = 1 .. Len(journal)
    OBVIOUS
  <2> QED
    BY <2>1 DEF KeysInv, KeysApart, Typed, TypeOK, OneRowPerKey
<1> QED
  BY <1>1, KeysAlways, PTL

-----------------------------------------------------------------------------
(***************************************************************************)
(* Where the row of a mail is.                                             *)
(***************************************************************************)
Accounted(j, l, rows, dead, e) ==
  \/ \E i \in 1 .. Len(j) : j[i].event = e
  \/ \E i \in 1 .. Len(l) : l[i].event = e
  \/ \E i \in 1 .. Len(rows) : rows[i].event = e
  \/ e \in dead

MailsAccounted ==
  \A e \in Events : accepted[e] > 0 => Accounted(journal, letter, scan.rows, lost, e)

LEMMA TakenOf ==
  ASSUME accepted \in [Events -> 0 .. MaxRows], NEW e \in Events, NEW ok \in BOOLEAN,
         Taken(e, ok), NEW x \in Events
  PROVE  accepted'[x] = IF ok /\ x = e THEN Capped(accepted[x] + 1) ELSE accepted[x]
BY DEF Taken

LEMMA MailsNext == KeysInv /\ MailsAccounted /\ [Next]_vars => MailsAccounted'
<1> SUFFICES ASSUME KeysInv, MailsAccounted, [Next]_vars, NEW x \in Events, accepted'[x] > 0
             PROVE  Accounted(journal', letter', scan'.rows, lost', x)
  BY DEF MailsAccounted, Accounted
<1> DEFINE Goal == Accounted(journal', letter', scan'.rows, lost', x)
<1>0. /\ journal \in Seq(Row) /\ letter \in Seq(Row) /\ scan.rows \in Seq(Row)
      /\ scan \in [phase : Phases, todo : SUBSET Events, rows : Seq(Row), ran : BOOLEAN]
      /\ accepted \in [Events -> 0 .. MaxRows]
      /\ Len(journal) \in Nat /\ Len(letter) \in Nat /\ Len(scan.rows) \in Nat
  BY DEF KeysInv, Typed, TypeOK
<1>1. ASSUME accepted' = accepted PROVE Accounted(journal, letter, scan.rows, lost, x)
  BY <1>1 DEF MailsAccounted
<1>2. ASSUME NEW m \in Measures, Emit(m) PROVE Goal
  <2> DEFINE e == [kind |-> "decided", about |-> m, stamp |-> NULL]
  <2>1. PICK a \in Answers : letter' = <<Dispatched(e, a[1], a[2])>> /\ Taken(e, a[1])
    BY <1>2 DEF Emit
  <2>2. e \in Events
    BY DEF Events
  <2> HIDE DEF e
  <2>3. Dispatched(e, a[1], a[2]).event = e /\ a[1] \in BOOLEAN
    BY <2>2, DispatchedFits, AnswerType
  <2>4. Len(letter') = 1 /\ letter'[1].event = e
    BY <2>1, <2>3
  <2>5. letter = <<>> /\ Len(letter) = 0 /\ UNCHANGED <<journal, scan, lost>>
    BY <1>2 DEF Emit
  <2>6. CASE x = e
    BY <2>4, <2>6 DEF Accounted
  <2>7. CASE x # e
    <3>1. accepted'[x] = accepted[x]
      BY <1>0, <2>1, <2>2, <2>3, <2>7, TakenOf
    <3> QED
      BY <2>5, <3>1 DEF MailsAccounted, Accounted
  <2> QED
    BY <2>6, <2>7
<1>3. ASSUME EmitCommit PROVE Goal
  <2>1. /\ journal' = journal \o letter /\ UNCHANGED <<scan, accepted, lost>>
    BY <1>3 DEF EmitCommit
  <2>2. /\ Len(journal') = Len(journal) + Len(letter)
        /\ \A i \in 1 .. Len(journal) : i \in 1 .. Len(journal') /\ journal'[i] = journal[i]
        /\ \A i \in 1 .. Len(letter) :
             Len(journal) + i \in 1 .. Len(journal') /\ journal'[Len(journal) + i] = letter[i]
    BY <1>0, <2>1
  <2> QED
    BY <1>1, <2>1, <2>2 DEF Accounted
<1>4. ASSUME EmitDie PROVE Goal
  <2>1. /\ lost' = lost \cup {letter[1].event} /\ letter # <<>>
        /\ UNCHANGED <<journal, scan, accepted>>
    BY <1>4 DEF EmitDie
  <2>2. Len(letter) <= 1
    BY DEF KeysInv, Typed, TypeOK
  <2>3. Len(letter) = 1
    <3>1. Len(letter) # 0
      BY <1>0, <2>1
    <3> DEFINE n == Len(letter)
    <3>2. n \in Nat /\ n <= 1 /\ n # 0
      BY <1>0, <2>2, <3>1
    <3> HIDE DEF n
    <3>3. n = 1
      BY <3>2
    <3> QED
      BY <3>3 DEF n
  <2> QED
    BY <1>1, <2>1, <2>3 DEF Accounted
<1>5. ASSUME ScanStart PROVE Goal
  <2>1. scan.rows = <<>> /\ Len(scan.rows) = 0 /\ UNCHANGED <<journal, letter, accepted, lost>>
    BY <1>5 DEF ScanStart, KeysInv, Idle
  <2> QED
    BY <1>1, <2>1 DEF Accounted
<1>6. ASSUME ScanCommit PROVE Goal
  <2>1. /\ journal' = journal \o scan.rows /\ UNCHANGED <<letter, accepted, lost>>
    BY <1>6 DEF ScanCommit
  <2>2. /\ Len(journal') = Len(journal) + Len(scan.rows)
        /\ \A i \in 1 .. Len(journal) : i \in 1 .. Len(journal') /\ journal'[i] = journal[i]
        /\ \A i \in 1 .. Len(scan.rows) :
             Len(journal) + i \in 1 .. Len(journal') /\ journal'[Len(journal) + i] = scan.rows[i]
    BY <1>0, <2>1
  <2> QED
    BY <1>1, <2>1, <2>2 DEF Accounted
<1>7. ASSUME ScanDie PROVE Goal
  <2>1. /\ lost' = lost \cup {scan.rows[i].event : i \in DOMAIN scan.rows}
        /\ UNCHANGED <<journal, letter, accepted>>
    BY <1>7 DEF ScanDie
  <2>2. DOMAIN scan.rows = 1 .. Len(scan.rows)
    BY <1>0
  <2>3. \A i \in 1 .. Len(scan.rows) : scan.rows[i].event \in lost'
    BY <2>1, <2>2
  <2> QED
    BY <1>1, <2>1, <2>3 DEF Accounted
<1>8. ASSUME NEW e \in Events, ScanSkip(e) PROVE Goal
  <2>1. scan'.rows = scan.rows /\ UNCHANGED <<journal, letter, accepted, lost>>
    BY <1>0, <1>8 DEF ScanSkip
  <2> QED
    BY <1>1, <2>1 DEF Accounted
<1>9. ASSUME NEW e \in Events, ScanEmit(e) PROVE Goal
  <2>1. PICK a \in Answers :
          /\ scan' = [scan EXCEPT !.todo = @ \ {e}, !.rows = Append(@, Dispatched(e, a[1], a[2]))]
          /\ Taken(e, a[1])
    BY <1>9 DEF ScanEmit
  <2> DEFINE row == Dispatched(e, a[1], a[2])
  <2>2. row \in Row /\ row.event = e /\ a[1] \in BOOLEAN
    BY DispatchedFits, AnswerType
  <2>3. scan'.rows = Append(scan.rows, row) /\ UNCHANGED <<journal, letter, lost>>
    BY <1>0, <1>9, <2>1 DEF ScanEmit
  <2> HIDE DEF row
  <2>4. /\ Len(scan'.rows) = Len(scan.rows) + 1
        /\ Len(scan.rows) + 1 \in 1 .. Len(scan'.rows)
        /\ \A i \in 1 .. Len(scan.rows) : i \in 1 .. Len(scan'.rows) /\ scan'.rows[i] = scan.rows[i]
        /\ scan'.rows[Len(scan.rows) + 1].event = e
    BY <1>0, <2>2, <2>3
  <2>5. CASE x = e
    BY <2>4, <2>5 DEF Accounted
  <2>6. CASE x # e
    <3>1. accepted'[x] = accepted[x]
      BY <1>0, <2>1, <2>2, <2>6, TakenOf
    <3> QED
      BY <2>3, <2>4, <3>1 DEF MailsAccounted, Accounted
  <2> QED
    BY <2>5, <2>6
<1>10. ASSUME NEW r \in Retriers, RetryDeliver(r) PROVE Goal
  <2>1. PICK delivered \in SUBSET Failed(journal) :
          accepted' = [e \in Events |->
            Capped(accepted[e] + Cardinality({i \in delivered : journal[i].event = e}))]
    BY <1>10, DeliverFits DEF KeysInv
  <2>2. UNCHANGED <<journal, letter, scan, lost>>
    BY <1>10 DEF RetryDeliver
  <2> DEFINE S == {i \in delivered : journal[i].event = x}
  <2>3. CASE S = {}
    <3>1. accepted'[x] = Capped(accepted[x] + Cardinality(S))
      BY <2>1
    <3>2. Cardinality(S) = 0
      BY <2>3, FS_EmptySet
    <3>3. accepted'[x] = accepted[x]
      <4> HIDE DEF S
      <4>1. accepted[x] \in 0 .. MaxRows
        BY <1>0
      <4> QED
        BY <3>1, <3>2, <4>1, BoundsAssumption DEF Capped
    <3> QED
      BY <2>2, <3>3 DEF MailsAccounted, Accounted
  <2>4. CASE S # {}
    <3>1. PICK i : i \in delivered /\ journal[i].event = x
      BY <2>4
    <3>2. i \in 1 .. Len(journal)
      BY <1>0, <3>1 DEF Failed
    <3> QED
      BY <2>2, <3>1, <3>2 DEF Accounted
  <2> QED
    BY <2>3, <2>4
<1>11. ASSUME NEW r \in Retriers, RetryCommit(r) PROVE Goal
  <2>1. journal' = Merged(retry[r]) /\ UNCHANGED <<letter, scan, accepted, lost>>
    BY <1>11 DEF RetryCommit
  <2>2. /\ Len(journal') = Len(journal)
        /\ \A i \in 1 .. Len(journal) : journal'[i].event = journal[i].event
    BY <2>1, MergedFits DEF KeysInv
  <2> QED
    BY <1>1, <2>1, <2>2 DEF Accounted
<1>12. ASSUME NEW r \in Retriers, RetryDie(r) PROVE Goal
  BY <1>1, <1>12 DEF RetryDie
<1>13. ASSUME \/ \E m \in Measures : Replan(m) \/ Finish(m)
              \/ \E s \in Subjects : Correct(s)
              \/ \E s \in Systems : Assess(s)
              \/ Tick
              \/ UNCHANGED vars
       PROVE  Goal
  BY <1>1, <1>13, WorldQuiet
<1> QED
  BY <1>2, <1>3, <1>4, <1>5, <1>6, <1>7, <1>8, <1>9, <1>10, <1>11, <1>12, <1>13
  DEF Next, RetryStep

(***************************************************************************)
(* What the channel took is in the journal, on its way there, or lost with *)
(* a process that died between the two (dispatch, then commit).            *)
(***************************************************************************)
THEOREM MailHasRowAlways == Spec => []MailHasRow
<1>1. Init => MailsAccounted
  BY DEF Init, MailsAccounted
<1>2. KeysInv /\ MailsAccounted => MailHasRow
  <2>1. \A t : t \in Seq(Row) => DOMAIN t = 1 .. Len(t)
    OBVIOUS
  <2>2. KeysInv => journal \in Seq(Row) /\ letter \in Seq(Row) /\ scan.rows \in Seq(Row)
    BY DEF KeysInv, Typed, TypeOK
  <2> QED
    BY <2>1, <2>2 DEF MailsAccounted, Accounted, MailHasRow
<1> QED
  BY <1>1, <1>2, KeysAlways, MailsNext, PTL DEF Spec

-----------------------------------------------------------------------------
(***************************************************************************)
(* What is said to have been delivered.  JournalTruthful is not inductive: *)
(* a repetition that has asked the channel and not committed yet will say  *)
(* so later, and two of them may say it of the same row.  The claims are   *)
(* counted by row, whoever makes them, beside the rows in flight.          *)
(***************************************************************************)
Claims(j, rt, e) ==
  {i \in 1 .. Len(j) :
     /\ j[i].event = e
     /\ \/ j[i].status = "SENT"
        \/ \E r \in Retriers : i \in 1 .. Len(rt[r].seen) /\ rt[r].new[i].status = "SENT"}

SentOf(t, e) == {i \in 1 .. Len(t) : t[i].event = e /\ t[i].status = "SENT"}

ClaimsCovered ==
  \A e \in Events :
    Cardinality(Claims(journal, retry, e)) + Cardinality(SentOf(letter, e))
      + Cardinality(SentOf(scan.rows, e)) <= accepted[e]

\* As numbers: what is claimed of e before and after a step, and the mails of it.
LEMMA ClaimNumbers ==
  ASSUME NEW j \in Seq(Row), NEW l \in Seq(Row), NEW rows \in Seq(Row), NEW rt, NEW e
  PROVE  /\ IsFiniteSet(Claims(j, rt, e)) /\ Cardinality(Claims(j, rt, e)) \in Nat
         /\ Cardinality(Claims(j, rt, e)) <= Len(j)
         /\ IsFiniteSet(SentOf(l, e)) /\ Cardinality(SentOf(l, e)) \in Nat
         /\ Cardinality(SentOf(l, e)) <= Len(l)
         /\ IsFiniteSet(SentOf(rows, e)) /\ Cardinality(SentOf(rows, e)) \in Nat
         /\ Cardinality(SentOf(rows, e)) <= Len(rows)
<1>1. Len(j) \in Nat /\ Len(l) \in Nat /\ Len(rows) \in Nat
  BY Rows
<1>2. /\ Claims(j, rt, e) \in SUBSET (1 .. Len(j))
      /\ SentOf(l, e) \in SUBSET (1 .. Len(l))
      /\ SentOf(rows, e) \in SUBSET (1 .. Len(rows))
  BY DEF Claims, SentOf
<1> QED
  BY <1>1, <1>2, FewRows, Zenon

LEMMA FewerClaims ==
  ASSUME NEW n \in Nat, NEW T \in SUBSET (1 .. n), NEW S \in SUBSET T
  PROVE  Cardinality(S) <= Cardinality(T)
<1>1. IsFiniteSet(T)
  BY FewRows
<1> QED
  BY <1>1, FS_Subset

(***************************************************************************)
(* A step that adds k mails of x to those the channel took may add k       *)
(* claims: the cap on the history is no less than the rows there can be.   *)
(***************************************************************************)
LEMMA CoveredOn ==
  ASSUME KeysInv, KeysInv', NEW x \in Events, NEW k \in Nat,
         Cardinality(Claims(journal, retry, x)) + Cardinality(SentOf(letter, x))
           + Cardinality(SentOf(scan.rows, x)) <= accepted[x],
         \/ k = 0 /\ accepted'[x] = accepted[x]
         \/ accepted'[x] = Capped(accepted[x] + k),
         Cardinality(Claims(journal', retry', x)) + Cardinality(SentOf(letter', x))
           + Cardinality(SentOf(scan'.rows, x))
         <= Cardinality(Claims(journal, retry, x)) + Cardinality(SentOf(letter, x))
              + Cardinality(SentOf(scan.rows, x)) + k
  PROVE  Cardinality(Claims(journal', retry', x)) + Cardinality(SentOf(letter', x))
           + Cardinality(SentOf(scan'.rows, x)) <= accepted'[x]
<1> DEFINE c  == Cardinality(Claims(journal, retry, x))
           l  == Cardinality(SentOf(letter, x))
           w  == Cardinality(SentOf(scan.rows, x))
           c1 == Cardinality(Claims(journal', retry', x))
           l1 == Cardinality(SentOf(letter', x))
           w1 == Cardinality(SentOf(scan'.rows, x))
           nj == Len(journal')
           nl == Len(letter')
           nw == Len(scan'.rows)
           acc  == accepted[x]
           acc1 == accepted'[x]
<1>1. /\ journal \in Seq(Row) /\ letter \in Seq(Row) /\ scan.rows \in Seq(Row)
      /\ journal' \in Seq(Row) /\ letter' \in Seq(Row) /\ scan'.rows \in Seq(Row)
      /\ acc \in Nat
  BY BoundsAssumption DEF KeysInv, Typed, TypeOK
<1>2. /\ c \in Nat /\ l \in Nat /\ w \in Nat /\ c1 \in Nat /\ l1 \in Nat /\ w1 \in Nat
      /\ c1 <= nj /\ l1 <= nl /\ w1 <= nw
  BY <1>1, ClaimNumbers, Zenon
<1>3. nj \in Nat /\ nl \in Nat /\ nw \in Nat
  BY <1>1, Rows
<1>4. nj + nl + nw <= MaxRows
  BY Zenon DEF KeysInv, Typed, RoomKept
<1>5. c + l + w <= acc /\ c1 + l1 + w1 <= c + l + w + k
  OBVIOUS
<1>6. (k = 0 /\ acc1 = acc) \/ acc1 = Capped(acc + k)
  OBVIOUS
<1> HIDE DEF c, l, w, c1, l1, w1, nj, nl, nw, acc, acc1
<1>7. c1 + l1 + w1 <= MaxRows
  BY <1>2, <1>3, <1>4, BoundsAssumption
<1>8. CASE k = 0 /\ acc1 = acc
  <2>1. c1 + l1 + w1 <= acc1
    BY <1>1, <1>2, <1>5, <1>8
  <2> QED
    BY <2>1 DEF c1, l1, w1, acc1
<1>9. CASE acc1 = Capped(acc + k)
  <2>1. acc1 = IF acc + k > MaxRows THEN MaxRows ELSE acc + k
    BY <1>9 DEF Capped
  <2>2. c1 + l1 + w1 <= acc1
    BY <1>1, <1>2, <1>5, <1>7, <2>1, BoundsAssumption
  <2> QED
    BY <2>2 DEF c1, l1, w1, acc1
<1> QED
  BY <1>6, <1>8, <1>9

\* The same set of rows counted from another place on.
LEMMA Shifted ==
  ASSUME NEW n \in Nat, NEW m \in Nat, NEW W \in SUBSET (1 .. m),
         NEW T \in SUBSET (1 .. n + m),
         \A i \in T : i - n \in W
  PROVE  IsFiniteSet(T) /\ Cardinality(T) <= Cardinality(W)
<1> DEFINE f == [i \in T |-> i - n]
<1>1. f \in [T -> W]
  OBVIOUS
<1>2. \A i, k \in T : f[i] = f[k] => i = k
  <2>1. \A i \in T : i \in Int
    OBVIOUS
  <2> QED
    BY <2>1
<1>3. f \in Injection(T, W)
  BY <1>1, <1>2, Zenon DEF Injection, IsInjective
<1>4. IsFiniteSet(W)
  BY FewRows
<1> HIDE DEF f
<1> QED
  BY <1>3, <1>4, FS_Injection

\* Committing rows moves their claims into the journal.
LEMMA ClaimsOfMore ==
  ASSUME NEW j \in Seq(Row), NEW t \in Seq(Row), NEW rt, CopiesFit(j, rt), NEW x
  PROVE  Cardinality(Claims(j \o t, rt, x)) <= Cardinality(Claims(j, rt, x)) + Cardinality(SentOf(t, x))
<1> DEFINE n == Len(j)
           m == Len(t)
           A == Claims(j, rt, x)
           B == {i \in (1 .. n + m) \ (1 .. n) : i - n \in SentOf(t, x)}
<1>1. /\ n \in Nat /\ m \in Nat /\ Len(j \o t) = n + m
      /\ \A i \in 1 .. n : (j \o t)[i] = j[i]
      /\ \A i \in (1 .. n + m) \ (1 .. n) : i - n \in 1 .. m /\ (j \o t)[i] = t[i - n]
  BY Joined, Rows
<1>2. \A r \in Retriers : Len(rt[r].seen) \in Nat /\ Len(rt[r].seen) <= n
  BY DEF CopiesFit
<1>3. Claims(j \o t, rt, x) \subseteq A \cup B
  <2> SUFFICES ASSUME NEW i \in Claims(j \o t, rt, x) PROVE i \in A \cup B
    OBVIOUS
  <2>1. /\ i \in 1 .. n + m /\ (j \o t)[i].event = x
        /\ \/ (j \o t)[i].status = "SENT"
           \/ \E r \in Retriers : i \in 1 .. Len(rt[r].seen) /\ rt[r].new[i].status = "SENT"
    BY <1>1 DEF Claims
  <2>2. CASE i \in 1 .. n
    <3>1. (j \o t)[i] = j[i]
      BY <1>1, <2>2
    <3> QED
      BY <2>1, <2>2, <3>1 DEF Claims
  <2>3. CASE i \notin 1 .. n
    <3>1. i - n \in 1 .. m /\ (j \o t)[i] = t[i - n]
      BY <1>1, <2>1, <2>3
    <3>2. ASSUME NEW r \in Retriers, i \in 1 .. Len(rt[r].seen) PROVE FALSE
      BY <1>1, <1>2, <2>1, <2>3, <3>2
    <3>3. i - n \in SentOf(t, x)
      BY <2>1, <3>1, <3>2 DEF SentOf
    <3> QED
      BY <2>1, <2>3, <3>3
  <2> QED
    BY <2>2, <2>3
<1>4. IsFiniteSet(B) /\ Cardinality(B) <= Cardinality(SentOf(t, x))
  <2>1. SentOf(t, x) \in SUBSET (1 .. m) /\ B \in SUBSET (1 .. n + m)
    BY DEF SentOf
  <2>2. \A i \in B : i - n \in SentOf(t, x)
    OBVIOUS
  <2> HIDE DEF B
  <2> QED
    BY <1>1, <2>1, <2>2, Shifted
<1>5. /\ IsFiniteSet(A) /\ Cardinality(A) \in Nat
      /\ Cardinality(SentOf(t, x)) \in Nat
  BY ClaimNumbers
<1> HIDE DEF A, B
<1>6. /\ IsFiniteSet(A \cup B) /\ Cardinality(A \cup B) = Cardinality(A) + Cardinality(B) - Cardinality(A \cap B)
      /\ Cardinality(A \cap B) \in Nat /\ Cardinality(B) \in Nat
  BY <1>4, <1>5, FS_Union, FS_Intersection, FS_CardinalityType
<1>7. Cardinality(Claims(j \o t, rt, x)) <= Cardinality(A \cup B)
  BY <1>3, <1>6, FS_Subset
<1>8. Cardinality(Claims(j \o t, rt, x)) \in Nat
  BY <1>3, <1>6, FS_Subset, FS_CardinalityType
<1> QED
  BY <1>4, <1>5, <1>6, <1>7, <1>8 DEF A

\* One more row is at most one more claim, and none of another event.
LEMMA SentOfOneMore ==
  ASSUME NEW t \in Seq(Row), NEW row \in Row, NEW x
  PROVE  /\ Cardinality(SentOf(Append(t, row), x)) <= Cardinality(SentOf(t, x)) + 1
         /\ row.event # x \/ row.status # "SENT" =>
              Cardinality(SentOf(Append(t, row), x)) = Cardinality(SentOf(t, x))
<1> DEFINE n == Len(t)
           S == SentOf(t, x)
           T == SentOf(Append(t, row), x)
<1>1. /\ n \in Nat /\ Len(Append(t, row)) = n + 1
      /\ \A i \in 1 .. n : Append(t, row)[i] = t[i]
      /\ Append(t, row)[n + 1] = row
  BY Appended, Rows
<1>2. IsFiniteSet(S) /\ Cardinality(S) \in Nat
  BY ClaimNumbers
<1>3. T \subseteq S \cup {n + 1}
  BY <1>1 DEF SentOf
<1>4. ASSUME row.event # x \/ row.status # "SENT" PROVE T = S
  BY <1>1, <1>4 DEF SentOf
<1> HIDE DEF S, T
<1>5. IsFiniteSet(S \cup {n + 1}) /\ Cardinality(S \cup {n + 1}) <= Cardinality(S) + 1
  <2>1. /\ IsFiniteSet(S \cup {n + 1})
        /\ Cardinality(S \cup {n + 1}) = IF n + 1 \in S THEN Cardinality(S) ELSE Cardinality(S) + 1
    BY <1>2, FS_AddElement, Zenon
  <2> QED
    BY <1>2, <2>1
<1>6. /\ Cardinality(T) <= Cardinality(S \cup {n + 1})
      /\ Cardinality(T) \in Nat /\ Cardinality(S \cup {n + 1}) \in Nat
  BY <1>3, <1>5, FS_Subset, FS_CardinalityType
<1>7. Cardinality(T) <= Cardinality(S) + 1
  BY <1>2, <1>5, <1>6
<1> QED
  BY <1>4, <1>7 DEF S, T

\* No rows, no claims.
LEMMA SentOfNone ==
  ASSUME NEW t, Len(t) = 0, NEW x
  PROVE  Cardinality(SentOf(t, x)) = 0
<1>1. SentOf(t, x) = {}
  BY DEF SentOf
<1> QED
  BY <1>1, FS_EmptySet

LEMMA ClaimsNext == KeysInv /\ ClaimsCovered /\ [Next]_vars => ClaimsCovered'
<1> SUFFICES ASSUME KeysInv, ClaimsCovered, [Next]_vars, NEW x \in Events
             PROVE  Cardinality(Claims(journal', retry', x)) + Cardinality(SentOf(letter', x))
                      + Cardinality(SentOf(scan'.rows, x)) <= accepted'[x]
  BY DEF ClaimsCovered, Claims, SentOf
<1> DEFINE c  == Cardinality(Claims(journal, retry, x))
           l  == Cardinality(SentOf(letter, x))
           w  == Cardinality(SentOf(scan.rows, x))
           c1 == Cardinality(Claims(journal', retry', x))
           l1 == Cardinality(SentOf(letter', x))
           w1 == Cardinality(SentOf(scan'.rows, x))
           Goal == c1 + l1 + w1 <= accepted'[x]
<1>1. KeysInv'
  BY KeysNext
<1>2. /\ journal \in Seq(Row) /\ letter \in Seq(Row) /\ scan.rows \in Seq(Row)
      /\ journal' \in Seq(Row) /\ letter' \in Seq(Row) /\ scan'.rows \in Seq(Row)
      /\ scan \in [phase : Phases, todo : SUBSET Events, rows : Seq(Row), ran : BOOLEAN]
      /\ accepted \in [Events -> 0 .. MaxRows] /\ CopiesFit(journal, retry)
  BY <1>1 DEF KeysInv, Typed, TypeOK
<1>3. /\ c \in Nat /\ l \in Nat /\ w \in Nat /\ c1 \in Nat /\ l1 \in Nat /\ w1 \in Nat
  BY <1>2, ClaimNumbers, Zenon
<1>4. c + l + w <= accepted[x]
  BY DEF ClaimsCovered
<1>5. ASSUME NEW k \in Nat, c1 + l1 + w1 <= c + l + w + k,
             (k = 0 /\ accepted'[x] = accepted[x]) \/ accepted'[x] = Capped(accepted[x] + k)
      PROVE  Goal
  BY <1>1, <1>4, <1>5, CoveredOn, Zenon
<1> HIDE DEF Goal
<1>6. ASSUME c1 + l1 + w1 <= c + l + w, accepted'[x] = accepted[x] PROVE Goal
  <2> HIDE DEF c, l, w, c1, l1, w1
  <2>1. c1 + l1 + w1 <= c + l + w + 0 /\ 0 \in Nat
    BY <1>3, <1>6
  <2> QED
    BY <1>5, <1>6, <2>1, Zenon
<1>7. ASSUME Claims(journal', retry', x) \subseteq Claims(journal, retry, x)
      PROVE  c1 <= c
  <2>1. /\ Len(journal) \in Nat /\ Claims(journal, retry, x) \in SUBSET (1 .. Len(journal))
    BY <1>2 DEF Claims
  <2> QED
    BY <1>7, <2>1, FewerClaims
<1>8. ASSUME NEW m \in Measures, Emit(m) PROVE Goal
  <2> DEFINE e == [kind |-> "decided", about |-> m, stamp |-> NULL]
  <2>1. PICK a \in Answers : letter' = <<Dispatched(e, a[1], a[2])>> /\ Taken(e, a[1])
    BY <1>8 DEF Emit
  <2>2. e \in Events
    BY DEF Events
  <2> HIDE DEF e
  <2> DEFINE row == Dispatched(e, a[1], a[2])
  <2>3. row \in Row /\ row.event = e /\ (row.status = "SENT" => a[1]) /\ a[1] \in BOOLEAN
    BY <2>2, DispatchedFits, AnswerType
  <2>4. accepted'[x] = IF a[1] /\ x = e THEN Capped(accepted[x] + 1) ELSE accepted[x]
    BY <1>2, <2>1, <2>2, <2>3, TakenOf
  <2>5. letter = <<>> /\ Len(letter) = 0 /\ letter' = <<row>> /\ UNCHANGED <<journal, retry, scan>>
    BY <1>8, <2>1 DEF Emit
  <2> HIDE DEF row
  <2>6. c1 = c /\ w1 = w /\ l = 0
    BY <2>5, SentOfNone
  <2>7. letter' = Append(letter, row)
    BY <2>5
  <2>8. l1 <= l + 1 /\ (row.event # x \/ row.status # "SENT" => l1 = l)
    BY <1>2, <2>3, <2>7, SentOfOneMore
  <2>9. CASE a[1] /\ x = e
    <3>1. accepted'[x] = Capped(accepted[x] + 1)
      BY <2>4, <2>9
    <3>2. c1 + l1 + w1 <= c + l + w + 1 /\ 1 \in Nat
      <4> HIDE DEF c, l, w, c1, l1, w1
      <4> QED
        BY <1>3, <2>6, <2>8
    <3> QED
      BY <1>5, <3>1, <3>2, Zenon
  <2>10. CASE ~ (a[1] /\ x = e)
    <3>1. accepted'[x] = accepted[x] /\ l1 = l
      BY <2>3, <2>4, <2>8, <2>10
    <3>2. c1 + l1 + w1 <= c + l + w
      <4> HIDE DEF c, l, w, c1, l1, w1
      <4> QED
        BY <1>3, <2>6, <3>1
    <3> QED
      BY <1>6, <3>1, <3>2, Zenon
  <2> QED
    BY <2>9, <2>10
<1>9. ASSUME EmitCommit PROVE Goal
  <2>1. journal' = journal \o letter /\ letter' = <<>> /\ Len(letter') = 0
        /\ UNCHANGED <<retry, scan, accepted>>
    BY <1>9 DEF EmitCommit
  <2>2. c1 <= c + l
    BY <1>2, <2>1, ClaimsOfMore
  <2>3. l1 = 0 /\ w1 = w
    BY <2>1, SentOfNone
  <2>4. c1 + l1 + w1 <= c + l + w
    <3> HIDE DEF c, l, w, c1, l1, w1
    <3> QED
      BY <1>3, <2>2, <2>3
  <2> QED
    BY <1>6, <2>1, <2>4, Zenon
<1>10. ASSUME EmitDie PROVE Goal
  <2>1. letter' = <<>> /\ Len(letter') = 0 /\ UNCHANGED <<journal, retry, scan, accepted>>
    BY <1>10 DEF EmitDie
  <2>2. c1 = c /\ l1 = 0 /\ w1 = w
    BY <2>1, SentOfNone
  <2>3. c1 + l1 + w1 <= c + l + w
    <3> HIDE DEF c, l, w, c1, l1, w1
    <3> QED
      BY <1>3, <2>2
  <2> QED
    BY <1>6, <2>1, <2>3, Zenon
<1>11. ASSUME ScanStart \/ ScanDie PROVE Goal
  <2>1. scan'.rows = <<>> /\ Len(scan'.rows) = 0 /\ UNCHANGED <<journal, letter, retry, accepted>>
    <3>1. CASE ScanStart
      BY <3>1 DEF ScanStart
    <3>2. CASE ScanDie
      BY <1>2, <3>2 DEF ScanDie
    <3> QED
      BY <1>11, <3>1, <3>2
  <2>2. c1 = c /\ l1 = l /\ w1 = 0
    BY <2>1, SentOfNone
  <2>3. c1 + l1 + w1 <= c + l + w
    <3> HIDE DEF c, l, w, c1, l1, w1
    <3> QED
      BY <1>3, <2>2
  <2> QED
    BY <1>6, <2>1, <2>3, Zenon
<1>12. ASSUME NEW e \in Events, ScanSkip(e) PROVE Goal
  <2>1. scan'.rows = scan.rows /\ UNCHANGED <<journal, letter, retry, accepted>>
    BY <1>2, <1>12 DEF ScanSkip
  <2>2. c1 + l1 + w1 <= c + l + w
    <3>1. c1 = c /\ l1 = l /\ w1 = w
      BY <2>1
    <3> HIDE DEF c, l, w, c1, l1, w1
    <3> QED
      BY <1>3, <3>1
  <2> QED
    BY <1>6, <2>1, <2>2, Zenon
<1>13. ASSUME NEW e \in Events, ScanEmit(e) PROVE Goal
  <2>1. PICK a \in Answers :
          /\ scan' = [scan EXCEPT !.todo = @ \ {e}, !.rows = Append(@, Dispatched(e, a[1], a[2]))]
          /\ Taken(e, a[1])
    BY <1>13 DEF ScanEmit
  <2> DEFINE row == Dispatched(e, a[1], a[2])
  <2>2. row \in Row /\ row.event = e /\ (row.status = "SENT" => a[1]) /\ a[1] \in BOOLEAN
    BY DispatchedFits, AnswerType
  <2>3. scan'.rows = Append(scan.rows, row) /\ UNCHANGED <<journal, letter, retry>>
    BY <1>2, <1>13, <2>1 DEF ScanEmit
  <2>4. accepted'[x] = IF a[1] /\ x = e THEN Capped(accepted[x] + 1) ELSE accepted[x]
    BY <1>2, <2>1, <2>2, TakenOf
  <2> HIDE DEF row
  <2>5. c1 = c /\ l1 = l
    BY <2>3
  <2>6. w1 <= w + 1 /\ (row.event # x \/ row.status # "SENT" => w1 = w)
    BY <1>2, <2>2, <2>3, SentOfOneMore
  <2>7. CASE a[1] /\ x = e
    <3>1. accepted'[x] = Capped(accepted[x] + 1)
      BY <2>4, <2>7
    <3>2. c1 + l1 + w1 <= c + l + w + 1 /\ 1 \in Nat
      <4> HIDE DEF c, l, w, c1, l1, w1
      <4> QED
        BY <1>3, <2>5, <2>6
    <3> QED
      BY <1>5, <3>1, <3>2, Zenon
  <2>8. CASE ~ (a[1] /\ x = e)
    <3>1. accepted'[x] = accepted[x] /\ w1 = w
      BY <2>2, <2>4, <2>6, <2>8
    <3>2. c1 + l1 + w1 <= c + l + w
      <4> HIDE DEF c, l, w, c1, l1, w1
      <4> QED
        BY <1>3, <2>5, <3>1
    <3> QED
      BY <1>6, <3>1, <3>2, Zenon
  <2> QED
    BY <2>7, <2>8
<1>14. ASSUME ScanCommit PROVE Goal
  <2>1. /\ journal' = journal \o scan.rows /\ scan'.rows = <<>> /\ Len(scan'.rows) = 0
        /\ UNCHANGED <<letter, retry, accepted>>
    BY <1>2, <1>14 DEF ScanCommit
  <2>2. c1 <= c + w
    BY <1>2, <2>1, ClaimsOfMore
  <2>3. w1 = 0 /\ l1 = l
    BY <2>1, SentOfNone
  <2>4. c1 + l1 + w1 <= c + l + w
    <3> HIDE DEF c, l, w, c1, l1, w1
    <3> QED
      BY <1>3, <2>2, <2>3
  <2> QED
    BY <1>6, <2>1, <2>4, Zenon
<1>15. ASSUME NEW r \in Retriers, RetryDeliver(r) PROVE Goal
  <2>1. PICK delivered \in SUBSET Failed(journal), new \in Seq(Row) :
          /\ retry' = [retry EXCEPT ![r] = [seen |-> journal, new |-> new]]
          /\ \A i \in 1 .. Len(journal) :
               new[i].status = "SENT" => journal[i].status = "SENT" \/ i \in delivered
          /\ accepted' = [e \in Events |->
               Capped(accepted[e] + Cardinality({i \in delivered : journal[i].event = e}))]
    BY <1>15, DeliverFits DEF KeysInv
  <2> DEFINE A == Claims(journal, retry, x)
             D == {i \in delivered : journal[i].event = x}
             k == Cardinality(D)
  <2>2. UNCHANGED <<journal, letter, scan>>
    BY <1>15 DEF RetryDeliver
  <2>3. D \in SUBSET (1 .. Len(journal)) /\ Len(journal) \in Nat
    BY <1>2 DEF Failed
  <2>4. IsFiniteSet(D) /\ k \in Nat
    BY <2>3, FewRows
  <2>5. IsFiniteSet(A)
    BY <1>2, ClaimNumbers
  <2>6. /\ retry'[r].seen = journal /\ retry'[r].new = new
        /\ \A q \in Retriers \ {r} : retry'[q] = retry[q]
    BY <1>2, <2>1 DEF CopiesFit
  <2>7. Claims(journal', retry', x) \subseteq A \cup D
    <3> SUFFICES ASSUME NEW i \in Claims(journal, retry', x) PROVE i \in A \cup D
      BY <2>2
    <3>1. /\ i \in 1 .. Len(journal) /\ journal[i].event = x
          /\ \/ journal[i].status = "SENT"
             \/ \E q \in Retriers : i \in 1 .. Len(retry'[q].seen) /\ retry'[q].new[i].status = "SENT"
      BY DEF Claims
    <3>2. CASE journal[i].status = "SENT"
      BY <3>1, <3>2 DEF Claims
    <3>3. ASSUME NEW q \in Retriers, i \in 1 .. Len(retry'[q].seen), retry'[q].new[i].status = "SENT"
          PROVE  i \in A \cup D
      <4>1. CASE q = r
        BY <2>1, <2>6, <3>1, <3>3, <4>1 DEF Claims
      <4>2. CASE q # r
        BY <2>6, <3>1, <3>3, <4>2 DEF Claims
      <4> QED
        BY <4>1, <4>2
    <3> QED
      BY <3>1, <3>2, <3>3
  <2>8. c1 <= c + k
    <3>1. /\ IsFiniteSet(A \cup D)
          /\ Cardinality(A \cup D) = Cardinality(A) + Cardinality(D) - Cardinality(A \cap D)
          /\ Cardinality(A \cap D) \in Nat /\ Cardinality(A \cup D) \in Nat
      <4> HIDE DEF A, D
      <4> QED
        BY <2>4, <2>5, FS_Union, FS_Intersection, FS_CardinalityType
    <3>2. c1 <= Cardinality(A \cup D)
      <4> HIDE DEF A, D
      <4> QED
        BY <2>7, <3>1, FS_Subset
    <3>3. c = Cardinality(A)
      OBVIOUS
    <3> HIDE DEF A, D, c, c1
    <3> QED
      BY <1>3, <2>4, <3>1, <3>2, <3>3
  <2>9. l1 = l /\ w1 = w /\ accepted'[x] = Capped(accepted[x] + k)
    BY <2>1, <2>2
  <2>10. c1 + l1 + w1 <= c + l + w + k
    <3> HIDE DEF c, l, w, c1, l1, w1, k
    <3> QED
      BY <1>3, <2>4, <2>8, <2>9
  <2> HIDE DEF k
  <2> QED
    BY <1>5, <2>4, <2>9, <2>10, Zenon
<1>16. ASSUME NEW r \in Retriers, RetryCommit(r) PROVE Goal
  <2>1. /\ journal' = Merged(retry[r]) /\ retry' = [retry EXCEPT ![r] = NoRetry]
        /\ UNCHANGED <<letter, scan, accepted>>
    BY <1>16 DEF RetryCommit
  <2>2. /\ Len(journal') = Len(journal)
        /\ \A i \in 1 .. Len(journal) :
             /\ journal'[i].event = journal[i].event
             /\ journal'[i].status = "SENT" =>
                  \/ journal[i].status = "SENT"
                  \/ i \in 1 .. Len(retry[r].seen) /\ retry[r].new[i].status = "SENT"
    BY <2>1, MergedFits DEF KeysInv
  <2>3. Len(retry'[r].seen) = 0 /\ \A q \in Retriers \ {r} : retry'[q] = retry[q]
    BY <2>1, NoCopies DEF KeysInv
  <2>4. Claims(journal', retry', x) \subseteq Claims(journal, retry, x)
    BY <2>2, <2>3 DEF Claims
  <2>5. c1 <= c /\ l1 = l /\ w1 = w
    BY <1>7, <2>1, <2>4
  <2>6. c1 + l1 + w1 <= c + l + w
    <3> HIDE DEF c, l, w, c1, l1, w1
    <3> QED
      BY <1>3, <2>5
  <2> QED
    BY <1>6, <2>1, <2>6, Zenon
<1>17. ASSUME NEW r \in Retriers, RetryDie(r) PROVE Goal
  <2>1. retry' = [retry EXCEPT ![r] = NoRetry] /\ UNCHANGED <<journal, letter, scan, accepted>>
    BY <1>17 DEF RetryDie
  <2>2. Len(retry'[r].seen) = 0 /\ \A q \in Retriers \ {r} : retry'[q] = retry[q]
    BY <2>1, NoCopies DEF KeysInv
  <2>3. Claims(journal', retry', x) \subseteq Claims(journal, retry, x)
    BY <2>1, <2>2 DEF Claims
  <2>4. c1 <= c /\ l1 = l /\ w1 = w
    BY <1>7, <2>1, <2>3
  <2>5. c1 + l1 + w1 <= c + l + w
    <3> HIDE DEF c, l, w, c1, l1, w1
    <3> QED
      BY <1>3, <2>4
  <2> QED
    BY <1>6, <2>1, <2>5, Zenon
<1>18. ASSUME \/ \E m \in Measures : Replan(m) \/ Finish(m)
              \/ \E s \in Subjects : Correct(s)
              \/ \E s \in Systems : Assess(s)
              \/ Tick
              \/ UNCHANGED vars
       PROVE  Goal
  <2>1. UNCHANGED <<journal, letter, retry, accepted>> /\ scan'.rows = scan.rows
    BY <1>18, WorldQuiet
  <2>2. c1 + l1 + w1 <= c + l + w
    <3>1. c1 = c /\ l1 = l /\ w1 = w
      BY <2>1
    <3> HIDE DEF c, l, w, c1, l1, w1
    <3> QED
      BY <1>3, <3>1
  <2> QED
    BY <1>6, <2>1, <2>2, Zenon
<1>19. Goal
  BY <1>8, <1>9, <1>10, <1>11, <1>12, <1>13, <1>14, <1>15, <1>16, <1>17, <1>18
  DEF Next, RetryStep
<1> QED
  BY <1>19 DEF Goal

LEMMA ClaimsInit == Init => ClaimsCovered
<1> SUFFICES ASSUME Init, NEW x \in Events
             PROVE  Cardinality(Claims(journal, retry, x)) + Cardinality(SentOf(letter, x))
                      + Cardinality(SentOf(scan.rows, x)) <= accepted[x]
  BY DEF ClaimsCovered
<1>1. /\ Len(journal) = 0 /\ Len(letter) = 0 /\ Len(scan.rows) = 0 /\ accepted[x] = 0
  BY DEF Init
<1>2. Claims(journal, retry, x) = {}
  BY <1>1 DEF Claims
<1>3. /\ Cardinality(Claims(journal, retry, x)) = 0 /\ Cardinality(SentOf(letter, x)) = 0
      /\ Cardinality(SentOf(scan.rows, x)) = 0
  BY <1>1, <1>2, SentOfNone, FS_EmptySet
<1> QED
  BY <1>1, <1>3

(***************************************************************************)
(* However repetitions overlap, die and set each other's columns back, the *)
(* rows marked SENT are no more than the mails the channel took: the       *)
(* journal never claims a delivery that did not take place (retry_failed). *)
(***************************************************************************)
THEOREM JournalTruthfulAlways == Spec => []JournalTruthful
<1>1. KeysInv /\ ClaimsCovered => JournalTruthful
  <2> SUFFICES ASSUME KeysInv, ClaimsCovered, NEW e \in Events
               PROVE  Cardinality({i \in DOMAIN journal :
                        journal[i].event = e /\ journal[i].status = "SENT"}) <= accepted[e]
    BY DEF JournalTruthful
  <2> DEFINE S == {i \in DOMAIN journal : journal[i].event = e /\ journal[i].status = "SENT"}
             c == Cardinality(Claims(journal, retry, e))
             l == Cardinality(SentOf(letter, e))
             w == Cardinality(SentOf(scan.rows, e))
             n == Cardinality(S)
  <2>1. /\ journal \in Seq(Row) /\ letter \in Seq(Row) /\ scan.rows \in Seq(Row)
        /\ DOMAIN journal = 1 .. Len(journal) /\ Len(journal) \in Nat
        /\ accepted[e] \in Nat
    BY BoundsAssumption DEF KeysInv, Typed, TypeOK
  <2>2. S \subseteq Claims(journal, retry, e) /\ S \in SUBSET (1 .. Len(journal))
    BY <2>1 DEF Claims
  <2>3. Claims(journal, retry, e) \in SUBSET (1 .. Len(journal))
    BY DEF Claims
  <2>4. n <= c /\ n \in Nat
    <3> HIDE DEF S
    <3> QED
      BY <2>1, <2>2, <2>3, FewRows, FewerClaims
  <2>5. c \in Nat /\ l \in Nat /\ w \in Nat
    BY <2>1, ClaimNumbers, Zenon
  <2>6. c + l + w <= accepted[e]
    BY DEF ClaimsCovered
  <2>7. n <= accepted[e]
    <3> HIDE DEF n, c, l, w
    <3> QED
      BY <2>1, <2>4, <2>5, <2>6
  <2> QED
    BY <2>7 DEF n, S
<1> QED
  BY <1>1, ClaimsInit, ClaimsNext, KeysAlways, PTL DEF Spec

=============================================================================
