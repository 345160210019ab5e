-------------------------- MODULE IncidentsProofs --------------------------
(***************************************************************************)
(* Proofs about the register of failures (Incidents), for every set of     *)
(* tickets, systems and exports and every number of importers.             *)
(***************************************************************************)
EXTENDS Incidents, TLAPS, FiniteSetTheorems, WellFoundedInduction

(***************************************************************************)
(* The least and the greatest of some places.                              *)
(***************************************************************************)
LEMMA Least ==
  ASSUME NEW S \in SUBSET Nat, S # {}
  PROVE  \E m \in S : \A k \in S : m <= k
<1>1. PICK m \in S : \A y \in S : ~ (<<y, m>> \in OpToRel(<, Nat))
  BY WFMin, NatLessThanWellFounded
<1>2. \A y \in S : ~ (y < m)
  BY <1>1 DEF OpToRel
<1> QED
  BY <1>2

LEMMA Greatest ==
  ASSUME NEW n \in Nat, NEW S \in SUBSET (1 .. n), S # {}
  PROVE  Max(S) \in S /\ \A k \in S : k <= Max(S)
<1> DEFINE T == {m \in Nat : \E k \in S : m = n - k}
<1>1. T \in SUBSET Nat /\ T # {}
  <2>1. PICK k \in S : TRUE
    OBVIOUS
  <2>2. n - k \in Nat
    OBVIOUS
  <2>3. n - k \in T
    BY <2>2
  <2> QED
    BY <2>3
<1>2. PICK m \in T : \A k \in T : m <= k
  BY <1>1, Least
<1>3. PICK x \in S : m = n - x
  BY <1>2
<1>4. \A k \in S : x >= k
  <2> TAKE k \in S
  <2>1. n - k \in T
    OBVIOUS
  <2> QED
    BY <2>1, <1>2, <1>3
<1>5. \E y \in S : \A k \in S : y >= k
  BY <1>4
<1> QED
  BY <1>5 DEF Max

LEMMA Smallest ==
  ASSUME NEW S \in SUBSET Nat, S # {}
  PROVE  Min(S) \in S /\ \A k \in S : Min(S) <= k
BY Least DEF Min

(***************************************************************************)
(* Whoever has a place of his own among n finds all n taken.               *)
(***************************************************************************)
LEMMA EveryPlace ==
  ASSUME NEW S, IsFiniteSet(S), NEW f \in [S -> 1 .. Cardinality(S)],
         \A i, k \in S : f[i] = f[k] => i = k
  PROVE  \A n \in 1 .. Cardinality(S) : \E i \in S : f[i] = n
<1>1. Cardinality(S) \in Nat
  BY FS_CardinalityType
<1>2. IsFiniteSet(1 .. Cardinality(S)) /\ Cardinality(1 .. Cardinality(S)) = Cardinality(S)
  BY <1>1, FS_Interval
<1>3. f \in Injection(S, 1 .. Cardinality(S))
  BY DEF Injection, IsInjective
<1>4. f \in Surjection(S, 1 .. Cardinality(S))
  BY <1>2, <1>3, FS_Injection
<1> QED
  BY <1>4 DEF Surjection

(***************************************************************************)
(* The places of S, in order.                                              *)
(***************************************************************************)
LEMMA InOrder ==
  ASSUME NEW n \in Nat, NEW S \in SUBSET (1 .. n)
  PROVE  /\ IsFiniteSet(S) /\ Cardinality(S) \in Nat
         /\ \A k \in 1 .. Cardinality(S) : \E i \in S : Cardinality({m \in S : m <= i}) = k
         /\ \A i \in S : Cardinality({m \in S : m <= i}) \in 1 .. Cardinality(S)
         /\ \A i, k \in S : Cardinality({m \in S : m <= i}) = Cardinality({m \in S : m <= k}) => i = k
<1>1. IsFiniteSet(1 .. n)
  BY FS_Interval
<1>2. IsFiniteSet(S) /\ Cardinality(S) \in Nat
  BY <1>1, FS_Subset, FS_CardinalityType
<1> DEFINE f == [i \in S |-> Cardinality({m \in S : m <= i})]
<1>3. \A i \in S : f[i] \in 1 .. Cardinality(S)
  <2> TAKE i \in S
  <2> DEFINE U == {m \in S : m <= i}
  <2>1. U \in SUBSET S /\ i \in U
    OBVIOUS
  <2>2. IsFiniteSet(U) /\ Cardinality(U) \in Nat /\ Cardinality(U) <= Cardinality(S)
    BY <1>2, <2>1, FS_Subset, FS_CardinalityType
  <2>3. Cardinality(U) # 0
    BY <2>1, <2>2, FS_EmptySet
  <2> QED
    BY <1>2, <2>2, <2>3
<1>4. \A i, k \in S : i < k => f[i] # f[k]
  <2> SUFFICES ASSUME NEW i \in S, NEW k \in S, i < k, f[i] = f[k] PROVE FALSE
    OBVIOUS
  <2> DEFINE U == {m \in S : m <= i}
             V == {m \in S : m <= k}
  <2>1. U \in SUBSET V /\ k \in V /\ k \notin U /\ V \in SUBSET S
    <3>1. i \in Nat /\ k \in Nat /\ \A m \in S : m \in Nat
      OBVIOUS
    <3>2. \A m \in S : m <= i => m <= k
      BY <3>1
    <3>3. k <= k /\ ~ (k <= i)
      BY <3>1
    <3>4. U \in SUBSET V
      BY <3>2
    <3> QED
      BY <3>3, <3>4
  <2>2. IsFiniteSet(V)
    BY <1>2, <2>1, FS_Subset
  <2>3. Cardinality(U) = Cardinality(V)
    OBVIOUS
  <2> HIDE DEF U, V
  <2>4. U = V
    BY <2>1, <2>2, <2>3, FS_Subset
  <2> QED
    BY <2>1, <2>4
<1>5. f \in [S -> 1 .. Cardinality(S)]
  BY <1>3
<1>6. \A i, k \in S : f[i] = f[k] => i = k
  BY <1>4
<1>7. \A k \in 1 .. Cardinality(S) : \E i \in S : f[i] = k
  <2> HIDE DEF f
  <2> QED
    BY <1>2, <1>5, <1>6, EveryPlace
<1>8. \A i \in S : f[i] = Cardinality({m \in S : m <= i})
  OBVIOUS
<1> HIDE DEF f
<1> QED
  BY <1>2, <1>3, <1>6, <1>7, <1>8

LEMMA AtPlaces ==
  ASSUME NEW T, NEW s \in Seq(T), NEW S \in SUBSET DOMAIN s
  PROVE  /\ At(s, S) \in Seq(T) /\ Len(At(s, S)) = Cardinality(S) /\ DOMAIN At(s, S) = 1 .. Cardinality(S)
         /\ \A k \in DOMAIN At(s, S) : \E i \in S : At(s, S)[k] = s[i]
         /\ \A k, l \in DOMAIN At(s, S) :
              (\A a, b \in S : s[a] = s[b] => a = b) /\ At(s, S)[k] = At(s, S)[l] => k = l
         /\ \E from \in [DOMAIN At(s, S) -> S] :
              /\ \A k \in DOMAIN At(s, S) : At(s, S)[k] = s[from[k]]
              /\ \A k, l \in DOMAIN At(s, S) : from[k] = from[l] => k = l
<1> DEFINE n == Cardinality(S)
           place(k) == CHOOSE i \in S : Cardinality({m \in S : m <= i}) = k
<1>1. Len(s) \in Nat /\ DOMAIN s = 1 .. Len(s) /\ \A i \in DOMAIN s : s[i] \in T
  OBVIOUS
<1>2. n \in Nat /\ \A k \in 1 .. n : place(k) \in S /\ Cardinality({m \in S : m <= place(k)}) = k
  <2>1. n \in Nat /\ \A k \in 1 .. n : \E i \in S : Cardinality({m \in S : m <= i}) = k
    BY <1>1, InOrder
  <2>2. ASSUME NEW k \in 1 .. n
        PROVE  place(k) \in S /\ Cardinality({m \in S : m <= place(k)}) = k
    <3>1. \E i \in S : Cardinality({m \in S : m <= i}) = k
      BY <2>1
    <3> QED
      BY <3>1
  <2> QED
    BY <2>1, <2>2
<1>3. At(s, S) = [k \in 1 .. n |-> s[place(k)]]
  BY DEF At
<1> HIDE DEF place, n
<1>4. At(s, S) \in [1 .. n -> T]
  BY <1>1, <1>2, <1>3
<1>5. At(s, S) \in Seq(T) /\ Len(At(s, S)) = n /\ DOMAIN At(s, S) = 1 .. n
  BY <1>2, <1>4
<1>6. \A k \in 1 .. n : place(k) \in S /\ At(s, S)[k] = s[place(k)]
  BY <1>2, <1>3
<1>7. \A k, l \in 1 .. n : place(k) = place(l) => k = l
  BY <1>2
<1>8. \E from \in [DOMAIN At(s, S) -> S] :
        /\ \A k \in DOMAIN At(s, S) : At(s, S)[k] = s[from[k]]
        /\ \A k, l \in DOMAIN At(s, S) : from[k] = from[l] => k = l
  <2> DEFINE D == DOMAIN At(s, S)
             from == [k \in D |-> place(k)]
  <2>1. D = 1 .. n
    BY <1>5
  <2> HIDE DEF D
  <2>2. from \in [D -> S] /\ \A k \in D : from[k] = place(k)
    BY <1>6, <2>1
  <2> HIDE DEF from
  <2>3. \A k \in D : At(s, S)[k] = s[from[k]]
    BY <1>6, <2>1, <2>2
  <2>4. \A k, l \in D : from[k] = from[l] => k = l
    BY <1>7, <2>1, <2>2
  <2>5. \E g \in [D -> S] : (\A k \in D : At(s, S)[k] = s[g[k]]) /\ \A k, l \in D : g[k] = g[l] => k = l
    BY <2>2, <2>3, <2>4
  <2> QED
    BY <2>5 DEF D
<1>9. \A k \in 1 .. n : \E i \in S : At(s, S)[k] = s[i]
  BY <1>6
<1>10. \A k, l \in 1 .. n : (\A a, b \in S : s[a] = s[b] => a = b) /\ At(s, S)[k] = At(s, S)[l] => k = l
  BY <1>6, <1>7
<1>11. DOMAIN At(s, S) = 1 .. n
  BY <1>5
<1>12. At(s, S) \in Seq(T) /\ Len(At(s, S)) = n
  BY <1>5
<1> QED
  BY <1>8, <1>9, <1>10, <1>11, <1>12, Zenon DEF n

-----------------------------------------------------------------------------
(***************************************************************************)
(* A line of an export that says which ticket it is of, and when.          *)
(***************************************************************************)
RawLine ==
  [ext : Tickets \cup {NONE}, ci : CIs \cup {NONE}, group : Groups \cup {NONE},
   at : Int \cup {NONE}, resolved : BOOLEAN, parent : Tickets \cup {NONE}]

Line == {l \in RawLine : l.ext # NONE /\ l.at # NONE}

\* The lines of the records that have a moment: a ticket given once is given there.
FromRecords(records, lines) ==
  /\ records \in Seq(RawLine) /\ lines \in Seq(Line)
  /\ Refs(lines) \subseteq Refs(records) /\ Repeated(lines) \subseteq Repeated(records)
  /\ \A i \in DOMAIN lines :
       lines[i].ext \notin Repeated(records) => lines[i] = records[LastLine(records, lines[i].ext)]

LEMMA LineFields ==
  \A l \in Line : /\ l.ext # NONE /\ l.ext \in Tickets /\ l.at \in Int /\ l.resolved \in BOOLEAN
                 /\ l.ci \in CIs \cup {NONE} /\ l.group \in Groups \cup {NONE}
BY DEF Line, RawLine

(***************************************************************************)
(* The last line of a ticket, which is the only one if none is repeated.   *)
(***************************************************************************)
LEMMA LastLineFits ==
  ASSUME NEW T, NEW file \in Seq(T)
  PROVE  /\ \A t \in Refs(file) : LastLine(file, t) \in DOMAIN file /\ file[LastLine(file, t)].ext = t
         /\ \A i \in DOMAIN file :
              file[i].ext \in Refs(file)
              /\ (file[i].ext \notin Repeated(file) => i = LastLine(file, file[i].ext))
<1>1. ASSUME NEW t \in Refs(file)
      PROVE  LastLine(file, t) \in DOMAIN file /\ file[LastLine(file, t)].ext = t
  <2> DEFINE S == {i \in DOMAIN file : file[i].ext = t}
  <2>1. Len(file) \in Nat /\ S \in SUBSET (1 .. Len(file)) /\ S # {} /\ S \in SUBSET DOMAIN file
    BY DEF Refs
  <2> HIDE DEF S
  <2>2. Max(S) \in S
    BY <2>1, Greatest
  <2>3. LastLine(file, t) \in S
    BY <2>2 DEF LastLine, S
  <2> QED
    BY <2>3 DEF S
<1>2. \A i \in DOMAIN file : file[i].ext \in Refs(file)
  BY DEF Refs
<1>3. \A i \in DOMAIN file : file[i].ext \notin Repeated(file) => i = LastLine(file, file[i].ext)
  BY DEF Repeated
<1> QED
  BY <1>1, <1>2, <1>3

LEMMA LinesFit ==
  ASSUME NEW export \in Exports
  PROVE  FromRecords(ExportRecords[export], Lines[export])
<1> DEFINE R == {i \in DOMAIN export : export[i].ext # NONE}
           records == At(export, R)
           D == {i \in DOMAIN records : records[i].at # NONE}
           lines == At(records, D)
<1>1. ExportRecords[export] = records /\ Lines[export] = lines
  BY DEF ExportRecords, Lines
<1>2. records \in Seq(RawLine) /\ \A i \in DOMAIN records : records[i].ext # NONE
  <2>1. export \in Seq(RawLine)
    BY IncidentsAssumption DEF RawLine
  <2>2. R \in SUBSET DOMAIN export /\ \A i \in R : export[i].ext # NONE
    OBVIOUS
  <2> HIDE DEF R
  <2> QED
    BY <2>1, <2>2, AtPlaces
<1> HIDE DEF records
<1>3. D \in SUBSET DOMAIN records /\ \A i \in D : records[i] \in Line
  BY <1>2 DEF Line
<1> HIDE DEF D
<1>4. PICK from \in [DOMAIN lines -> D] : /\ \A k \in DOMAIN lines : lines[k] = records[from[k]]
                                          /\ \A k, l \in DOMAIN lines : from[k] = from[l] => k = l
  BY <1>2, <1>3, AtPlaces
<1>5. lines \in Seq(Line)
  <2>1. lines \in Seq(RawLine) /\ DOMAIN lines = 1 .. Len(lines)
    BY <1>2, <1>3, AtPlaces
  <2>2. \A k \in 1 .. Len(lines) : lines[k] \in Line
    BY <1>3, <1>4, <2>1
  <2> HIDE DEF lines
  <2> QED
    BY <2>1, <2>2
<1> HIDE DEF lines
<1>6. \A k \in DOMAIN lines : from[k] \in DOMAIN records /\ records[from[k]].ext = lines[k].ext
  BY <1>3, <1>4
<1>7. Refs(lines) \subseteq Refs(records)
  BY <1>6 DEF Refs
<1>8. \A k \in DOMAIN lines :
        lines[k].ext \notin Repeated(records) => from[k] = LastLine(records, lines[k].ext)
  BY <1>2, <1>6, LastLineFits
<1>9. Repeated(lines) \subseteq Repeated(records)
  <2> SUFFICES ASSUME NEW k \in DOMAIN lines, k # LastLine(lines, lines[k].ext),
                      lines[k].ext \notin Repeated(records)
               PROVE  FALSE
    BY DEF Repeated
  <2> DEFINE l == LastLine(lines, lines[k].ext)
  <2>1. l \in DOMAIN lines /\ lines[l].ext = lines[k].ext
    BY <1>5, LastLineFits
  <2> HIDE DEF l
  <2>2. from[l] = from[k]
    BY <1>8, <2>1
  <2> QED
    BY <1>4, <2>1, <2>2 DEF l
<1> QED
  BY <1>1, <1>2, <1>4, <1>5, <1>7, <1>8, <1>9 DEF FromRecords

(***************************************************************************)
(* The order of the sweep: strict, total, and by moment within a group.    *)
(***************************************************************************)
LEMMA LooseLines ==
  ASSUME NEW T, NEW file \in Seq(T)
  PROVE  Loose(file) \in SUBSET DOMAIN file /\ Loose(file) \in SUBSET Nat
BY DEF Loose

LEMMA FirstType ==
  ASSUME NEW file \in Seq(Line), NEW i \in Loose(file)
  PROVE  First(file, GroupKey(file[i])) \in Nat
<1> DEFINE S == {k \in Loose(file) : GroupKey(file[k]) = GroupKey(file[i])}
<1>1. S \in SUBSET Nat /\ i \in S
  BY LooseLines
<1> HIDE DEF S
<1>2. Min(S) \in S
  BY <1>1, Smallest
<1> QED
  BY <1>1, <1>2 DEF First, S

LEMMA BeforeOrders ==
  ASSUME NEW file \in Seq(Line)
  PROVE  /\ \A i \in Loose(file) : ~ Before(file, i, i)
         /\ \A i, k \in Loose(file) : Before(file, i, k) \/ Before(file, k, i) \/ i = k
         /\ \A i, k, m \in Loose(file) : Before(file, i, k) /\ Before(file, k, m) => Before(file, i, m)
         /\ \A i, k \in Loose(file) :
              Before(file, i, k) /\ GroupKey(file[i]) = GroupKey(file[k]) => file[i].at <= file[k].at
<1> DEFINE group(m) == First(file, GroupKey(file[m]))
           at(m) == file[m].at
           Earlier(i, k) == \/ group(i) < group(k)
                            \/ group(i) = group(k) /\ at(i) < at(k)
                            \/ group(i) = group(k) /\ at(i) = at(k) /\ i < k
<1>1. \A m \in Loose(file) : group(m) \in Nat /\ at(m) \in Int /\ m \in Nat
  BY FirstType, LooseLines, LineFields
<1>2. \A i, k \in Loose(file) : Before(file, i, k) <=> Earlier(i, k)
  BY DEF Before
<1>3. \A i, k \in Loose(file) : GroupKey(file[i]) = GroupKey(file[k]) => group(i) = group(k)
  OBVIOUS
<1> HIDE DEF group, at
<1>4. \A i \in Loose(file) : ~ Earlier(i, i)
  BY <1>1
<1>5. \A i, k \in Loose(file) : Earlier(i, k) \/ Earlier(k, i) \/ i = k
  BY <1>1
<1>6. \A i, k, m \in Loose(file) : Earlier(i, k) /\ Earlier(k, m) => Earlier(i, m)
  BY <1>1
<1>7. \A i, k \in Loose(file) : Earlier(i, k) /\ group(i) = group(k) => at(i) <= at(k)
  BY <1>1
<1>8. \A i, k \in Loose(file) :
        Before(file, i, k) /\ GroupKey(file[i]) = GroupKey(file[k]) => at(i) <= at(k)
  BY <1>2, <1>3, <1>7
<1> HIDE DEF Earlier
<1> QED
  BY <1>2, <1>4, <1>5, <1>6, <1>8 DEF at

(***************************************************************************)
(* Every place of the order has its line, and an earlier place an earlier  *)
(* line.                                                                   *)
(***************************************************************************)
LEMMA NthLine ==
  ASSUME NEW file \in Seq(Line)
  PROVE  /\ Cardinality(Loose(file)) \in Nat
         /\ \A n \in 1 .. Cardinality(Loose(file)) : Nth(file, n) \in Loose(file)
         /\ \A m, n \in 1 .. Cardinality(Loose(file)) : m < n => Before(file, Nth(file, m), Nth(file, n))
<1> DEFINE S == Loose(file)
           upto(i) == {m \in S : ~ Before(file, i, m)}
           f == [i \in S |-> Cardinality(upto(i))]
<1>1. S \in SUBSET DOMAIN file /\ IsFiniteSet(S) /\ Cardinality(S) \in Nat
  <2>1. IsFiniteSet(DOMAIN file) /\ S \in SUBSET DOMAIN file
    BY FS_Interval DEF Loose
  <2> QED
    BY <2>1, FS_Subset, FS_CardinalityType
<1> HIDE DEF S
<1>2. \A i \in S : i \in upto(i) /\ upto(i) \in SUBSET S /\ IsFiniteSet(upto(i))
  BY <1>1, BeforeOrders, FS_Subset DEF S
<1>3. \A i \in S : f[i] \in 1 .. Cardinality(S)
  <2> TAKE i \in S
  <2>1. upto(i) # {} /\ IsFiniteSet(upto(i)) /\ upto(i) \in SUBSET S
    BY <1>2
  <2> HIDE DEF upto
  <2>2. Cardinality(upto(i)) \in Nat /\ Cardinality(upto(i)) <= Cardinality(S) /\ Cardinality(upto(i)) # 0
    BY <1>1, <2>1, FS_Subset, FS_CardinalityType, FS_EmptySet
  <2> QED
    BY <1>1, <2>2
<1>4. \A i, k \in S : Before(file, i, k) => f[i] < f[k]
  <2> SUFFICES ASSUME NEW i \in S, NEW k \in S, Before(file, i, k) PROVE f[i] < f[k]
    OBVIOUS
  <2>1. upto(i) \in SUBSET upto(k) /\ k \in upto(k) /\ k \notin upto(i) /\ IsFiniteSet(upto(k))
    BY <1>1, <1>2, BeforeOrders DEF S
  <2> HIDE DEF upto
  <2>2. Cardinality(upto(i)) <= Cardinality(upto(k)) /\ Cardinality(upto(i)) # Cardinality(upto(k))
    BY <2>1, FS_Subset
  <2>3. f[i] \in Nat /\ f[k] \in Nat
    BY <1>1, <1>3
  <2> QED
    BY <2>2, <2>3
<1>5. f \in [S -> 1 .. Cardinality(S)] /\ \A i, k \in S : f[i] = f[k] => i = k
  <2>1. f \in [S -> 1 .. Cardinality(S)]
    BY <1>3
  <2>2. ASSUME NEW i \in S, NEW k \in S, f[i] = f[k] PROVE i = k
    <3>1. f[i] \in Nat /\ f[k] \in Nat
      BY <1>1, <1>3
    <3> HIDE DEF f
    <3>2. ~ Before(file, i, k) /\ ~ Before(file, k, i)
      BY <1>4, <2>2, <3>1
    <3> QED
      BY <3>2, BeforeOrders DEF S
  <2> HIDE DEF f
  <2> QED
    BY <2>1, <2>2
<1>6. \A n \in 1 .. Cardinality(S) : \E i \in S : f[i] = n
  <2> HIDE DEF f
  <2> QED
    BY <1>1, <1>5, EveryPlace
<1>7. \A n \in 1 .. Cardinality(S) : Nth(file, n) \in S /\ f[Nth(file, n)] = n
  <2> TAKE n \in 1 .. Cardinality(S)
  <2>1. \E i \in S : Cardinality(upto(i)) = n
    BY <1>6
  <2>2. Nth(file, n) = CHOOSE i \in S : Cardinality(upto(i)) = n
    BY DEF Nth, S
  <2> HIDE DEF upto
  <2> QED
    BY <2>1, <2>2
<1>8. \A m, n \in 1 .. Cardinality(S) : m < n => Before(file, Nth(file, m), Nth(file, n))
  <2> HIDE DEF f
  <2> SUFFICES ASSUME NEW m \in 1 .. Cardinality(S), NEW n \in 1 .. Cardinality(S), m < n
               PROVE  Before(file, Nth(file, m), Nth(file, n))
    OBVIOUS
  <2>1. Nth(file, m) \in S /\ Nth(file, n) \in S /\ f[Nth(file, m)] = m /\ f[Nth(file, n)] = n
    BY <1>7
  <2>2. ~ Before(file, Nth(file, n), Nth(file, m))
    BY <1>1, <1>4, <2>1
  <2>3. Nth(file, m) # Nth(file, n)
    BY <1>1, <2>1
  <2> QED
    BY <1>1, <2>1, <2>2, <2>3, BeforeOrders DEF S
<1> QED
  BY <1>1, <1>7, <1>8 DEF S

(***************************************************************************)
(* What two lines of one group have in common, and what a link that the    *)
(* sweep finds says of the two.                                            *)
(***************************************************************************)
IncidentConfig ==
  aliases \in [CIs -> Systems \cup {NONE}] /\ groups \in [Groups -> Systems \cup {NONE}]

LEMMA SameSystem ==
  ASSUME IncidentConfig
  PROVE  /\ \A t \in RawLine : Resolved(t) \in Systems \cup {NONE}
         /\ \A t, u \in Line : GroupKey(t) = GroupKey(u) => Resolved(t) = Resolved(u)
<1>1. \A t \in RawLine : t.ci \in CIs \cup {NONE} /\ t.group \in Groups \cup {NONE}
  BY DEF RawLine
<1>2. \A t \in RawLine : Resolved(t) \in Systems \cup {NONE}
  BY <1>1, IncidentsAssumption DEF Resolved, IncidentConfig
<1>3. \A t, u \in Line : GroupKey(t) = GroupKey(u) => Resolved(t) = Resolved(u)
  <2>1. \A t \in Line : t \in RawLine
    BY DEF Line
  <2> QED
    BY <1>2, <2>1, IncidentsAssumption, LineFields DEF GroupKey
<1> QED
  BY <1>2, <1>3

OneFailure(file, t, u) ==
  \E i, h \in DOMAIN file : /\ file[i].ext = t /\ file[h].ext = u
                           /\ GroupKey(file[i]) = GroupKey(file[h])
                           /\ file[i].at - file[h].at \in 0 .. WINDOW

LEMMA SweepLinks ==
  ASSUME NEW file \in Seq(Line)
  PROVE  \A t \in DOMAIN Correlated(file) : t \in Named(file) \/ OneFailure(file, t, Correlated(file)[t])
<1> DEFINE N == Cardinality(Loose(file))
           start == [head |-> NONE, last |-> 0, links |-> Explicit(file)]
           swept[n \in 0 .. N] == IF n = 0 THEN start ELSE Sweep(file, swept[n - 1], Nth(file, n))
           Fits(g, k) == g = [n \in 0 .. k |-> IF n = 0 THEN start ELSE Sweep(file, g[n - 1], Nth(file, n))]
<1>1. Correlated(file) = swept[N].links
  BY DEF Correlated
<1>2. N \in Nat
  BY NthLine
<1> HIDE DEF start
<1>3. \A k \in 0 .. N : \E g : Fits(g, k)
  <2> DEFINE Bad == {k \in 0 .. N : ~ \E g : Fits(g, k)}
  <2> SUFFICES ASSUME Bad # {} PROVE FALSE
    OBVIOUS
  <2>1. PICK m \in Bad : \A k \in Bad : m <= k
    <3>1. Bad \in SUBSET Nat
      BY <1>2
    <3> HIDE DEF Bad
    <3> QED
      BY <3>1, Least
  <2>2. m # 0
    <3>1. Fits([n \in 0 .. 0 |-> start], 0)
      OBVIOUS
    <3> QED
      BY <3>1, <2>1
  <2>3. PICK g : Fits(g, m - 1)
    <3>1. m - 1 \in 0 .. N /\ ~ (m <= m - 1)
      BY <1>2, <2>1, <2>2
    <3> HIDE DEF Fits
    <3> QED
      BY <2>1, <3>1
  <2> DEFINE h == [n \in 0 .. m |-> IF n = m THEN Sweep(file, g[m - 1], Nth(file, m)) ELSE g[n]]
  <2>4. \A n \in 0 .. m : h[n] = IF n = 0 THEN start ELSE Sweep(file, h[n - 1], Nth(file, n))
    BY <1>2, <2>1, <2>2, <2>3
  <2>5. Fits(h, m)
    BY <2>4
  <2> QED
    BY <2>1, <2>5
<1>4. Fits(swept, N)
  <2>1. \E g : Fits(g, N)
    BY <1>2, <1>3
  <2>2. swept = CHOOSE g : Fits(g, N)
    OBVIOUS
  <2> HIDE DEF Fits
  <2> QED
    BY <2>1, <2>2
<1>5. /\ swept[0] = start
      /\ \A n \in 1 .. N : n - 1 \in 0 .. N /\ swept[n] = Sweep(file, swept[n - 1], Nth(file, n))
  <2> DEFINE g == swept
  <2>1. Fits(g, N)
    BY <1>4
  <2> HIDE DEF g
  <2>2. g[0] = start /\ \A n \in 1 .. N : n - 1 \in 0 .. N /\ g[n] = Sweep(file, g[n - 1], Nth(file, n))
    BY <1>2, <2>1
  <2> QED
    BY <2>2 DEF g
<1> HIDE DEF swept
<1> DEFINE Linked(acc) == /\ {"head", "links"} \subseteq DOMAIN acc
                          /\ \A t \in DOMAIN acc.links : t \in Named(file) \/ OneFailure(file, t, acc.links[t])
           Headed(acc, n) == acc.head = NONE \/ \E k \in 1 .. n : acc.head = file[Nth(file, k)]
           Good(n) == Linked(swept[n]) /\ Headed(swept[n], n)
<1>6. Good(0)
  BY <1>5 DEF start, Explicit
<1>7. ASSUME NEW n \in 1 .. N, Good(n - 1) PROVE Good(n)
  <2> DEFINE acc == swept[n - 1]
             i == Nth(file, n)
  <2>1. i \in DOMAIN file /\ file[i] \in Line /\ \A k \in 1 .. n - 1 : k \in 1 .. n
    BY <1>2, NthLine, LooseLines
  <2>2. swept[n] = Sweep(file, acc, i)
    BY <1>5
  <2>3. Linked(acc) /\ Headed(acc, n - 1)
    BY <1>7
  <2>4. CASE acc.head # NONE /\ GroupKey(acc.head) = GroupKey(file[i]) /\ file[i].at - acc.head.at <= WINDOW
    <3>1. PICK k \in 1 .. n - 1 : acc.head = file[Nth(file, k)]
      BY <2>3, <2>4
    <3> DEFINE h == Nth(file, k)
    <3>2. /\ h \in DOMAIN file /\ file[h] \in Line /\ acc.head = file[h]
          /\ i \in Loose(file) /\ h \in Loose(file) /\ Before(file, h, i)
      <4>1. k \in 1 .. N /\ k < n
        BY <1>2
      <4> QED
        BY <1>2, <3>1, <4>1, NthLine, LooseLines
    <3> HIDE DEF h, i, acc
    <3>3. file[h].at <= file[i].at
      BY <2>4, <3>2, BeforeOrders
    <3>4. file[i].at - file[h].at \in 0 .. WINDOW
      BY <2>1, <2>4, <3>2, <3>3, LineFields, IncidentsAssumption
    <3>5. OneFailure(file, file[i].ext, acc.head.ext)
      BY <2>1, <2>4, <3>2, <3>4 DEF OneFailure
    <3>6. swept[n] = [acc EXCEPT !.links = WithLink(@, file[i].ext, acc.head.ext)]
      BY <2>2, <2>4 DEF Sweep
    <3>7. swept[n].head = acc.head /\ swept[n].links = WithLink(acc.links, file[i].ext, acc.head.ext)
      BY <3>6, <2>3
    <3>8. \A t \in DOMAIN swept[n].links :
            IF t = file[i].ext THEN swept[n].links[t] = acc.head.ext
            ELSE t \in DOMAIN acc.links /\ swept[n].links[t] = acc.links[t]
      BY <3>7 DEF WithLink
    <3>9. Linked(swept[n])
      BY <3>5, <3>6, <3>8, <2>3
    <3>10. Headed(swept[n], n)
      BY <3>1, <3>7, <2>1
    <3> QED
      BY <3>9, <3>10
  <2>5. CASE ~ (acc.head # NONE /\ GroupKey(acc.head) = GroupKey(file[i]) /\ file[i].at - acc.head.at <= WINDOW)
    <3>1. swept[n] = [acc EXCEPT !.head = file[i]]
      BY <2>2, <2>5 DEF Sweep
    <3> QED
      BY <3>1, <2>3
  <2> QED
    BY <2>4, <2>5
<1>8. \A n \in 0 .. N : Good(n)
  <2> HIDE DEF Good
  <2> DEFINE Bad == {n \in 0 .. N : ~ Good(n)}
  <2> SUFFICES ASSUME Bad # {} PROVE FALSE
    OBVIOUS
  <2>1. PICK m \in Bad : \A k \in Bad : m <= k
    <3>1. Bad \in SUBSET Nat
      BY <1>2
    <3> HIDE DEF Bad
    <3> QED
      BY <3>1, Least
  <2>2. m # 0 /\ m \in 1 .. N /\ m - 1 \in 0 .. N /\ ~ (m <= m - 1)
    BY <1>2, <1>6, <2>1
  <2> QED
    BY <1>7, <2>1, <2>2
<1> QED
  BY <1>1, <1>2, <1>8
-----------------------------------------------------------------------------
(***************************************************************************)
(* The inductive invariant.                                                *)
(***************************************************************************)
RegisterFits ==
  /\ register \in Seq(Incident) /\ Len(register) <= MaxRegister
  /\ \A i \in DOMAIN register : register[i].parent \in (DOMAIN register \ {i}) \cup {NONE}
  /\ lag \in Lags
  /\ edited \cup stated \cup moved \subseteq DOMAIN register

\* A link of the job that the sweep found: two of its rows, of one system, within the window.
OneFailureRows(file, torn, t, u) ==
  \E i, k \in DOMAIN file :
    /\ file[i].ext = t /\ file[k].ext = u /\ file[i].at - file[k].at \in 0 .. WINDOW
    /\ {t, u} \cap torn = {} => file[i].system = file[k].system

\* What an import of an export has in hand, and what the register still is to it.
ExportFits(j, rows, shared) ==
  /\ j.file \in Seq(Incident)
  /\ \A i \in DOMAIN j.file : j.file[i].ext # NONE /\ j.file[i].source = "itsm" /\ j.file[i].parent = NONE
  /\ Repeated(j.file) \subseteq shared \cap j.torn
  /\ \A t \in DOMAIN j.links : t \in j.named \/ OneFailureRows(j.file, j.torn, t, j.links[t])
  /\ \A t \in DOMAIN j.found : /\ j.found[t] \in DOMAIN rows /\ rows[j.found[t]].ext = t
                              /\ j.loaded[t] \in Incident /\ j.loaded[t].ext = t
  /\ \A i \in DOMAIN rows :
       rows[i].ext \in Refs(j.file) \ shared =>
         rows[i].ext \in DOMAIN j.found /\ i = j.found[rows[i].ext]

\* The same of an import of a table.
TableFits(j, rows, shared, changed) ==
  /\ j.file \in Seq(Incident)
  /\ \A i \in DOMAIN j.file : j.file[i].ext = NONE /\ j.file[i].source = "import" /\ j.file[i].parent = NONE
  /\ \A i, k \in DOMAIN j.file : KeyOf(j.file[i]) = KeyOf(j.file[k]) => i = k
  /\ \A i \in DOMAIN j.file, k \in DOMAIN rows :
       KeyOf(rows[k]) = KeyOf(j.file[i]) => KeyOf(rows[k]) \in shared \/ k \in changed

ImportFits(j, rows, shared, changed) ==
  \/ j = NONE
  \/ j.kind = "export" /\ ExportFits(j, rows, shared)
  \/ j.kind = "table" /\ TableFits(j, rows, shared, changed)

ImportsFit ==
  /\ DOMAIN job = Importers
  /\ \A h \in Importers : ImportFits(job[h], register, excused, edited)
  /\ \A g, h \in Importers : g # h => InHand(job[g]) \cap InHand(job[h]) \subseteq excused

IncidentsInv == IncidentConfig /\ RegisterFits /\ ImportsFit /\ TicketOnce /\ OneFailureOneWindow

-----------------------------------------------------------------------------
(***************************************************************************)
(* The rows of an export: of the tickets of its lines, and as they will be *)
(* in the register.                                                        *)
(***************************************************************************)
Rows(records, lines) == [i \in DOMAIN lines |-> AsRow(records, lines[i])]

LEMMA TicketsFit ==
  ASSUME IncidentConfig, RegisterFits, NEW records, NEW lines, FromRecords(records, lines)
  PROVE  /\ Rows(records, lines) \in Seq(Incident) /\ DOMAIN Rows(records, lines) = DOMAIN lines
         /\ \A i \in DOMAIN lines :
              /\ Rows(records, lines)[i].ext = lines[i].ext /\ Rows(records, lines)[i].at = lines[i].at - lag
              /\ Rows(records, lines)[i].system = Resolved(records[LastLine(records, lines[i].ext)])
              /\ Rows(records, lines)[i].ext # NONE /\ Rows(records, lines)[i].source = "itsm" /\ Rows(records, lines)[i].parent = NONE
         /\ Refs(Rows(records, lines)) = Refs(lines) /\ Repeated(Rows(records, lines)) = Repeated(lines)
<1> DEFINE rows == Rows(records, lines)
<1>1. DOMAIN rows = DOMAIN lines /\ \A i \in DOMAIN lines : rows[i] = AsRow(records, lines[i]) /\ lines[i] \in Line
  BY DEF Rows, FromRecords
<1>2. ASSUME NEW i \in DOMAIN lines
      PROVE  /\ rows[i] \in Incident
             /\ rows[i].ext = lines[i].ext /\ rows[i].at = lines[i].at - lag
             /\ rows[i].system = Resolved(records[LastLine(records, lines[i].ext)])
             /\ rows[i].ext # NONE /\ rows[i].source = "itsm" /\ rows[i].parent = NONE
  <2> DEFINE s == Resolved(records[LastLine(records, lines[i].ext)])
  <2>1. s \in Systems \cup {NONE}
    <3>1. records[LastLine(records, lines[i].ext)] \in RawLine
      <4>1. records \in Seq(RawLine) /\ lines[i].ext \in Refs(records)
        BY <1>1 DEF FromRecords, Refs
      <4>2. LastLine(records, lines[i].ext) \in DOMAIN records
        BY <4>1, LastLineFits
      <4> QED
        BY <4>1, <4>2
    <3> QED
      BY <3>1, SameSystem
  <2>2. lines[i].at - lag \in Int
    BY <1>1, LineFields, IncidentsAssumption DEF RegisterFits
  <2>3. rows[i] = [ext |-> lines[i].ext, source |-> "itsm", system |-> s,
                   name |-> IF s # NONE THEN s ELSE IF lines[i].ci # NONE THEN lines[i].ci ELSE lines[i].group,
                   at |-> lines[i].at - lag, resolved |-> lines[i].resolved, parent |-> NONE]
    BY <1>1 DEF AsRow
  <2> HIDE DEF s, rows
  <2>4. rows[i] \in Incident
    BY <1>1, <2>1, <2>2, <2>3, LineFields DEF Incident
  <2>5. lines[i].ext # NONE
    BY <1>1, LineFields
  <2> QED
    BY <2>3, <2>4, <2>5 DEF s
<1>3. rows \in Seq(Incident)
  <2>1. Len(lines) \in Nat /\ DOMAIN lines = 1 .. Len(lines)
    BY DEF FromRecords
  <2>2. rows = [i \in 1 .. Len(lines) |-> rows[i]]
    BY <2>1 DEF Rows
  <2> HIDE DEF rows
  <2>3. rows \in [1 .. Len(lines) -> Incident]
    BY <1>2, <2>1, <2>2
  <2> QED
    BY <2>1, <2>3
<1> HIDE DEF rows
<1>4. \A t : LastLine(rows, t) = LastLine(lines, t)
  <2> TAKE t
  <2>1. {i \in DOMAIN rows : rows[i].ext = t} = {i \in DOMAIN lines : lines[i].ext = t}
    BY <1>1, <1>2
  <2> QED
    BY <2>1 DEF LastLine
<1>5. Refs(rows) = Refs(lines)
  BY <1>1, <1>2 DEF Refs
<1>6. Repeated(rows) = Repeated(lines)
  <2>1. {k \in DOMAIN rows : k # LastLine(rows, rows[k].ext)} = {k \in DOMAIN lines : k # LastLine(lines, lines[k].ext)}
    BY <1>1, <1>2, <1>4
  <2> QED
    BY <1>1, <1>2, <2>1 DEF Repeated
<1> QED
  BY <1>1, <1>2, <1>3, <1>5, <1>6 DEF rows

LEMMA RowsLinked ==
  ASSUME IncidentConfig, RegisterFits, NEW records, NEW lines, FromRecords(records, lines)
  PROVE  \A t \in DOMAIN Correlated(lines) :
           t \in Named(lines) \/ OneFailureRows(Rows(records, lines), Repeated(records), t, Correlated(lines)[t])
<1> SUFFICES ASSUME NEW t \in DOMAIN Correlated(lines), t \notin Named(lines)
             PROVE  OneFailureRows(Rows(records, lines), Repeated(records), t, Correlated(lines)[t])
  OBVIOUS
<1> DEFINE u == Correlated(lines)[t]
           rows == Rows(records, lines)
<1>1. PICK i, k \in DOMAIN lines : /\ lines[i].ext = t /\ lines[k].ext = u
                                  /\ GroupKey(lines[i]) = GroupKey(lines[k])
                                  /\ lines[i].at - lines[k].at \in 0 .. WINDOW
  BY SweepLinks DEF OneFailure, FromRecords
<1>2. rows[i].at - rows[k].at = lines[i].at - lines[k].at
  <2>1. lines[i].at \in Int /\ lines[k].at \in Int /\ lag \in Int
    BY LineFields, IncidentsAssumption DEF RegisterFits, FromRecords
  <2> QED
    BY <2>1, TicketsFit
<1>3. {t, u} \cap Repeated(records) = {} => rows[i].system = rows[k].system
  <2> SUFFICES ASSUME {t, u} \cap Repeated(records) = {} PROVE rows[i].system = rows[k].system
    OBVIOUS
  <2>1. lines[i] = records[LastLine(records, t)] /\ lines[k] = records[LastLine(records, u)]
    BY <1>1 DEF FromRecords
  <2>2. Resolved(lines[i]) = Resolved(lines[k])
    BY <1>1, SameSystem DEF FromRecords
  <2> QED
    BY <1>1, <2>1, <2>2, TicketsFit
<1> HIDE DEF u, rows
<1>4. /\ DOMAIN rows = DOMAIN lines /\ rows[i].ext = t /\ rows[k].ext = u
  BY <1>1, TicketsFit DEF rows
<1>5. OneFailureRows(rows, Repeated(records), t, u)
  BY <1>1, <1>2, <1>3, <1>4 DEF OneFailureRows
<1> QED
  BY <1>5 DEF rows, u

-----------------------------------------------------------------------------
(***************************************************************************)
(* What an import in hand still knows when rows have been added and        *)
(* changed: tickets keep their rows, keys that change are noted, and new   *)
(* rows have a ticket or a key of the import only if that is noted.        *)
(***************************************************************************)
StillApart(j, rows, now, shared) ==
  \A i \in DOMAIN now \ DOMAIN rows :
    /\ now[i].ext \in Refs(j.file) \ {NONE} => now[i].ext \in shared
    /\ \A k \in DOMAIN j.file : KeyOf(now[i]) = KeyOf(j.file[k]) => KeyOf(now[i]) \in shared

LEMMA JobKept ==
  ASSUME NEW j, NEW rows, NEW shared, NEW changed, ImportFits(j, rows, shared, changed),
         NEW now, NEW shared2, NEW changed2,
         shared \subseteq shared2, changed \subseteq changed2,
         DOMAIN rows \subseteq DOMAIN now,
         \A i \in DOMAIN rows : now[i].ext = rows[i].ext /\ (KeyOf(now[i]) = KeyOf(rows[i]) \/ i \in changed2),
         j # NONE => StillApart(j, rows, now, shared2)
  PROVE  ImportFits(j, now, shared2, changed2)
<1>1. ASSUME j # NONE, j.kind = "export", ExportFits(j, rows, shared)
      PROVE  ExportFits(j, now, shared2)
  <2>1. \A t \in DOMAIN j.found : j.found[t] \in DOMAIN now /\ now[j.found[t]].ext = t
                                  /\ j.loaded[t] \in Incident /\ j.loaded[t].ext = t
    BY <1>1 DEF ExportFits
  <2>2. ASSUME NEW i \in DOMAIN now, now[i].ext \in Refs(j.file) \ shared2
        PROVE  now[i].ext \in DOMAIN j.found /\ i = j.found[now[i].ext]
    <3>1. now[i].ext # NONE
      BY <1>1, <2>2 DEF ExportFits, Refs
    <3>2. i \in DOMAIN rows
      BY <1>1, <2>2, <3>1 DEF StillApart
    <3>3. now[i].ext = rows[i].ext /\ rows[i].ext \in Refs(j.file) \ shared
      BY <2>2, <3>2
    <3> QED
      BY <1>1, <3>2, <3>3 DEF ExportFits
  <2> QED
    BY <1>1, <2>1, <2>2 DEF ExportFits
<1>2. ASSUME j # NONE, j.kind = "table", TableFits(j, rows, shared, changed)
      PROVE  TableFits(j, now, shared2, changed2)
  <2>1. ASSUME NEW i \in DOMAIN j.file, NEW k \in DOMAIN now, KeyOf(now[k]) = KeyOf(j.file[i])
        PROVE  KeyOf(now[k]) \in shared2 \/ k \in changed2
    <3>1. CASE k \in DOMAIN rows
      BY <1>2, <2>1, <3>1 DEF TableFits
    <3>2. CASE k \notin DOMAIN rows
      BY <1>2, <2>1, <3>2 DEF StillApart
    <3> QED
      BY <3>1, <3>2
  <2> QED
    BY <1>2, <2>1 DEF TableFits
<1> QED
  BY <1>1, <1>2 DEF ImportFits

(***************************************************************************)
(* The imports in hand when one of them, or none, has ended.               *)
(***************************************************************************)
LEMMA JobsKept ==
  ASSUME IncidentsInv, DOMAIN job' = Importers,
         \A g \in Importers : job'[g] \in {NONE, job[g]},
         excused \subseteq excused', edited \subseteq edited',
         DOMAIN register \subseteq DOMAIN register',
         \A i \in DOMAIN register :
           register'[i].ext = register[i].ext /\ (KeyOf(register'[i]) = KeyOf(register[i]) \/ i \in edited'),
         \A g \in Importers : job'[g] # NONE => StillApart(job[g], register, register', excused')
  PROVE  ImportsFit'
<1>1. ASSUME NEW g \in Importers PROVE ImportFits(job'[g], register', excused', edited')
  <2>1. CASE job'[g] = NONE
    BY <2>1 DEF ImportFits
  <2>2. CASE job'[g] # NONE /\ job'[g] = job[g]
    <3>1. ImportFits(job[g], register, excused, edited)
      BY DEF IncidentsInv, ImportsFit
    <3>2. StillApart(job[g], register, register', excused')
      BY <2>2
    <3>3. ImportFits(job[g], register', excused', edited')
      BY <3>1, <3>2, JobKept
    <3> QED
      BY <2>2, <3>3
  <2> QED
    BY <2>1, <2>2
<1>2. \A g \in Importers : InHand(job'[g]) \in {{}, InHand(job[g])}
  BY DEF InHand
<1>3. \A g, m \in Importers : g # m => InHand(job'[g]) \cap InHand(job'[m]) \subseteq excused'
  BY <1>2 DEF IncidentsInv, ImportsFit
<1> QED
  BY <1>1, <1>3 DEF ImportsFit

(***************************************************************************)
(* A step that writes no row.                                              *)
(***************************************************************************)
LEMMA RowsKept ==
  ASSUME IncidentsInv, UNCHANGED <<register, edited, stated, moved>>, excused \subseteq excused', lag' \in Lags
  PROVE  RegisterFits' /\ TicketOnce' /\ OneFailureOneWindow'
<1>1. RegisterFits'
  BY DEF IncidentsInv, RegisterFits
<1>2. TicketOnce'
  BY DEF IncidentsInv, TicketOnce
<1>3. OneFailureOneWindow'
  BY DEF IncidentsInv, OneFailureOneWindow
<1> QED
  BY <1>1, <1>2, <1>3

(***************************************************************************)
(* An import begins: what it has in common with the others is noted.       *)
(***************************************************************************)
LEMMA JobBegun ==
  ASSUME IncidentsInv, NEW h \in Importers, NEW j, job' = [job EXCEPT ![h] = j],
         UNCHANGED <<register, edited>>, excused \subseteq excused', Overlap(h, j) \subseteq excused',
         ImportFits(j, register, excused', edited)
  PROVE  ImportsFit'
<1>1. DOMAIN job' = Importers /\ job'[h] = j /\ \A g \in Importers \ {h} : job'[g] = job[g]
  BY DEF IncidentsInv, ImportsFit
<1>2. ASSUME NEW g \in Importers PROVE ImportFits(job'[g], register', excused', edited')
  <2>1. CASE g = h
    BY <1>1, <2>1
  <2>2. CASE g # h
    <3>1. ImportFits(job[g], register, excused, edited)
      BY DEF IncidentsInv, ImportsFit
    <3>2. StillApart(job[g], register, register, excused')
      BY DEF StillApart
    <3>3. ImportFits(job[g], register, excused', edited)
      BY <3>1, <3>2, JobKept
    <3> QED
      BY <1>1, <2>2, <3>3
  <2> QED
    BY <2>1, <2>2
<1>3. \A g \in Importers \ {h} : InHand(j) \cap InHand(job[g]) \subseteq excused'
  BY DEF Overlap
<1>4. ASSUME NEW g \in Importers, NEW m \in Importers, g # m
      PROVE  InHand(job'[g]) \cap InHand(job'[m]) \subseteq excused'
  <2>1. g # h /\ m # h => InHand(job[g]) \cap InHand(job[m]) \subseteq excused
    BY <1>4 DEF IncidentsInv, ImportsFit
  <2> QED
    BY <1>1, <1>3, <1>4, <2>1
<1> QED
  BY <1>1, <1>2, <1>4 DEF ImportsFit

LEMMA ExportReadKeeps ==
  ASSUME IncidentsInv, NEW h \in Importers, NEW export \in Exports, ExportRead(h, export)
  PROVE  IncidentsInv'
<1> DEFINE records == ExportRecords[export]
           lines == Lines[export]
           known == {t \in Refs(lines) : Found(lines, t) # {}}
<1>1. FromRecords(records, lines) /\ lines \in Seq(Line) /\ Repeated(lines) \subseteq Repeated(records)
  BY LinesFit DEF FromRecords
<1> HIDE DEF records
<1>2. PICK found \in [known -> DOMAIN register] :
        /\ \A t \in known : found[t] \in Found(lines, t)
        /\ job' = [job EXCEPT ![h] = ExportJob(records, lines, found)]
        /\ excused' = excused \cup Overlap(h, ExportJob(records, lines, found)) \cup Repeated(lines)
  <2>1. \A x : job' = [job EXCEPT ![h] = x] => job'[h] = x
    BY DEF IncidentsInv, ImportsFit
  <2> QED
    BY <2>1 DEF ExportRead, records
<1>3. UNCHANGED <<register, aliases, groups, lag, corrections, edited, stated, moved>>
  BY DEF ExportRead
<1> HIDE DEF lines
<1> DEFINE j == ExportJob(records, lines, found)
<1>4. /\ j.kind = "export" /\ j.file = Rows(records, lines) /\ j.found = found /\ DOMAIN j.found = known
      /\ j.loaded = [t \in known |-> register[found[t]]]
      /\ j.links = Correlated(lines) /\ j.named = Named(lines) /\ j.torn = Repeated(records)
  BY DEF ExportJob, Rows
<1> HIDE DEF j
<1>5. IncidentConfig /\ RegisterFits
  BY DEF IncidentsInv
<1>6. ExportFits(j, register, excused')
  <2>1. \A t \in known : t \in Refs(lines) /\ found[t] \in DOMAIN register /\ register[found[t]].ext = t
    BY <1>2 DEF Found
  <2>2. j.file \in Seq(Incident)
        /\ \A i \in DOMAIN j.file : j.file[i].ext # NONE /\ j.file[i].source = "itsm" /\ j.file[i].parent = NONE
    BY <1>1, <1>4, <1>5, TicketsFit
  <2>3. Refs(j.file) = Refs(lines) /\ Repeated(j.file) \subseteq excused' \cap j.torn
    BY <1>1, <1>2, <1>4, <1>5, TicketsFit
  <2>4. \A t \in DOMAIN j.links : t \in j.named \/ OneFailureRows(j.file, j.torn, t, j.links[t])
    BY <1>1, <1>4, <1>5, RowsLinked
  <2>5. \A t \in DOMAIN j.found : /\ j.found[t] \in DOMAIN register /\ register[j.found[t]].ext = t
                                  /\ j.loaded[t] \in Incident /\ j.loaded[t].ext = t
    BY <1>4, <1>5, <2>1 DEF RegisterFits
  <2>6. ASSUME NEW i \in DOMAIN register, register[i].ext \in Refs(lines) \ excused'
        PROVE  register[i].ext \in known /\ i = found[register[i].ext]
    <3> DEFINE t == register[i].ext
               k == found[t]
    <3>1. t \in known
      BY <2>6 DEF Found
    <3>2. k \in DOMAIN register /\ register[k].ext = t
      BY <2>1, <3>1
    <3>3. t # NONE /\ t \notin excused
      BY <1>1, <1>2, <2>6, LineFields DEF Refs
    <3>4. i \in Nat /\ k \in Nat
      BY <1>5, <3>2 DEF RegisterFits
    <3> HIDE DEF k
    <3>5. ~ (i < k) /\ ~ (k < i)
      BY <3>2, <3>3 DEF IncidentsInv, TicketOnce
    <3> QED
      BY <3>1, <3>4, <3>5 DEF k
  <2> HIDE DEF known
  <2> QED
    BY <1>4, <2>2, <2>3, <2>4, <2>5, <2>6 DEF ExportFits
<1>7. ImportFits(j, register, excused', edited)
  BY <1>4, <1>6 DEF ImportFits
<1>8. job' = [job EXCEPT ![h] = j] /\ excused \subseteq excused' /\ Overlap(h, j) \subseteq excused'
  BY <1>2 DEF j
<1> HIDE DEF known
<1>9. ImportsFit'
  BY <1>3, <1>7, <1>8, JobBegun
<1>10. IncidentConfig'
  BY <1>3, <1>5 DEF IncidentConfig
<1>11. lag' \in Lags
  BY <1>3, <1>5 DEF RegisterFits
<1>12. RegisterFits' /\ TicketOnce' /\ OneFailureOneWindow'
  BY <1>3, <1>8, <1>11, RowsKept
<1> QED
  BY <1>9, <1>10, <1>12 DEF IncidentsInv

LEMMA TableReadKeeps ==
  ASSUME IncidentsInv, NEW h \in Importers, NEW table \in Tables, TableRead(h, table)
  PROVE  IncidentsInv'
<1> DEFINE rows == [i \in DOMAIN table |->
                      [ext |-> NONE, source |-> "import", system |-> NONE, name |-> table[i].name,
                       at |-> table[i].at, resolved |-> table[i].resolved, parent |-> NONE]]
           dated == {i \in DOMAIN rows : rows[i].name # NONE /\ rows[i].at # NONE}
           valid == At(rows, dated)
           known == {KeyOf(register[i]) : i \in DOMAIN register}
           new == {i \in DOMAIN valid : /\ KeyOf(valid[i]) \notin known
                                        /\ \A k \in 1 .. i - 1 : KeyOf(valid[k]) # KeyOf(valid[i])}
           file == At(valid, new)
           j == [kind |-> "table", file |-> file]
           TableRow == [ext : {NONE}, source : {"import"}, system : {NONE},
                        name : Systems \cup CIs \cup {NONE}, at : Int \cup {NONE}, resolved : BOOLEAN,
                        parent : {NONE}]
           ImportRow == {row \in TableRow : row.at # NONE}
<1>1. /\ job' = [job EXCEPT ![h] = j] /\ excused' = excused \cup Overlap(h, j)
      /\ UNCHANGED <<register, aliases, groups, lag, corrections, edited, stated, moved>>
  BY DEF TableRead
<1>2. rows \in Seq(TableRow) /\ DOMAIN rows = DOMAIN table
  <2>1. table \in Seq([name : Systems \cup CIs \cup {NONE}, at : Int \cup {NONE}, resolved : BOOLEAN])
    BY IncidentsAssumption
  <2>2. Len(table) \in Nat /\ DOMAIN table = 1 .. Len(table) /\ \A i \in DOMAIN table : rows[i] \in TableRow
    <3>1. Len(table) \in Nat /\ DOMAIN table = 1 .. Len(table)
      BY <2>1
    <3>2. ASSUME NEW i \in DOMAIN table PROVE rows[i] \in TableRow
      <4>1. /\ table[i].name \in Systems \cup CIs \cup {NONE} /\ table[i].at \in Int \cup {NONE}
            /\ table[i].resolved \in BOOLEAN
        <5> HIDE DEF rows
        <5> DEFINE TableLine == [name : Systems \cup CIs \cup {NONE}, at : Int \cup {NONE}, resolved : BOOLEAN]
        <5>1. table \in Seq(TableLine)
          BY <2>1
        <5> HIDE DEF TableLine
        <5>2. table[i] \in TableLine
          BY <5>1
        <5> QED
          BY <5>2 DEF TableLine
      <4> QED
        BY <4>1
    <3> QED
      BY <3>1, <3>2
  <2>3. rows \in [1 .. Len(table) -> TableRow]
    BY <2>2
  <2> HIDE DEF rows, TableRow
  <2>4. DOMAIN rows = DOMAIN table
    BY <2>2, <2>3
  <2> QED
    BY <2>2, <2>3, <2>4
<1>3. dated \in SUBSET DOMAIN rows /\ \A i \in dated : rows[i] \in ImportRow
  <2> HIDE DEF rows, TableRow
  <2>1. \A i \in DOMAIN rows : rows[i] \in TableRow
    BY <1>2
  <2> QED
    BY <2>1
<1> HIDE DEF rows, dated
<1>4. /\ valid \in Seq(TableRow) /\ DOMAIN valid = 1 .. Len(valid)
      /\ \A k \in DOMAIN valid : \E i \in dated : valid[k] = rows[i]
  <2> HIDE DEF TableRow
  <2> QED
    BY <1>2, <1>3, AtPlaces
<1>5. \A k \in DOMAIN valid : valid[k] \in ImportRow
  BY <1>3, <1>4
<1> HIDE DEF valid
<1>6. new \in SUBSET DOMAIN valid /\ \A i, k \in new : KeyOf(valid[i]) = KeyOf(valid[k]) => i = k
  <2>1. ASSUME NEW i \in new, NEW k \in new, i < k PROVE KeyOf(valid[i]) # KeyOf(valid[k])
    <3>1. i \in 1 .. k - 1
      BY <1>4, <2>1
    <3> QED
      BY <3>1
  <2>2. \A i \in new : i \in Nat
    BY <1>4
  <2> HIDE DEF new
  <2>3. \A i, k \in new : KeyOf(valid[i]) = KeyOf(valid[k]) => i = k
    BY <2>1, <2>2
  <2> QED
    BY <2>3 DEF new
<1>7. \A i \in new : \A k \in DOMAIN register : KeyOf(register[k]) # KeyOf(valid[i])
  OBVIOUS
<1> HIDE DEF new
<1>8. /\ file \in Seq(TableRow) /\ DOMAIN file = 1 .. Len(file)
      /\ \A k \in DOMAIN file : \E i \in new : file[k] = valid[i]
      /\ \A k, l \in DOMAIN file :
           (\A a, b \in new : valid[a] = valid[b] => a = b) /\ file[k] = file[l] => k = l
  <2> HIDE DEF TableRow
  <2> QED
    BY <1>4, <1>6, AtPlaces
<1> HIDE DEF file
<1>9. TableFits(j, register, excused', edited)
  <2>1. \A k \in DOMAIN file : file[k] \in ImportRow
    BY <1>5, <1>6, <1>8
  <2>2. \A row \in ImportRow : row \in Incident /\ row.ext = NONE /\ row.source = "import" /\ row.parent = NONE
    BY DEF Incident
  <2> HIDE DEF ImportRow
  <2>3. file \in Seq(Incident)
    <3>1. \A k \in 1 .. Len(file) : file[k] \in Incident
      BY <1>8, <2>1, <2>2
    <3> QED
      BY <1>8, <3>1
  <2>4. ASSUME NEW k \in DOMAIN file, NEW l \in DOMAIN file, KeyOf(file[k]) = KeyOf(file[l]) PROVE k = l
    <3>1. PICK a \in new : file[k] = valid[a]
      BY <1>8
    <3>2. PICK b \in new : file[l] = valid[b]
      BY <1>8
    <3>3. a = b
      BY <1>6, <2>4, <3>1, <3>2
    <3>4. \A c, d \in new : valid[c] = valid[d] => c = d
      BY <1>6
    <3> QED
      BY <1>8, <3>1, <3>2, <3>3, <3>4
  <2>5. \A k \in DOMAIN file, i \in DOMAIN register : KeyOf(register[i]) # KeyOf(file[k])
    BY <1>7, <1>8
  <2> QED
    BY <2>1, <2>2, <2>3, <2>4, <2>5 DEF TableFits
<1>10. j.kind = "table"
  OBVIOUS
<1> HIDE DEF j
<1>11. ImportFits(j, register, excused', edited)
  BY <1>9, <1>10 DEF ImportFits
<1>12. excused \subseteq excused' /\ Overlap(h, j) \subseteq excused'
  BY <1>1
<1>13. ImportsFit'
  BY <1>1, <1>11, <1>12, JobBegun
<1>14. IncidentConfig' /\ lag' \in Lags
  BY <1>1 DEF IncidentConfig, IncidentsInv, RegisterFits
<1>15. RegisterFits' /\ TicketOnce' /\ OneFailureOneWindow'
  BY <1>1, <1>12, <1>14, RowsKept
<1> QED
  BY <1>13, <1>14, <1>15 DEF IncidentsInv

-----------------------------------------------------------------------------
(***************************************************************************)
(* Rows of no ticket are added: those of a table have keys of their own,   *)
(* and keys an import has in hand are noted.                               *)
(***************************************************************************)
LEMMA RowsAdded ==
  ASSUME IncidentsInv, NEW rows \in Seq(Incident),
         \A i \in DOMAIN rows : rows[i].ext = NONE /\ rows[i].parent = NONE,
         Len(register) + Len(rows) <= MaxRegister, register' = register \o rows,
         UNCHANGED <<lag, edited, stated, moved>>, excused \subseteq excused',
         \A i \in DOMAIN rows : rows[i].source = "import" =>
           /\ \A k \in DOMAIN register :
                KeyOf(register[k]) = KeyOf(rows[i]) => KeyOf(rows[i]) \in excused' \/ k \in edited
           /\ \A k \in DOMAIN rows : KeyOf(rows[k]) = KeyOf(rows[i]) => k = i,
         DOMAIN job' = Importers, \A g \in Importers : job'[g] \in {NONE, job[g]},
         \A g \in Importers : job'[g] # NONE =>
           \A i \in DOMAIN rows : KeyOf(rows[i]) \in InHand(job[g]) => KeyOf(rows[i]) \in excused'
  PROVE  RegisterFits' /\ ImportsFit' /\ TicketOnce' /\ OneFailureOneWindow'
<1> DEFINE n == Len(register)
<1>1. register \in Seq(Incident) /\ n \in Nat /\ DOMAIN register = 1 .. n
  BY DEF IncidentsInv, RegisterFits
<1>2. /\ register' \in Seq(Incident) /\ Len(register') = n + Len(rows)
      /\ DOMAIN register' = 1 .. (n + Len(rows)) /\ Len(rows) \in Nat
  BY <1>1
<1>3. \A i \in DOMAIN register : i \in DOMAIN register' /\ register'[i] = register[i]
  BY <1>1, <1>2
<1>4. \A i \in DOMAIN register' \ DOMAIN register : i - n \in DOMAIN rows /\ register'[i] = rows[i - n] /\ i > n
  BY <1>1, <1>2
<1> HIDE DEF n
<1>5. RegisterFits'
  <2>1. \A i \in DOMAIN register : register[i].parent \in (DOMAIN register \ {i}) \cup {NONE}
    BY DEF IncidentsInv, RegisterFits
  <2>2. ASSUME NEW i \in DOMAIN register' PROVE register'[i].parent \in (DOMAIN register' \ {i}) \cup {NONE}
    <3>1. CASE i \in DOMAIN register
      <4>1. register'[i].parent = register[i].parent
        BY <1>3, <3>1
      <4> QED
        BY <1>3, <2>1, <3>1, <4>1
    <3>2. CASE i \notin DOMAIN register
      BY <1>4, <3>2
    <3> QED
      BY <3>1, <3>2
  <2>3. Len(register') <= MaxRegister /\ lag' \in Lags
    BY <1>2 DEF IncidentsInv, RegisterFits, n
  <2>4. (edited \cup stated \cup moved)' \subseteq DOMAIN register'
    BY <1>3 DEF IncidentsInv, RegisterFits
  <2> QED
    BY <1>2, <2>2, <2>3, <2>4 DEF RegisterFits
<1>6. ImportsFit'
  <2>1. ASSUME NEW g \in Importers, job'[g] # NONE PROVE StillApart(job[g], register, register', excused')
    <3>1. ASSUME NEW i \in DOMAIN register' \ DOMAIN register, NEW k \in DOMAIN job[g].file,
                 KeyOf(register'[i]) = KeyOf(job[g].file[k])
          PROVE  KeyOf(register'[i]) \in excused'
      <4>1. job[g] # NONE
        BY <2>1
      <4>2. KeyOf(register'[i]) \in InHand(job[g])
        BY <3>1, <4>1 DEF InHand
      <4> QED
        BY <1>4, <2>1, <4>2
    <3>2. \A i \in DOMAIN register' \ DOMAIN register : register'[i].ext = NONE
      BY <1>4
    <3> QED
      BY <3>1, <3>2 DEF StillApart
  <2> QED
    BY <1>3, <2>1, JobsKept
<1>7. TicketOnce'
  <2>1. ASSUME NEW i \in DOMAIN register', NEW k \in DOMAIN register', i < k
        PROVE  /\ register'[i].ext # NONE /\ register'[i].ext = register'[k].ext => register'[i].ext \in excused'
               /\ register'[k].source = "import" /\ KeyOf(register'[i]) = KeyOf(register'[k]) =>
                    (KeyOf(register'[i]) \in excused' \/ edited' \cap {i, k} # {})
    <3>1. CASE k \in DOMAIN register
      <4>1. i \in DOMAIN register
        BY <1>1, <1>2, <2>1, <3>1
      <4> QED
        BY <1>3, <2>1, <3>1, <4>1 DEF IncidentsInv, TicketOnce
    <3>2. CASE k \notin DOMAIN register
      <4> DEFINE l == k - n
      <4>1. l \in DOMAIN rows /\ register'[k] = rows[l]
        BY <1>4, <3>2
      <4>2. register'[k].ext = NONE
        BY <4>1
      <4> HIDE DEF l
      <4>3. CASE i \in DOMAIN register
        BY <1>3, <4>1, <4>2, <4>3
      <4>4. CASE i \notin DOMAIN register
        <5>1. i - n \in DOMAIN rows /\ register'[i] = rows[i - n] /\ i - n # l
          BY <1>1, <1>2, <1>4, <2>1, <4>4 DEF l, n
        <5> QED
          BY <4>1, <4>2, <5>1
      <4> QED
        BY <4>3, <4>4
    <3> QED
      BY <3>1, <3>2
  <2> QED
    BY <2>1 DEF TicketOnce
<1>8. OneFailureOneWindow'
  <2>1. ASSUME NEW c \in DOMAIN register', register'[c].parent # NONE, c \notin stated \cup moved
        PROVE  /\ register'[register'[c].parent].system = register'[c].system
               /\ register'[c].at - register'[register'[c].parent].at \in 0 .. WINDOW
    <3>1. c \in DOMAIN register
      BY <1>4, <2>1
    <3>2. register'[c] = register[c] /\ register[c].parent \in DOMAIN register
      BY <1>3, <2>1, <3>1 DEF IncidentsInv, RegisterFits
    <3> QED
      BY <1>3, <2>1, <3>1, <3>2 DEF IncidentsInv, OneFailureOneWindow
  <2> QED
    BY <2>1 DEF OneFailureOneWindow
<1> QED
  BY <1>5, <1>6, <1>7, <1>8

LEMMA TableCommitKeeps ==
  ASSUME IncidentsInv, NEW h \in Importers, TableCommit(h)
  PROVE  IncidentsInv'
<1> DEFINE rows == job[h].file
<1>1. /\ job[h] # NONE /\ job[h].kind = "table" /\ Len(register) + Len(rows) <= MaxRegister
      /\ register' = register \o rows /\ job' = [job EXCEPT ![h] = NONE]
      /\ UNCHANGED <<aliases, groups, lag, imports, corrections, excused, edited, stated, moved>>
  BY DEF TableCommit
<1>2. TableFits(job[h], register, excused, edited)
  BY <1>1 DEF IncidentsInv, ImportsFit, ImportFits
<1>3. rows \in Seq(Incident) /\ \A i \in DOMAIN rows : rows[i].ext = NONE /\ rows[i].parent = NONE
  BY <1>2 DEF TableFits
<1>4. \A i \in DOMAIN rows : rows[i].source = "import" =>
        /\ \A k \in DOMAIN register :
             KeyOf(register[k]) = KeyOf(rows[i]) => KeyOf(rows[i]) \in excused' \/ k \in edited
        /\ \A k \in DOMAIN rows : KeyOf(rows[k]) = KeyOf(rows[i]) => k = i
  BY <1>1, <1>2 DEF TableFits
<1>5. DOMAIN job' = Importers /\ job'[h] = NONE /\ \A g \in Importers : job'[g] \in {NONE, job[g]}
  BY <1>1 DEF IncidentsInv, ImportsFit
<1>6. \A g \in Importers : job'[g] # NONE =>
        \A i \in DOMAIN rows : KeyOf(rows[i]) \in InHand(job[g]) => KeyOf(rows[i]) \in excused'
  <2> SUFFICES ASSUME NEW g \in Importers, job'[g] # NONE, NEW i \in DOMAIN rows, KeyOf(rows[i]) \in InHand(job[g])
               PROVE  KeyOf(rows[i]) \in excused
    BY <1>1
  <2>1. KeyOf(rows[i]) \in InHand(job[h])
    BY <1>1 DEF InHand
  <2>2. g # h
    BY <1>5
  <2> QED
    BY <2>1, <2>2 DEF IncidentsInv, ImportsFit
<1> HIDE DEF rows
<1>7. RegisterFits' /\ ImportsFit' /\ TicketOnce' /\ OneFailureOneWindow'
  BY <1>1, <1>3, <1>4, <1>5, <1>6, RowsAdded
<1>8. IncidentConfig'
  BY <1>1 DEF IncidentsInv, IncidentConfig
<1> QED
  BY <1>7, <1>8 DEF IncidentsInv

LEMMA CreateKeeps ==
  ASSUME IncidentsInv, NEW system \in Systems, NEW at \in Times, Create(system, at)
  PROVE  IncidentsInv'
<1> DEFINE row == [ext |-> NONE, source |-> "manual", system |-> system, name |-> system,
                   at |-> at, resolved |-> FALSE, parent |-> NONE]
           rows == <<row>>
<1>1. /\ Len(register) < MaxRegister /\ register' = Append(register, row)
      /\ excused' = excused \cup ({KeyOf(row)} \cap UNION {InHand(job[g]) : g \in Importers})
      /\ UNCHANGED <<aliases, groups, lag, job, imports, edited, stated, moved>>
  BY DEF Create
<1>2. row \in Incident
  BY IncidentsAssumption DEF Incident
<1>3. row.ext = NONE /\ row.parent = NONE /\ row.source = "manual"
  OBVIOUS
<1> HIDE DEF row
<1>4. rows \in Seq(Incident) /\ Len(rows) = 1 /\ \A i \in DOMAIN rows : rows[i] = row
  BY <1>2
<1>5. register' = register \o rows /\ Len(register) + Len(rows) <= MaxRegister
  <2>1. register \in Seq(Incident) /\ MaxRegister \in Nat
    BY IncidentsAssumption DEF IncidentsInv, RegisterFits
  <2>2. Append(register, row) = register \o rows
    BY <1>2, <2>1
  <2> QED
    BY <1>1, <1>4, <2>1, <2>2
<1> HIDE DEF rows
<1>6. \A i \in DOMAIN rows : rows[i].ext = NONE /\ rows[i].parent = NONE /\ rows[i].source # "import"
  BY <1>3, <1>4
<1>7. DOMAIN job' = Importers /\ \A g \in Importers : job'[g] \in {NONE, job[g]}
  BY <1>1 DEF IncidentsInv, ImportsFit
<1>8. \A g \in Importers : job'[g] # NONE =>
        \A i \in DOMAIN rows : KeyOf(rows[i]) \in InHand(job[g]) => KeyOf(rows[i]) \in excused'
  BY <1>1, <1>4
<1>9. RegisterFits' /\ ImportsFit' /\ TicketOnce' /\ OneFailureOneWindow'
  BY <1>1, <1>4, <1>5, <1>6, <1>7, <1>8, RowsAdded
<1>10. IncidentConfig'
  BY <1>1 DEF IncidentsInv, IncidentConfig
<1> QED
  BY <1>9, <1>10 DEF IncidentsInv

-----------------------------------------------------------------------------
(***************************************************************************)
(* A row changed by hand keeps its ticket, source, system, name and parent.*)
(***************************************************************************)
LEMMA RowEdited ==
  ASSUME IncidentsInv, NEW id \in DOMAIN register,
         register' \in Seq(Incident), DOMAIN register' = DOMAIN register, Len(register') = Len(register),
         \A i \in DOMAIN register : /\ i # id => register'[i] = register[i]
                                    /\ register'[i].ext = register[i].ext
                                    /\ register'[i].source = register[i].source
                                    /\ register'[i].system = register[i].system
                                    /\ register'[i].name = register[i].name
                                    /\ register'[i].parent = register[i].parent,
         UNCHANGED <<lag, job, excused, stated>>,
         \/ register'[id].at = register[id].at /\ UNCHANGED <<edited, moved>>
         \/ /\ edited' = edited \cup {id}
            /\ moved' = moved \cup {c \in DOMAIN register : register[c].parent # NONE /\ id \in {c, register[c].parent}}
  PROVE  RegisterFits' /\ ImportsFit' /\ TicketOnce' /\ OneFailureOneWindow'
<1>1. edited \subseteq edited' /\ moved \subseteq moved' /\ (edited \cup moved)' \subseteq DOMAIN register
  BY DEF IncidentsInv, RegisterFits
<1>2. \A i \in DOMAIN register : KeyOf(register'[i]) = KeyOf(register[i]) \/ i \in edited'
  BY DEF KeyOf
<1>3. RegisterFits'
  <2>1. \A i \in DOMAIN register : register'[i].parent \in (DOMAIN register' \ {i}) \cup {NONE}
    BY DEF IncidentsInv, RegisterFits
  <2> QED
    BY <1>1, <2>1 DEF IncidentsInv, RegisterFits
<1>4. ImportsFit'
  <2>1. DOMAIN job' = Importers /\ \A g \in Importers : job'[g] \in {NONE, job[g]}
    BY DEF IncidentsInv, ImportsFit
  <2>2. \A g \in Importers : StillApart(job[g], register, register', excused')
    BY DEF StillApart
  <2> QED
    BY <1>1, <1>2, <2>1, <2>2, JobsKept
<1>5. TicketOnce'
  <2>1. ASSUME NEW i \in DOMAIN register, NEW k \in DOMAIN register, i < k
        PROVE  /\ register'[i].ext # NONE /\ register'[i].ext = register'[k].ext => register'[i].ext \in excused'
               /\ register'[k].source = "import" /\ KeyOf(register'[i]) = KeyOf(register'[k]) =>
                    (KeyOf(register'[i]) \in excused' \/ edited' \cap {i, k} # {})
    BY <1>1, <1>2, <2>1 DEF IncidentsInv, TicketOnce
  <2> QED
    BY <2>1 DEF TicketOnce
<1>6. OneFailureOneWindow'
  <2>1. ASSUME NEW c \in DOMAIN register, register'[c].parent # NONE, c \notin stated' \cup moved'
        PROVE  /\ register'[register'[c].parent].system = register'[c].system
               /\ register'[c].at - register'[register'[c].parent].at \in 0 .. WINDOW
    <3> DEFINE p == register[c].parent
    <3>1. register'[c].parent = p /\ p \in DOMAIN register /\ p # NONE /\ c \notin stated \cup moved
      BY <1>1, <2>1 DEF IncidentsInv, RegisterFits
    <3>2. register[p].system = register[c].system /\ register[c].at - register[p].at \in 0 .. WINDOW
      BY <3>1 DEF IncidentsInv, OneFailureOneWindow
    <3>3. register'[c].at = register[c].at /\ register'[p].at = register[p].at
      BY <2>1, <3>1
    <3> QED
      BY <3>1, <3>2, <3>3
  <2> QED
    BY <2>1 DEF OneFailureOneWindow
<1> QED
  BY <1>3, <1>4, <1>5, <1>6

LEMMA EditKeeps ==
  ASSUME IncidentsInv, NEW id \in DOMAIN register,
         SetResolved(id) \/ \E at \in Times : Update(id, at)
  PROVE  IncidentsInv'
<1>1. register \in Seq(Incident) /\ register[id] \in Incident
  BY DEF IncidentsInv, RegisterFits
<1>2. IncidentConfig'
  BY DEF IncidentsInv, IncidentConfig, SetResolved, Update
<1>3. CASE SetResolved(id)
  <2> DEFINE row == [register[id] EXCEPT !.resolved = ~ @]
  <2>1. /\ register' = [register EXCEPT ![id] = row]
        /\ UNCHANGED <<aliases, groups, lag, job, imports, excused, edited, stated, moved>>
    BY <1>3 DEF SetResolved
  <2>2. /\ row \in Incident /\ row.ext = register[id].ext /\ row.source = register[id].source
        /\ row.system = register[id].system /\ row.name = register[id].name
        /\ row.parent = register[id].parent /\ row.at = register[id].at
    BY <1>1 DEF Incident
  <2> HIDE DEF row
  <2>3. register' \in Seq(Incident) /\ DOMAIN register' = DOMAIN register /\ Len(register') = Len(register)
    BY <1>1, <2>1, <2>2
  <2>4. RegisterFits' /\ ImportsFit' /\ TicketOnce' /\ OneFailureOneWindow'
    BY <2>1, <2>2, <2>3, RowEdited
  <2> QED
    BY <1>2, <2>4 DEF IncidentsInv
<1>4. ASSUME NEW at \in Times, Update(id, at) PROVE IncidentsInv'
  <2> DEFINE row == [register[id] EXCEPT !.at = at]
  <2>1. /\ register' = [register EXCEPT ![id] = row] /\ edited' = edited \cup {id}
        /\ moved' = moved \cup {c \in DOMAIN register : register[c].parent # NONE /\ id \in {c, register[c].parent}}
        /\ UNCHANGED <<aliases, groups, lag, job, imports, excused, stated>>
    BY <1>4 DEF Update
  <2>2. /\ row \in Incident /\ row.ext = register[id].ext /\ row.source = register[id].source
        /\ row.system = register[id].system /\ row.name = register[id].name
        /\ row.parent = register[id].parent
    BY <1>1, IncidentsAssumption DEF Incident
  <2> HIDE DEF row
  <2>3. register' \in Seq(Incident) /\ DOMAIN register' = DOMAIN register /\ Len(register') = Len(register)
    BY <1>1, <2>1, <2>2
  <2>4. RegisterFits' /\ ImportsFit' /\ TicketOnce' /\ OneFailureOneWindow'
    BY <2>1, <2>2, <2>3, RowEdited
  <2> QED
    BY <1>2, <2>4 DEF IncidentsInv
<1> QED
  BY <1>3, <1>4

LEMMA SettingsKeep ==
  ASSUME IncidentsInv,
         \/ \E h \in Importers : ImportDie(h)
         \/ \E s \in Systems, ci \in CIs : AddAlias(ci, s)
         \/ \E s \in Systems, g \in Groups : MapGroup(g, s)
         \/ \E l \in Lags : Calibrate(l)
         \/ UNCHANGED incidentVars
  PROVE  IncidentsInv'
<1>1. UNCHANGED <<register, excused, edited, stated, moved>>
  BY DEF ImportDie, AddAlias, MapGroup, Calibrate, incidentVars
<1>2. lag' \in Lags
  BY DEF ImportDie, AddAlias, MapGroup, Calibrate, incidentVars, IncidentsInv, RegisterFits
<1>3. IncidentConfig'
  BY DEF ImportDie, AddAlias, MapGroup, Calibrate, incidentVars, IncidentsInv, IncidentConfig
<1>4. DOMAIN job' = Importers /\ \A g \in Importers : job'[g] \in {NONE, job[g]}
  BY DEF ImportDie, AddAlias, MapGroup, Calibrate, incidentVars, IncidentsInv, ImportsFit
<1>5. \A g \in Importers : StillApart(job[g], register, register', excused')
  BY <1>1 DEF StillApart
<1>6. ImportsFit'
  BY <1>1, <1>4, <1>5, JobsKept
<1>7. RegisterFits' /\ TicketOnce' /\ OneFailureOneWindow'
  BY <1>1, <1>2, RowsKept
<1> QED
  BY <1>3, <1>6, <1>7 DEF IncidentsInv

-----------------------------------------------------------------------------
(***************************************************************************)
(* The rows an export is written to: those it found, one of each ticket,   *)
(* and then as many new ones as there are lines of other tickets.          *)
(***************************************************************************)
Fresh(j) == {i \in DOMAIN j.file : j.file[i].ext \notin DOMAIN j.found}

LEMMA RemapTargets ==
  ASSUME register \in Seq(Incident), NEW j, ExportFits(j, register, excused)
  PROVE  /\ Cardinality(Fresh(j)) \in Nat
         /\ \A i \in DOMAIN j.file :
              IF i \in Fresh(j) THEN Target(j, i) \in Len(register) + 1 .. Len(register) + Cardinality(Fresh(j))
              ELSE Target(j, i) = j.found[j.file[i].ext] /\ Target(j, i) \in 1 .. Len(register)
         /\ \A i, k \in DOMAIN j.file : Target(j, i) = Target(j, k) => j.file[i].ext = j.file[k].ext
         /\ \A id \in Len(register) + 1 .. Len(register) + Cardinality(Fresh(j)) : id \in Written(j)
<1> DEFINE n == Len(register)
           S == Fresh(j)
           place(i) == Cardinality({m \in S : m <= i})
<1>1. n \in Nat /\ DOMAIN register = 1 .. n /\ Len(j.file) \in Nat /\ DOMAIN j.file = 1 .. Len(j.file)
  BY DEF ExportFits
<1>2. S \in SUBSET (1 .. Len(j.file))
  BY <1>1 DEF Fresh
<1>3. \A i \in S : Target(j, i) = n + place(i)
  <2> TAKE i \in S
  <2>1. {k \in 1 .. i : j.file[k].ext \notin DOMAIN j.found} = {m \in S : m <= i}
    BY <1>1, <1>2 DEF Fresh
  <2> QED
    BY <2>1 DEF Target, Fresh
<1>4. \A i \in DOMAIN j.file \ S : Target(j, i) = j.found[j.file[i].ext] /\ Target(j, i) \in 1 .. n
                                  /\ register[Target(j, i)].ext = j.file[i].ext
  BY <1>1 DEF Target, Fresh, ExportFits
<1>5. \A i \in S : S \subseteq DOMAIN j.file
  BY DEF Fresh
<1> HIDE DEF S, n
<1>6. /\ Cardinality(S) \in Nat
      /\ \A k \in 1 .. Cardinality(S) : \E i \in S : place(i) = k
      /\ \A i \in S : place(i) \in 1 .. Cardinality(S)
      /\ \A i, k \in S : place(i) = place(k) => i = k
  BY <1>1, <1>2, InOrder
<1> HIDE DEF place
<1>7. \A i \in S : Target(j, i) \in n + 1 .. n + Cardinality(S)
  BY <1>1, <1>3, <1>6
<1>8. \A i, k \in DOMAIN j.file : Target(j, i) = Target(j, k) => j.file[i].ext = j.file[k].ext
  <2> SUFFICES ASSUME NEW i \in DOMAIN j.file, NEW k \in DOMAIN j.file, Target(j, i) = Target(j, k)
               PROVE  j.file[i].ext = j.file[k].ext
    OBVIOUS
  <2>1. CASE i \in S /\ k \in S
    <3>1. place(i) = place(k)
      BY <1>1, <1>3, <1>6, <2>1
    <3> QED
      BY <1>6, <2>1, <3>1
  <2>2. CASE i \notin S /\ k \notin S
    BY <1>4, <2>2
  <2>3. CASE i \in S /\ k \notin S
    <3>1. Target(j, i) > n /\ Target(j, k) <= n
      BY <1>1, <1>4, <1>6, <1>7, <2>3
    <3> QED
      BY <1>1, <1>4, <3>1, <2>3
  <2>4. CASE i \notin S /\ k \in S
    <3>1. Target(j, k) > n /\ Target(j, i) <= n
      BY <1>1, <1>4, <1>6, <1>7, <2>4
    <3> QED
      BY <1>1, <1>4, <3>1, <2>4
  <2> QED
    BY <2>1, <2>2, <2>3, <2>4
<1>9. ASSUME NEW id \in n + 1 .. n + Cardinality(S) PROVE id \in Written(j)
  <2>1. id - n \in 1 .. Cardinality(S) /\ id = n + (id - n)
    BY <1>1, <1>6
  <2>2. PICK i \in S : place(i) = id - n
    BY <1>6, <2>1
  <2>3. Target(j, i) = id
    BY <1>3, <2>1, <2>2
  <2> QED
    BY <1>5, <2>3 DEF Written
<1> QED
  BY <1>4, <1>6, <1>7, <1>8, <1>9 DEF S, n

LEMMA WrittenRows ==
  ASSUME register \in Seq(Incident), NEW j, ExportFits(j, register, excused)
  PROVE  /\ DOMAIN register \cup Written(j) = 1 .. (Len(register) + Cardinality(Fresh(j)))
         /\ Cardinality(Written(j) \ DOMAIN register) = Cardinality(Fresh(j))
<1> DEFINE n == Len(register)
           m == Cardinality(Fresh(j))
<1>1. n \in Nat /\ DOMAIN register = 1 .. n /\ m \in Nat
  BY RemapTargets
<1>2. \A id \in Written(j) : id \in 1 .. n \/ id \in n + 1 .. n + m
  BY RemapTargets DEF Written
<1>3. \A id \in n + 1 .. n + m : id \in Written(j)
  BY RemapTargets
<1> HIDE DEF n, m
<1>4. DOMAIN register \cup Written(j) = 1 .. (n + m)
  BY <1>1, <1>2, <1>3
<1>5. Written(j) \ DOMAIN register = n + 1 .. n + m
  BY <1>1, <1>2, <1>3
<1>6. Cardinality(n + 1 .. n + m) = m
  <2>1. n + 1 \in Int /\ n + m \in Int
    BY <1>1
  <2>2. Cardinality(n + 1 .. n + m) = IF n + 1 > n + m THEN 0 ELSE (n + m) - (n + 1) + 1
    BY <2>1, FS_Interval
  <2> QED
    BY <1>1, <2>2
<1> QED
  BY <1>4, <1>5, <1>6 DEF n, m

(***************************************************************************)
(* The line a row is written from.                                         *)
(***************************************************************************)
LEMMA LinesOfRows ==
  ASSUME register \in Seq(Incident), NEW j, ExportFits(j, register, excused)
  PROVE  /\ \A id \in Written(j) :
              /\ LineOf(j, id) \in DOMAIN j.file /\ Target(j, LineOf(j, id)) = id
              /\ RefOf(j, id) \in Refs(j.file)
              /\ id \in DOMAIN register => RefOf(j, id) \in DOMAIN j.found /\ j.found[RefOf(j, id)] = id
              /\ id \notin DOMAIN register => RefOf(j, id) \notin DOMAIN j.found
         /\ \A t \in Refs(j.file) : ByRef(j, t) \in Written(j) /\ RefOf(j, ByRef(j, t)) = t
<1>1. ASSUME NEW id \in Written(j) PROVE LineOf(j, id) \in DOMAIN j.file /\ Target(j, LineOf(j, id)) = id
  <2> DEFINE S == {i \in DOMAIN j.file : Target(j, i) = id}
  <2>1. Len(j.file) \in Nat /\ S \in SUBSET (1 .. Len(j.file)) /\ S # {} /\ S \in SUBSET DOMAIN j.file
    BY DEF Written, ExportFits
  <2> HIDE DEF S
  <2>2. Max(S) \in S
    BY <2>1, Greatest
  <2>3. LineOf(j, id) \in S
    BY <2>2 DEF LineOf, S
  <2> QED
    BY <2>3 DEF S
<1>2. ASSUME NEW id \in Written(j)
      PROVE  /\ RefOf(j, id) \in Refs(j.file)
             /\ id \in DOMAIN register => RefOf(j, id) \in DOMAIN j.found /\ j.found[RefOf(j, id)] = id
             /\ id \notin DOMAIN register => RefOf(j, id) \notin DOMAIN j.found
  <2> DEFINE l == LineOf(j, id)
  <2>1. l \in DOMAIN j.file /\ Target(j, l) = id /\ RefOf(j, id) = j.file[l].ext
    BY <1>1 DEF RefOf
  <2>2. Len(register) \in Nat /\ DOMAIN register = 1 .. Len(register) /\ Cardinality(Fresh(j)) \in Nat
    BY RemapTargets
  <2> HIDE DEF l
  <2>3. l \in Fresh(j) <=> j.file[l].ext \notin DOMAIN j.found
    BY <2>1 DEF Fresh
  <2>4. CASE l \in Fresh(j)
    <3>1. id \in Len(register) + 1 .. Len(register) + Cardinality(Fresh(j))
      BY <2>1, <2>4, RemapTargets
    <3>2. id \notin DOMAIN register
      BY <2>2, <3>1
    <3> QED
      BY <2>1, <2>3, <2>4, <3>2 DEF Refs
  <2>5. CASE l \notin Fresh(j)
    <3>1. id = j.found[j.file[l].ext] /\ id \in DOMAIN register
      BY <2>1, <2>2, <2>5, RemapTargets
    <3> QED
      BY <2>1, <2>3, <2>5, <3>1 DEF Refs
  <2> QED
    BY <2>4, <2>5
<1>3. ASSUME NEW t \in Refs(j.file) PROVE ByRef(j, t) \in Written(j) /\ RefOf(j, ByRef(j, t)) = t
  <2> DEFINE l == LastLine(j.file, t)
  <2>1. l \in DOMAIN j.file /\ j.file[l].ext = t /\ ByRef(j, t) = Target(j, l)
    BY LastLineFits DEF ByRef, ExportFits
  <2>2. ByRef(j, t) \in Written(j)
    BY <2>1 DEF Written
  <2>3. LineOf(j, ByRef(j, t)) \in DOMAIN j.file /\ Target(j, LineOf(j, ByRef(j, t))) = Target(j, l)
    BY <1>1, <2>1, <2>2
  <2>4. j.file[LineOf(j, ByRef(j, t))].ext = j.file[l].ext
    BY <2>1, <2>3, RemapTargets
  <2> QED
    BY <2>1, <2>2, <2>4 DEF RefOf
<1> QED
  BY <1>1, <1>2, <1>3

-----------------------------------------------------------------------------
(***************************************************************************)
(* A row written over a row: each column is the one that was written or,   *)
(* if that is as it was read, the one that is there.                       *)
(***************************************************************************)
LEMMA FlushRow ==
  ASSUME NEW row \in Incident, NEW was \in Incident, NEW new \in Incident
  PROVE  LET f == Flush(row, was, new) IN
         /\ f \in Incident
         /\ f.ext = IF new.ext = was.ext THEN row.ext ELSE new.ext
         /\ f.source = IF new.source = was.source THEN row.source ELSE new.source
         /\ f.system = IF new.system = was.system THEN row.system ELSE new.system
         /\ f.at = IF new.at = was.at THEN row.at ELSE new.at
         /\ f.parent = IF new.parent = was.parent THEN row.parent ELSE new.parent
BY DEF Flush, Incident

LEMMA ParentWritten ==
  ASSUME register \in Seq(Incident), NEW j, ExportFits(j, register, excused), NEW id \in Written(j), IsChild(j, id)
  PROVE  /\ ByRef(j, j.links[RefOf(j, id)]) \in (Written(j) \cap Nat) \ {id}
         /\ RefOf(j, ByRef(j, j.links[RefOf(j, id)])) = j.links[RefOf(j, id)]
         /\ RefOf(j, id) \in DOMAIN j.links
<1> DEFINE u == j.links[RefOf(j, id)]
<1>1. u \in Refs(j.file) \ {RefOf(j, id)} /\ RefOf(j, id) \in DOMAIN j.links
  BY DEF IsChild, IsLinked
<1> HIDE DEF u
<1>2. ByRef(j, u) \in Written(j) /\ RefOf(j, ByRef(j, u)) = u
  BY <1>1, LinesOfRows
<1>3. ByRef(j, u) # id
  BY <1>1, <1>2
<1>4. ByRef(j, u) \in Nat
  <2>1. Len(register) \in Nat /\ Cardinality(Fresh(j)) \in Nat
    BY RemapTargets
  <2>2. ByRef(j, u) \in 1 .. (Len(register) + Cardinality(Fresh(j)))
    BY <1>2, WrittenRows
  <2> QED
    BY <2>1, <2>2
<1> QED
  BY <1>1, <1>2, <1>3, <1>4 DEF u

LEMMA CopyRow ==
  ASSUME register \in Seq(Incident), NEW j, ExportFits(j, register, excused), NEW id \in Written(j),
         NEW was \in Incident
  PROVE  LET c == Copy(j, id, was)
             line == j.file[LineOf(j, id)]
         IN /\ c \in Incident /\ c.ext = RefOf(j, id) /\ c.source = was.source
            /\ c.system = line.system /\ c.name = line.name /\ c.at = line.at
            /\ c.parent = IF IsChild(j, id) THEN ByRef(j, j.links[RefOf(j, id)]) ELSE was.parent
<1> DEFINE line == j.file[LineOf(j, id)]
           parent == IF IsChild(j, id) THEN ByRef(j, j.links[RefOf(j, id)]) ELSE was.parent
<1>1. line \in Incident /\ line.ext = RefOf(j, id)
  BY LinesOfRows DEF ExportFits, RefOf
<1>2. parent \in Nat \cup {NONE}
  BY ParentWritten DEF Incident
<1>3. Copy(j, id, was) = [line EXCEPT !.source = was.source, !.parent = parent]
  BY DEF Copy
<1> HIDE DEF line, parent
<1>4. LET c == Copy(j, id, was)
      IN /\ c \in Incident /\ c.ext = line.ext /\ c.source = was.source
         /\ c.system = line.system /\ c.name = line.name /\ c.at = line.at /\ c.parent = parent
  BY <1>1, <1>2, <1>3 DEF Incident
<1> QED
  BY <1>1, <1>4 DEF line, parent

LEMMA AfterRow ==
  ASSUME register \in Seq(Incident), NEW j, ExportFits(j, register, excused), NEW id \in Written(j)
  PROVE  LET a == After(j, id)
             line == j.file[LineOf(j, id)]
             kept == IF id \in DOMAIN register THEN register[id].parent ELSE NONE
         IN /\ a \in Incident
            /\ a.ext = RefOf(j, id)
            /\ id \in DOMAIN register => a.ext = register[id].ext /\ a.source = register[id].source
            /\ id \notin DOMAIN register => a.source = "itsm" /\ KeyOf(a) = KeyOf(line)
            /\ id \notin Raced(j) => a.system = line.system /\ a.at = line.at
            /\ a.parent = kept \/ (IsChild(j, id) /\ a.parent = ByRef(j, j.links[RefOf(j, id)]))
<1> DEFINE t == RefOf(j, id)
           line == j.file[LineOf(j, id)]
           kept == IF id \in DOMAIN register THEN register[id].parent ELSE NONE
           a == After(j, id)
<1>1. line \in Incident /\ line.source = "itsm" /\ line.parent = NONE
  BY LinesOfRows DEF ExportFits
<1>2. CASE id \in DOMAIN register
  <2> DEFINE was == j.loaded[t]
             c == Copy(j, id, was)
  <2>1. t \in DOMAIN j.found /\ j.found[t] = id
    BY <1>2, LinesOfRows
  <2>2. was \in Incident /\ was.ext = t /\ register[id] \in Incident /\ register[id].ext = t
    BY <1>2, <2>1 DEF ExportFits
  <2>3. a = Flush(register[id], was, c)
    BY <1>2 DEF After
  <2>4. id \notin Raced(j) => register[id].system = was.system /\ register[id].at = was.at
    BY <1>2 DEF Raced, Differ, KeyOf
  <2> HIDE DEF was, t
  <2>5. /\ c \in Incident /\ c.ext = t /\ c.source = was.source
        /\ c.system = line.system /\ c.at = line.at
        /\ c.parent = IF IsChild(j, id) THEN ByRef(j, j.links[t]) ELSE was.parent
    BY <2>2, CopyRow DEF t
  <2> HIDE DEF c, line, a
  <2>6. /\ a \in Incident
        /\ a.ext = IF c.ext = was.ext THEN register[id].ext ELSE c.ext
        /\ a.source = IF c.source = was.source THEN register[id].source ELSE c.source
        /\ a.system = IF c.system = was.system THEN register[id].system ELSE c.system
        /\ a.at = IF c.at = was.at THEN register[id].at ELSE c.at
        /\ a.parent = IF c.parent = was.parent THEN register[id].parent ELSE c.parent
    BY <2>2, <2>3, <2>5, FlushRow
  <2>7. a.ext = t /\ a.ext = register[id].ext /\ a.source = register[id].source
    BY <2>2, <2>5, <2>6
  <2>8. id \notin Raced(j) => a.system = line.system /\ a.at = line.at
    BY <2>4, <2>5, <2>6
  <2>9. a.parent = kept \/ (IsChild(j, id) /\ a.parent = ByRef(j, j.links[t]))
    BY <1>2, <2>5, <2>6
  <2> QED
    BY <1>2, <2>6, <2>7, <2>8, <2>9 DEF a, line, t
<1>3. CASE id \notin DOMAIN register
  <2>1. a = Copy(j, id, line)
    BY <1>3 DEF After
  <2> HIDE DEF line, a, t
  <2>2. /\ a \in Incident /\ a.ext = t /\ a.source = line.source
        /\ a.system = line.system /\ a.name = line.name /\ a.at = line.at
        /\ a.parent = IF IsChild(j, id) THEN ByRef(j, j.links[t]) ELSE line.parent
    BY <1>1, <2>1, CopyRow DEF t, line
  <2>3. KeyOf(a) = KeyOf(line)
    BY <2>2 DEF KeyOf
  <2> QED
    BY <1>1, <1>3, <2>2, <2>3 DEF a, line, t
<1> QED
  BY <1>2, <1>3

-----------------------------------------------------------------------------
(***************************************************************************)
(* The commit of an export: what becomes of the rows.                      *)
(***************************************************************************)
CommitOf(j) ==
  /\ ExportFits(j, register, excused)
  /\ Len(register) + Cardinality(Written(j) \ DOMAIN register) <= MaxRegister
  /\ register' = [id \in DOMAIN register \cup Written(j) |-> IF id \in Written(j) THEN After(j, id) ELSE register[id]]
  /\ edited' = edited \cup Changed(register')
  /\ stated' = (stated \ Children(j, register')) \cup {id \in Children(j, register') : RefOf(j, id) \in j.named}
  /\ moved' = {id \in DOMAIN register' :
                 /\ register'[id].parent # NONE
                 /\ \/ {id, register'[id].parent} \cap Raced(j) # {}
                    \/ id \in Children(j, register') /\ IsTorn(j, id)
                    \/ /\ id \notin Children(j, register')
                       /\ id \in moved \/ {id, register'[id].parent} \cap Changed(register') # {}}
  /\ UNCHANGED <<aliases, groups, lag, imports, corrections, excused>>

LEMMA CommitOfExport ==
  ASSUME IncidentsInv, NEW h \in Importers, ExportCommit(h)
  PROVE  CommitOf(job[h]) /\ job[h] # NONE /\ job' = [job EXCEPT ![h] = NONE]
<1>1. job[h] # NONE /\ job[h].kind = "export"
  BY DEF ExportCommit
<1>2. ExportFits(job[h], register, excused)
  BY <1>1 DEF IncidentsInv, ImportsFit, ImportFits
<1> QED
  BY <1>1, <1>2 DEF ExportCommit, CommitOf

LEMMA CommitRows ==
  ASSUME IncidentsInv, NEW j, CommitOf(j)
  PROVE  /\ register' \in Seq(Incident) /\ Len(register') <= MaxRegister
         /\ DOMAIN register' = DOMAIN register \cup Written(j)
         /\ \A id \in Written(j) : register'[id] = After(j, id)
         /\ \A id \in DOMAIN register \ Written(j) : register'[id] = register[id]
         /\ \A id \in DOMAIN register :
              /\ register'[id].ext = register[id].ext
              /\ register'[id].source = register[id].source
              /\ ~ Differ(register'[id], register[id]) \/ id \in Changed(register')
         /\ \A id \in DOMAIN register' \ DOMAIN register :
              /\ id \in Written(j) /\ id > Len(register) /\ register'[id].source = "itsm"
              /\ register'[id].ext = RefOf(j, id) /\ RefOf(j, id) \in Refs(j.file) \ DOMAIN j.found
              /\ KeyOf(register'[id]) = KeyOf(j.file[LineOf(j, id)])
<1> DEFINE n == Len(register)
           m == Cardinality(Fresh(j))
<1>1. register \in Seq(Incident) /\ ExportFits(j, register, excused)
  BY DEF IncidentsInv, RegisterFits, CommitOf
<1>2. n \in Nat /\ DOMAIN register = 1 .. n /\ m \in Nat
  BY <1>1, RemapTargets
<1>3. DOMAIN register \cup Written(j) = 1 .. (n + m) /\ n + m <= MaxRegister
  BY <1>1, WrittenRows DEF CommitOf
<1>4. DOMAIN register' = 1 .. (n + m) /\ DOMAIN register' = DOMAIN register \cup Written(j)
  BY <1>3 DEF CommitOf
<1>5. \A id \in Written(j) : register'[id] = After(j, id) /\ After(j, id) \in Incident
  BY <1>1, AfterRow DEF CommitOf
<1>6. \A id \in DOMAIN register \ Written(j) : register'[id] = register[id]
  BY DEF CommitOf
<1>7. \A id \in 1 .. (n + m) : register'[id] \in Incident
  BY <1>1, <1>3, <1>5, <1>6
<1>8. register' \in Seq(Incident) /\ Len(register') = n + m
  <2>1. register' = [id \in 1 .. (n + m) |-> register'[id]]
    BY <1>3 DEF CommitOf
  <2> DEFINE new == register'
  <2> HIDE DEF new, n, m
  <2>2. new = [id \in 1 .. (n + m) |-> new[id]] /\ \A id \in 1 .. (n + m) : new[id] \in Incident
    BY <1>7, <2>1 DEF new
  <2>3. n + m \in Nat
    BY <1>2
  <2>4. new \in Seq(Incident) /\ Len(new) = n + m
    BY <2>2, <2>3
  <2> QED
    BY <2>4 DEF new
<1>9. ASSUME NEW id \in DOMAIN register
      PROVE  /\ register'[id].ext = register[id].ext
             /\ register'[id].source = register[id].source
             /\ ~ Differ(register'[id], register[id]) \/ id \in Changed(register')
  BY <1>1, <1>5, <1>6, AfterRow DEF Changed
<1>10. ASSUME NEW id \in DOMAIN register' \ DOMAIN register
       PROVE  /\ id \in Written(j) /\ id > n /\ register'[id].source = "itsm"
              /\ register'[id].ext = RefOf(j, id) /\ RefOf(j, id) \in Refs(j.file) \ DOMAIN j.found
              /\ KeyOf(register'[id]) = KeyOf(j.file[LineOf(j, id)])
  <2>1. id \in Written(j) /\ id > n
    BY <1>2, <1>4
  <2>2. RefOf(j, id) \in Refs(j.file) \ DOMAIN j.found
    BY <1>1, <2>1, LinesOfRows
  <2> QED
    BY <1>1, <1>5, <2>1, <2>2, AfterRow
<1> QED
  BY <1>3, <1>4, <1>5, <1>6, <1>8, <1>9, <1>10

LEMMA CommitParents ==
  ASSUME IncidentsInv, NEW j, CommitOf(j), NEW id \in DOMAIN register'
  PROVE  /\ id \in Children(j, register') =>
              /\ id \in Written(j) /\ IsChild(j, id)
              /\ register'[id].parent = ByRef(j, j.links[RefOf(j, id)])
              /\ register'[id].parent \in DOMAIN register' \ {id}
         /\ id \notin Children(j, register') =>
              \/ register'[id].parent = NONE
              \/ id \in DOMAIN register /\ register'[id].parent = register[id].parent
<1>1. register \in Seq(Incident) /\ ExportFits(j, register, excused)
  BY DEF IncidentsInv, RegisterFits, CommitOf
<1>2. ASSUME id \in Children(j, register')
      PROVE  /\ id \in Written(j) /\ IsChild(j, id)
             /\ register'[id].parent = ByRef(j, j.links[RefOf(j, id)])
             /\ register'[id].parent \in DOMAIN register' \ {id}
  <2>1. id \in Written(j) /\ IsChild(j, id) /\ register'[id].parent = ByRef(j, j.links[RefOf(j, id)])
    BY <1>2 DEF Children
  <2>2. ByRef(j, j.links[RefOf(j, id)]) \in Written(j) \ {id}
    BY <1>1, <2>1, ParentWritten
  <2> QED
    BY <2>1, <2>2, CommitRows
<1>3. ASSUME id \notin Children(j, register')
      PROVE  \/ register'[id].parent = NONE
             \/ id \in DOMAIN register /\ register'[id].parent = register[id].parent
  <2>1. CASE id \in Written(j)
    <3>1. register'[id] = After(j, id)
      BY <2>1, CommitRows
    <3>2. \/ After(j, id).parent = IF id \in DOMAIN register THEN register[id].parent ELSE NONE
          \/ IsChild(j, id) /\ After(j, id).parent = ByRef(j, j.links[RefOf(j, id)])
      BY <1>1, <2>1, AfterRow
    <3>3. ~ (IsChild(j, id) /\ register'[id].parent = ByRef(j, j.links[RefOf(j, id)]))
      BY <1>3, <2>1 DEF Children
    <3> QED
      BY <3>1, <3>2, <3>3
  <2>2. CASE id \notin Written(j)
    BY <2>2, CommitRows
  <2> QED
    BY <2>1, <2>2
<1> QED
  BY <1>2, <1>3

LEMMA CommitTicketOnce ==
  ASSUME IncidentsInv, NEW j, CommitOf(j)
  PROVE  TicketOnce'
<1>1. register \in Seq(Incident) /\ ExportFits(j, register, excused) /\ excused' = excused /\ edited' = edited \cup Changed(register')
  BY DEF IncidentsInv, RegisterFits, CommitOf
<1>2. /\ DOMAIN register' = DOMAIN register \cup Written(j) /\ DOMAIN register' \subseteq Nat
      /\ DOMAIN register = 1 .. Len(register) /\ Len(register) \in Nat
      /\ \A id \in DOMAIN register' \ DOMAIN register : id > Len(register)
  <2>1. DOMAIN register = 1 .. Len(register) /\ Len(register) \in Nat
    BY <1>1
  <2>2. register' \in Seq(Incident) /\ DOMAIN register' = DOMAIN register \cup Written(j)
    BY CommitRows
  <2>3. \A id \in DOMAIN register' \ DOMAIN register : id > Len(register)
    BY CommitRows
  <2>4. DOMAIN register' \subseteq Nat
    <3> DEFINE new == register'
    <3>1. new \in Seq(Incident)
      BY <2>2
    <3> HIDE DEF new
    <3>2. DOMAIN new = 1 .. Len(new) /\ Len(new) \in Nat
      BY <3>1
    <3>3. DOMAIN new \subseteq Nat
      BY <3>2
    <3> QED
      BY <3>3 DEF new
  <2> QED
    BY <2>1, <2>2, <2>3, <2>4
<1>3. ASSUME NEW i \in DOMAIN register', NEW k \in DOMAIN register', i < k
      PROVE  /\ register'[i].ext # NONE /\ register'[i].ext = register'[k].ext => register'[i].ext \in excused
             /\ register'[k].source = "import" /\ KeyOf(register'[i]) = KeyOf(register'[k]) =>
                  (KeyOf(register'[i]) \in excused \/ edited' \cap {i, k} # {})
  <2>1. CASE k \in DOMAIN register
    <3>1. i \in DOMAIN register
      BY <1>2, <1>3, <2>1
    <3>2. /\ register'[i].ext = register[i].ext /\ register'[k].ext = register[k].ext
          /\ register'[k].source = register[k].source
          /\ KeyOf(register'[i]) = KeyOf(register[i]) \/ i \in edited'
          /\ KeyOf(register'[k]) = KeyOf(register[k]) \/ k \in edited'
      BY <1>1, <2>1, <3>1, CommitRows DEF Differ
    <3> QED
      BY <1>1, <1>3, <2>1, <3>1, <3>2 DEF IncidentsInv, TicketOnce
  <2>2. CASE k \notin DOMAIN register
    <3>1. /\ k \in Written(j) /\ register'[k].source = "itsm" /\ register'[k].ext = RefOf(j, k)
          /\ RefOf(j, k) \in Refs(j.file) \ DOMAIN j.found
      BY <2>2, CommitRows
    <3>2. ASSUME register'[i].ext = register'[k].ext, register'[i].ext \notin excused PROVE FALSE
      <4>1. CASE i \in DOMAIN register
        <5>1. register[i].ext = RefOf(j, k)
          BY <3>1, <3>2, <4>1, CommitRows
        <5>2. register[i].ext \in Refs(j.file) \ excused
          BY <3>1, <3>2, <5>1
        <5>3. register[i].ext \in DOMAIN j.found
          BY <1>1, <4>1, <5>2 DEF ExportFits
        <5> QED
          BY <3>1, <5>1, <5>3
      <4>2. CASE i \notin DOMAIN register
        <5>1. i \in Written(j) /\ register'[i].ext = RefOf(j, i)
          BY <4>2, CommitRows
        <5>2. /\ LineOf(j, i) \in DOMAIN j.file /\ Target(j, LineOf(j, i)) = i
              /\ LineOf(j, k) \in DOMAIN j.file /\ Target(j, LineOf(j, k)) = k
          BY <1>1, <3>1, <5>1, LinesOfRows
        <5>3. RefOf(j, i) = RefOf(j, k) /\ RefOf(j, k) \notin Repeated(j.file)
          BY <1>1, <3>1, <3>2, <5>1 DEF ExportFits
        <5>4. LineOf(j, i) = LastLine(j.file, RefOf(j, k)) /\ LineOf(j, k) = LastLine(j.file, RefOf(j, k))
          BY <1>1, <5>2, <5>3, LastLineFits DEF RefOf, ExportFits
        <5>5. i = k
          BY <5>2, <5>4
        <5> QED
          BY <1>2, <1>3, <5>5
      <4> QED
        BY <4>1, <4>2
    <3> QED
      BY <3>1, <3>2
  <2> QED
    BY <2>1, <2>2
<1> QED
  BY <1>1, <1>3 DEF TicketOnce

LEMMA CommitOneFailure ==
  ASSUME IncidentsInv, NEW j, CommitOf(j)
  PROVE  OneFailureOneWindow'
<1>1. register \in Seq(Incident) /\ ExportFits(j, register, excused)
  BY DEF IncidentsInv, RegisterFits, CommitOf
<1>2. ASSUME NEW c \in DOMAIN register', register'[c].parent # NONE, c \notin stated' \cup moved'
      PROVE  /\ register'[register'[c].parent].system = register'[c].system
             /\ register'[c].at - register'[register'[c].parent].at \in 0 .. WINDOW
  <2> DEFINE p == register'[c].parent
  <2>1. /\ {c, p} \cap Raced(j) = {}
        /\ c \in Children(j, register') => ~ IsTorn(j, c) /\ RefOf(j, c) \notin j.named
        /\ c \notin Children(j, register') => /\ c \notin stated \cup moved
                                              /\ {c, p} \cap Changed(register') = {}
    BY <1>2 DEF CommitOf
  <2>2. CASE c \notin Children(j, register')
    <3>1. c \in DOMAIN register /\ p = register[c].parent
      BY <1>2, <2>2, CommitParents
    <3>2. p \in DOMAIN register
      BY <1>2, <3>1 DEF IncidentsInv, RegisterFits
    <3>3. ~ Differ(register'[c], register[c]) /\ ~ Differ(register'[p], register[p])
      BY <2>1, <2>2, <3>1, <3>2, CommitRows
    <3> HIDE DEF p
    <3>4. /\ register'[c].system = register[c].system /\ register'[c].at = register[c].at
          /\ register'[p].system = register[p].system /\ register'[p].at = register[p].at
      BY <3>3 DEF Differ, KeyOf
    <3>5. register[p].system = register[c].system /\ register[c].at - register[p].at \in 0 .. WINDOW
      BY <1>2, <2>1, <2>2, <3>1 DEF IncidentsInv, OneFailureOneWindow, p
    <3> QED
      BY <3>4, <3>5 DEF p
  <2>3. CASE c \in Children(j, register')
    <3> DEFINE t == RefOf(j, c)
               u == j.links[t]
    <3>1. c \in Written(j) /\ IsChild(j, c) /\ p = ByRef(j, u)
      BY <1>2, <2>3, CommitParents
    <3>2. p \in Written(j) /\ RefOf(j, p) = u /\ t \in DOMAIN j.links
      BY <1>1, <3>1, ParentWritten
    <3>3. {t, u} \cap j.torn = {} /\ {t, u} \cap Repeated(j.file) = {} /\ t \notin j.named
      BY <1>1, <2>1, <2>3 DEF IsTorn, ExportFits
    <3>4. /\ LineOf(j, c) \in DOMAIN j.file /\ j.file[LineOf(j, c)].ext = t
          /\ LineOf(j, p) \in DOMAIN j.file /\ j.file[LineOf(j, p)].ext = u
      BY <1>1, <3>1, <3>2, LinesOfRows DEF RefOf
    <3>5. /\ register'[c].system = j.file[LineOf(j, c)].system /\ register'[c].at = j.file[LineOf(j, c)].at
          /\ register'[p].system = j.file[LineOf(j, p)].system /\ register'[p].at = j.file[LineOf(j, p)].at
      <4>1. \A id \in Written(j) : id \notin Raced(j) =>
              /\ register'[id].system = j.file[LineOf(j, id)].system
              /\ register'[id].at = j.file[LineOf(j, id)].at
        <5> SUFFICES ASSUME NEW id \in Written(j), id \notin Raced(j)
                     PROVE  /\ register'[id].system = j.file[LineOf(j, id)].system
                            /\ register'[id].at = j.file[LineOf(j, id)].at
          OBVIOUS
        <5>1. register'[id] = After(j, id)
          BY CommitRows
        <5>2. After(j, id).system = j.file[LineOf(j, id)].system /\ After(j, id).at = j.file[LineOf(j, id)].at
          BY <1>1, AfterRow
        <5> QED
          BY <5>1, <5>2
      <4> HIDE DEF p
      <4> QED
        BY <2>1, <3>1, <3>2, <4>1
    <3>6. OneFailureRows(j.file, j.torn, t, u)
      BY <1>1, <3>2, <3>3 DEF ExportFits
    <3> HIDE DEF t, u, p
    <3>7. PICK i, k \in DOMAIN j.file : /\ j.file[i].ext = t /\ j.file[k].ext = u
                                       /\ j.file[i].at - j.file[k].at \in 0 .. WINDOW
                                       /\ j.file[i].system = j.file[k].system
      BY <3>3, <3>6 DEF OneFailureRows
    <3>8. i = LineOf(j, c) /\ k = LineOf(j, p)
      <4>1. j.file \in Seq(Incident)
        BY <1>1 DEF ExportFits
      <4>2. \A a, b \in DOMAIN j.file : j.file[a].ext = j.file[b].ext /\ j.file[a].ext \notin Repeated(j.file) => a = b
        BY <4>1, LastLineFits
      <4> QED
        BY <3>3, <3>4, <3>7, <4>2
    <3> QED
      BY <3>5, <3>7, <3>8 DEF p
  <2> QED
    BY <2>2, <2>3
<1> QED
  BY <1>2 DEF OneFailureOneWindow

LEMMA ExportCommitKeeps ==
  ASSUME IncidentsInv, NEW h \in Importers, ExportCommit(h)
  PROVE  IncidentsInv'
<1> DEFINE j == job[h]
<1>1. CommitOf(j) /\ j # NONE /\ job' = [job EXCEPT ![h] = NONE]
  BY CommitOfExport
<1>2. TicketOnce' /\ OneFailureOneWindow'
  BY <1>1, CommitTicketOnce, CommitOneFailure
<1>3. IncidentConfig' /\ lag' \in Lags
  BY <1>1 DEF CommitOf, IncidentsInv, IncidentConfig, RegisterFits
<1>4. DOMAIN job' = Importers /\ job'[h] = NONE /\ \A g \in Importers : job'[g] \in {NONE, job[g]}
  BY <1>1 DEF IncidentsInv, ImportsFit
<1>5. /\ excused' = excused /\ edited \subseteq edited'
      /\ Changed(register') \subseteq edited' /\ edited' \subseteq edited \cup DOMAIN register
      /\ stated' \subseteq stated \cup Children(j, register') /\ moved' \subseteq DOMAIN register'
  BY <1>1 DEF CommitOf, Changed
<1>6. /\ register' \in Seq(Incident) /\ Len(register') <= MaxRegister
      /\ DOMAIN register' = DOMAIN register \cup Written(j)
      /\ \A id \in DOMAIN register :
           /\ register'[id].ext = register[id].ext
           /\ ~ Differ(register'[id], register[id]) \/ id \in Changed(register')
      /\ \A id \in DOMAIN register' \ DOMAIN register :
           /\ id \in Written(j) /\ register'[id].ext = RefOf(j, id) /\ RefOf(j, id) \in Refs(j.file)
           /\ KeyOf(register'[id]) = KeyOf(j.file[LineOf(j, id)])
  BY <1>1, CommitRows
<1>7. RegisterFits'
  <2>1. ASSUME NEW i \in DOMAIN register' PROVE register'[i].parent \in (DOMAIN register' \ {i}) \cup {NONE}
    <3>1. CASE i \in Children(j, register')
      BY <1>1, <3>1, CommitParents
    <3>2. CASE i \notin Children(j, register')
      <4>1. register'[i].parent = NONE \/ (i \in DOMAIN register /\ register'[i].parent = register[i].parent)
        BY <1>1, <3>2, CommitParents
      <4>2. i \in DOMAIN register => register[i].parent \in (DOMAIN register \ {i}) \cup {NONE}
        BY DEF IncidentsInv, RegisterFits
      <4> QED
        BY <1>6, <4>1, <4>2
    <3> QED
      BY <3>1, <3>2
  <2>2. Children(j, register') \subseteq DOMAIN register'
    BY <1>6 DEF Children
  <2>3. (edited \cup stated \cup moved)' \subseteq DOMAIN register'
    BY <1>5, <1>6, <2>2 DEF IncidentsInv, RegisterFits
  <2> QED
    BY <1>3, <1>6, <2>1, <2>3 DEF RegisterFits
<1>8. ImportsFit'
  <2>1. ASSUME NEW g \in Importers, job'[g] # NONE PROVE StillApart(job[g], register, register', excused')
    <3>1. g # h /\ job[g] # NONE
      BY <1>4, <2>1
    <3>2. InHand(job[g]) \cap InHand(j) \subseteq excused'
      BY <1>5, <3>1 DEF IncidentsInv, ImportsFit
    <3>3. ASSUME NEW i \in DOMAIN register' \ DOMAIN register
          PROVE  /\ register'[i].ext \in Refs(job[g].file) \ {NONE} => register'[i].ext \in excused'
                 /\ \A k \in DOMAIN job[g].file :
                      KeyOf(register'[i]) = KeyOf(job[g].file[k]) => KeyOf(register'[i]) \in excused'
      <4>1. register'[i].ext # NONE => register'[i].ext \in InHand(j)
        BY <1>1, <1>6 DEF InHand
      <4>2. KeyOf(register'[i]) \in InHand(j)
        <5>1. LineOf(j, i) \in DOMAIN j.file
          BY <1>1, <1>6, LinesOfRows DEF CommitOf, IncidentsInv, RegisterFits
        <5> QED
          BY <1>1, <1>6, <5>1 DEF InHand
      <4>3. \A t \in Refs(job[g].file) \ {NONE} : t \in InHand(job[g])
        BY <3>1 DEF InHand
      <4>4. \A k \in DOMAIN job[g].file : KeyOf(job[g].file[k]) \in InHand(job[g])
        BY <3>1 DEF InHand
      <4> QED
        BY <3>2, <4>1, <4>2, <4>3, <4>4
    <3> QED
      BY <3>3 DEF StillApart
  <2>2. \A i \in DOMAIN register :
          register'[i].ext = register[i].ext /\ (KeyOf(register'[i]) = KeyOf(register[i]) \/ i \in edited')
    BY <1>5, <1>6 DEF Differ
  <2> QED
    BY <1>4, <1>5, <1>6, <2>1, <2>2, JobsKept
<1> QED
  BY <1>2, <1>3, <1>7, <1>8 DEF IncidentsInv

-----------------------------------------------------------------------------
(***************************************************************************)
(* The invariant is inductive.                                             *)
(***************************************************************************)
LEMMA IncidentsInvInit == IncidentsInit => IncidentsInv
<1> SUFFICES ASSUME IncidentsInit PROVE IncidentsInv
  OBVIOUS
<1>1. register = <<>> /\ DOMAIN register = {} /\ Len(register) = 0
  BY DEF IncidentsInit
<1>2. IncidentConfig
  BY DEF IncidentsInit, IncidentConfig
<1>3. RegisterFits
  BY <1>1, IncidentsAssumption DEF IncidentsInit, RegisterFits
<1>4. ImportsFit
  BY DEF IncidentsInit, ImportsFit, ImportFits, InHand
<1>5. TicketOnce /\ OneFailureOneWindow
  BY <1>1 DEF TicketOnce, OneFailureOneWindow
<1> QED
  BY <1>2, <1>3, <1>4, <1>5 DEF IncidentsInv

LEMMA IncidentsInvStep == IncidentsInv /\ [IncidentsNext]_incidentVars => IncidentsInv'
<1> SUFFICES ASSUME IncidentsInv, [IncidentsNext]_incidentVars PROVE IncidentsInv'
  OBVIOUS
<1>1. ASSUME NEW h \in Importers, NEW export \in Exports, ExportRead(h, export) PROVE IncidentsInv'
  BY <1>1, ExportReadKeeps
<1>2. ASSUME NEW h \in Importers, NEW table \in Tables, TableRead(h, table) PROVE IncidentsInv'
  BY <1>2, TableReadKeeps
<1>3. ASSUME NEW h \in Importers, ExportCommit(h) PROVE IncidentsInv'
  BY <1>3, ExportCommitKeeps
<1>4. ASSUME NEW h \in Importers, TableCommit(h) PROVE IncidentsInv'
  BY <1>4, TableCommitKeeps
<1>5. ASSUME NEW h \in Importers, ImportDie(h) PROVE IncidentsInv'
  BY <1>5, SettingsKeep
<1>6. ASSUME NEW s \in Systems, NEW at \in Times, Create(s, at) PROVE IncidentsInv'
  BY <1>6, CreateKeeps
<1>7. ASSUME NEW id \in DOMAIN register, SetResolved(id) \/ \E at \in Times : Update(id, at) PROVE IncidentsInv'
  BY <1>7, EditKeeps
<1>8. ASSUME NEW s \in Systems, (\E ci \in CIs : AddAlias(ci, s)) \/ (\E g \in Groups : MapGroup(g, s))
      PROVE  IncidentsInv'
  BY <1>8, SettingsKeep
<1>9. ASSUME NEW l \in Lags, Calibrate(l) PROVE IncidentsInv'
  BY <1>9, SettingsKeep
<1>10. CASE UNCHANGED incidentVars
  BY <1>10, SettingsKeep
<1> QED
  BY <1>1, <1>2, <1>3, <1>4, <1>5, <1>6, <1>7, <1>8, <1>9, <1>10 DEF IncidentsNext

(***************************************************************************)
(* Whatever imports, edits and corrections overlap, the rows of a ticket   *)
(* are those its importer found, and the keys of a table are where its     *)
(* importer left them (import_export, import_incidents).                   *)
(***************************************************************************)
THEOREM IncidentsInvariant == IncidentsSpec => []IncidentsInv
<1>1. IncidentsInit => IncidentsInv
  BY IncidentsInvInit
<1>2. IncidentsInv /\ [IncidentsNext]_incidentVars => IncidentsInv'
  BY IncidentsInvStep
<1> QED
  BY <1>1, <1>2, PTL DEF IncidentsSpec

(***************************************************************************)
(* The register keeps its shape: a row's parent is another row of it.      *)
(***************************************************************************)
THEOREM IncidentsTypeCorrect == IncidentsSpec => []IncidentsTypeOK
<1>1. IncidentsInv => IncidentsTypeOK
  <2> SUFFICES ASSUME IncidentsInv PROVE IncidentsTypeOK
    OBVIOUS
  <2>1. \A h \in Importers : job[h] # NONE => job[h].kind \in {"export", "table"}
    BY DEF IncidentsInv, ImportsFit, ImportFits
  <2> QED
    BY <2>1 DEF IncidentsInv, IncidentConfig, RegisterFits, IncidentsTypeOK
<1> QED
  BY <1>1, IncidentsInvariant, PTL

(***************************************************************************)
(* A ticket loaded again is the row it was, and a row of a table is added  *)
(* once, whatever imports overlap, whatever systems, aliases, groups and   *)
(* clocks become (itsm_service.import_export, service.import_incidents).   *)
(***************************************************************************)
THEOREM TicketOnceAlways == IncidentsSpec => []TicketOnce
<1>1. IncidentsInv => TicketOnce
  BY DEF IncidentsInv
<1> QED
  BY <1>1, IncidentsInvariant, PTL

(***************************************************************************)
(* Rows the import takes for one failure are of one system and within the  *)
(* window of their parent, for every window and every calibrated lag       *)
(* (itsm.correlate, itsm_service.import_export).                           *)
(***************************************************************************)
THEOREM OneFailureOneWindowAlways == IncidentsSpec => []OneFailureOneWindow
<1>1. IncidentsInv => OneFailureOneWindow
  BY DEF IncidentsInv
<1> QED
  BY <1>1, IncidentsInvariant, PTL
=============================================================================
