------------------------------ MODULE Incidents ------------------------------
(***************************************************************************)
(* The register of technical failures (incidents/).  Rows come by hand, in *)
(* tables (service.import_incidents) and in exports of the ITSM            *)
(* (itsm_service.import_export): there one failure is many tickets, and    *)
(* the import finds which of them are one.  An import is one handler: it   *)
(* reads the register, computes, and commits once.  A row's description is *)
(* part of its name here; the money of a row (recompute, a function of the *)
(* row and the rates) is left out.                                         *)
(***************************************************************************)
EXTENDS Absent, Orm, Integers, SequencesExt

CONSTANTS
  Tickets,           \* numbers of tickets (external_id)
  Systems,
  CIs, Groups,       \* what a ticket says of its system
  SystemNamed,       \* the system whose normalised name a CI is, or NONE
  Exports,           \* the exports that may be loaded: sequences of tickets, where ext is NONE
                     \* in a line without a number or a moment, at in one whose moment is unreadable
  Tables,            \* the tables that may be loaded: sequences of rows
  Importers,
  Times,             \* moments, in units of the correlation window
  Lags,              \* calibrated lags of the ITSM's clock
  WINDOW,            \* CORRELATION_WINDOW_MIN
  MaxRegister, MaxImports, MaxCorrections   \* bounds

ASSUME IncidentsAssumption ==
  /\ Exports \subseteq Seq([ext : Tickets \cup {NONE}, ci : CIs \cup {NONE}, group : Groups \cup {NONE},
                            at : Int \cup {NONE}, resolved : BOOLEAN, parent : Tickets \cup {NONE}])
  /\ Tables \subseteq Seq([name : Systems \cup CIs \cup {NONE}, at : Int \cup {NONE}, resolved : BOOLEAN])
  /\ SystemNamed \in [CIs -> Systems \cup {NONE}]
  /\ Systems \cap (CIs \cup Groups \cup {NONE}) = {}
  /\ Times \cup Lags \subseteq Int /\ 0 \in Lags /\ WINDOW \in Int
  /\ MaxRegister \in Nat

VARIABLES
  register,    \* the rows of tech_incidents
  aliases,     \* SystemAlias: CI |-> system
  groups,      \* ItsmGroupMapping: group |-> system
  lag,         \* itsm_apm_correction.start_lag_min
  job,         \* what an import has read
  imports, corrections,
  excused,     \* history: tickets and keys two imports had in hand at once, or one file twice
  edited,      \* history: rows whose key was changed after they were written
  stated,      \* history: children whose parent the export itself named
  moved        \* history: children that were, or whose parent was, changed since they were linked

incidentVars == <<register, aliases, groups, lag, job, imports, corrections, excused, edited, stated, moved>>

Incident == [ext : Tickets \cup {NONE}, source : {"manual", "import", "itsm"},
             system : Systems \cup {NONE}, name : Systems \cup CIs \cup Groups \cup {NONE},
             at : Int, resolved : BOOLEAN, parent : Nat \cup {NONE}]

IncidentsTypeOK ==
  /\ register \in Seq(Incident) /\ Len(register) <= MaxRegister
  /\ aliases \in [CIs -> Systems \cup {NONE}] /\ groups \in [Groups -> Systems \cup {NONE}]
  /\ lag \in Lags
  /\ \A i \in DOMAIN register : register[i].parent \in (DOMAIN register \ {i}) \cup {NONE}
  /\ \A h \in Importers : job[h] # NONE => job[h].kind \in {"export", "table"}
  /\ edited \cup stated \cup moved \subseteq DOMAIN register

IncidentsInit ==
  /\ register = <<>>
  /\ aliases = [c \in CIs |-> NONE] /\ groups = [g \in Groups |-> NONE]
  /\ lag = 0
  /\ job = [h \in Importers |-> NONE]
  /\ imports = 0 /\ corrections = 0
  /\ excused = {} /\ edited = {} /\ stated = {} /\ moved = {}

-----------------------------------------------------------------------------
\* resolve_system: the CI as an alias, the CI as a name, the group.
Resolved(t) ==
  IF t.ci # NONE /\ aliases[t.ci] # NONE THEN aliases[t.ci]
  ELSE IF t.ci # NONE /\ SystemNamed[t.ci] # NONE THEN SystemNamed[t.ci]
  ELSE IF t.group # NONE THEN groups[t.group] ELSE NONE

(***************************************************************************)
(* The elements of a sequence at some of its places, in order (what        *)
(* SelectSeq gives, in a form that can be proved about).                   *)
(***************************************************************************)
At(s, S) ==
  [k \in 1 .. Cardinality(S) |-> s[CHOOSE i \in S : Cardinality({m \in S : m <= i}) = k]]

\* to_record: what each export says of tickets, moments that cannot be read included ...
ExportRecords == [export \in Exports |-> At(export, {i \in DOMAIN export : export[i].ext # NONE})]

\* ... and, of these, what parse_ts reads a moment of: only these are correlated and written.
Lines == [export \in Exports |->
  At(ExportRecords[export], {i \in DOMAIN ExportRecords[export] : ExportRecords[export][i].at # NONE})]

\* What is kept under a number is of the last line of that number.
LastLine(file, ext) == Max({i \in DOMAIN file : file[i].ext = ext})

Refs(file) == {file[i].ext : i \in DOMAIN file}

\* What tickets are grouped by: the system, else the CI, else nothing at all.
GroupKey(t) == IF Resolved(t) # NONE THEN Resolved(t) ELSE t.ci

\* correlate: the lines the export names a parent for ...
NamedLines(file) == {i \in DOMAIN file : file[i].parent \notin {NONE, file[i].ext}}
Named(file) == {file[i].ext : i \in NamedLines(file)}
Explicit(file) == [t \in Named(file) |-> file[Max({i \in NamedLines(file) : file[i].ext = t})].parent]

(***************************************************************************)
(* ... and the others, by group in order of appearance and by moment       *)
(* within the group (the sort is stable).                                  *)
(***************************************************************************)
Loose(file) == {i \in DOMAIN file : file[i].ext \notin Named(file)}
First(file, key) == Min({i \in Loose(file) : GroupKey(file[i]) = key})

Before(file, i, k) ==
  LET group(m) == First(file, GroupKey(file[m]))
  IN \/ group(i) < group(k)
     \/ group(i) = group(k) /\ file[i].at < file[k].at
     \/ group(i) = group(k) /\ file[i].at = file[k].at /\ i < k

\* The line that so many of them are not after.
Nth(file, n) == CHOOSE i \in Loose(file) : Cardinality({m \in Loose(file) : ~ Before(file, i, m)}) = n

WithLink(links, t, parent) ==
  [u \in DOMAIN links \cup {t} |-> IF u = t THEN parent ELSE links[u]]

\* Mutant: the window is counted from the previous ticket, not from the first.
SweepChained(file, acc, i) ==
  IF acc.head # NONE /\ GroupKey(acc.head) = GroupKey(file[i]) /\ file[i].at - acc.last <= WINDOW
  THEN [acc EXCEPT !.links = WithLink(@, file[i].ext, acc.head.ext), !.last = file[i].at]
  ELSE [acc EXCEPT !.head = file[i], !.last = file[i].at]

\* A ticket within the window of the head of its group is the head's child; another is a head.
Sweep(file, acc, i) ==
  IF acc.head # NONE /\ GroupKey(acc.head) = GroupKey(file[i]) /\ file[i].at - acc.head.at <= WINDOW
  THEN [acc EXCEPT !.links = WithLink(@, file[i].ext, acc.head.ext)]
  ELSE [acc EXCEPT !.head = file[i]]

\* The parent of each child: those the export names, then those the sweep finds.
Correlated(file) ==
  LET swept[n \in 0 .. Cardinality(Loose(file))] ==
        IF n = 0 THEN [head |-> NONE, last |-> 0, links |-> Explicit(file)]
        ELSE Sweep(file, swept[n - 1], Nth(file, n))
  IN swept[Cardinality(Loose(file))].links

-----------------------------------------------------------------------------
KeyOf(row) == <<row.name, row.at>>
NotImporting(h) == job[h] = NONE /\ imports < MaxImports /\ imports' = imports + 1

\* The tickets and the keys an import is about to write.
InHand(j) == IF j = NONE THEN {} ELSE (Refs(j.file) \ {NONE}) \cup {KeyOf(j.file[i]) : i \in DOMAIN j.file}
Overlap(h, j) == InHand(j) \cap UNION {InHand(job[g]) : g \in Importers \ {h}}

Repeated(file) == {file[i].ext : i \in {k \in DOMAIN file : k # LastLine(file, file[k].ext)}}

\* Mutant: a ticket is looked for among the rows of its system only.
FoundInSystem(file, t) ==
  {i \in DOMAIN register : register[i].ext = t /\ register[i].system = Resolved(file[LastLine(file, t)])}

\* The rows of a ticket; the file's dictionary keeps one of them.
Found(file, t) == {i \in DOMAIN register : register[i].ext = t}

(***************************************************************************)
(* A line as its row will be: the system that the last record of the       *)
(* ticket gives, if only one without a moment, the display name, and the   *)
(* moment moved by the calibrated lag.                                     *)
(***************************************************************************)
AsRow(records, t) ==
  LET s == Resolved(records[LastLine(records, t.ext)])
  IN [ext |-> t.ext, source |-> "itsm", system |-> s,
      name |-> IF s # NONE THEN s ELSE IF t.ci # NONE THEN t.ci ELSE t.group,
      at |-> t.at - lag, resolved |-> t.resolved, parent |-> NONE]

\* The links are of the lines, the systems of the records (torn, history: which may differ).
ExportJob(records, lines, found) ==
  [kind |-> "export", file |-> [i \in DOMAIN lines |-> AsRow(records, lines[i])], found |-> found,
   loaded |-> [t \in DOMAIN found |-> register[found[t]]],
   links |-> Correlated(lines), named |-> Named(lines), torn |-> Repeated(records)]

\* import_export: everything is read, and the links are found, before anything is written.
ExportRead(h, export) ==
  LET lines == Lines[export]
      known == {t \in Refs(lines) : Found(lines, t) # {}}
  IN /\ NotImporting(h)
     /\ \E found \in [known -> DOMAIN register] :
          /\ \A t \in known : found[t] \in Found(lines, t)
          /\ job' = [job EXCEPT ![h] = ExportJob(ExportRecords[export], lines, found)]
          /\ excused' = excused \cup Overlap(h, job'[h]) \cup Repeated(lines)
     /\ UNCHANGED <<register, aliases, groups, lag, corrections, edited, stated, moved>>

\* The row each line is written to: the one found, or a new one of its own.
Target(j, i) ==
  IF j.file[i].ext \in DOMAIN j.found THEN j.found[j.file[i].ext]
  ELSE Len(register) + Cardinality({k \in 1 .. i : j.file[k].ext \notin DOMAIN j.found})

\* by_ref: the row a ticket of the file ends in.
ByRef(j, t) == Target(j, LastLine(j.file, t))

IsLinked(j, t) == t \in DOMAIN j.links /\ j.links[t] \in Refs(j.file) \ {t}

(***************************************************************************)
(* The one commit of an import: rows it found are overwritten (what was    *)
(* entered by hand meanwhile included), the others are added.              *)
(***************************************************************************)
Written(j) == {Target(j, i) : i \in DOMAIN j.file}
LineOf(j, id) == Max({i \in DOMAIN j.file : Target(j, i) = id})
RefOf(j, id) == j.file[LineOf(j, id)].ext
IsChild(j, id) == id = ByRef(j, RefOf(j, id)) /\ IsLinked(j, RefOf(j, id))

Copy(j, id, was) ==
  [j.file[LineOf(j, id)] EXCEPT
     !.source = was.source,
     !.parent = IF IsChild(j, id) THEN ByRef(j, j.links[RefOf(j, id)]) ELSE was.parent]

\* What an import makes of a row it writes, found or new.
After(j, id) ==
  IF id \in DOMAIN register
  THEN LET was == j.loaded[RefOf(j, id)] IN Flush(register[id], was, Copy(j, id, was))
  ELSE Copy(j, id, j.file[LineOf(j, id)])

\* Rows that change, rows that had changed since they were read, links that are of this import.
Differ(row, was) == KeyOf(row) # KeyOf(was) \/ row.system # was.system
Changed(new) == {id \in DOMAIN register : Differ(new[id], register[id])}
Raced(j) == {id \in Written(j) \cap DOMAIN register : Differ(register[id], j.loaded[RefOf(j, id)])}
Children(j, new) ==
  {id \in Written(j) : IsChild(j, id) /\ new[id].parent = ByRef(j, j.links[RefOf(j, id)])}

\* The link may be of one record of a ticket, the row or its system of another.
IsTorn(j, id) == {RefOf(j, id), j.links[RefOf(j, id)]} \cap j.torn # {}

ExportCommit(h) ==
  LET j == job[h]
      written == Written(j)
      children == Children(j, register')
      touched == Changed(register')
  IN /\ j # NONE /\ j.kind = "export"
     /\ Len(register) + Cardinality(written \ DOMAIN register) <= MaxRegister
     /\ register' = [id \in DOMAIN register \cup written |->
                       IF id \in written THEN After(j, id) ELSE register[id]]
     /\ job' = [job EXCEPT ![h] = NONE]
     /\ edited' = edited \cup touched
     /\ stated' = (stated \ children) \cup {id \in children : RefOf(j, id) \in j.named}
     /\ moved' = {id \in DOMAIN register' :
                    /\ register'[id].parent # NONE
                    /\ \/ {id, register'[id].parent} \cap Raced(j) # {}
                       \/ id \in children /\ IsTorn(j, id)
                       \/ /\ id \notin children
                          /\ id \in moved \/ {id, register'[id].parent} \cap touched # {}}
     /\ UNCHANGED <<aliases, groups, lag, imports, corrections, excused>>

\* import_incidents: a row is new if no row has its name and moment, nor a line before it.
TableRead(h, table) ==
  LET rows == [i \in DOMAIN table |->
                 [ext |-> NONE, source |-> "import", system |-> NONE, name |-> table[i].name,
                  at |-> table[i].at, resolved |-> table[i].resolved, parent |-> NONE]]
      valid == At(rows, {i \in DOMAIN rows : rows[i].name # NONE /\ rows[i].at # NONE})
      known == {KeyOf(register[i]) : i \in DOMAIN register}
      new == {i \in DOMAIN valid : /\ KeyOf(valid[i]) \notin known
                                   /\ \A k \in 1 .. i - 1 : KeyOf(valid[k]) # KeyOf(valid[i])}
      j == [kind |-> "table", file |-> At(valid, new)]
  IN /\ NotImporting(h)
     /\ job' = [job EXCEPT ![h] = j]
     /\ excused' = excused \cup Overlap(h, j)
     /\ UNCHANGED <<register, aliases, groups, lag, corrections, edited, stated, moved>>

TableCommit(h) ==
  /\ job[h] # NONE /\ job[h].kind = "table"
  /\ Len(register) + Len(job[h].file) <= MaxRegister
  /\ register' = register \o job[h].file
  /\ job' = [job EXCEPT ![h] = NONE]
  /\ UNCHANGED <<aliases, groups, lag, imports, corrections, excused, edited, stated, moved>>

\* The request dies before its commit: nothing of the import is kept.
ImportDie(h) ==
  /\ job[h] # NONE /\ job' = [job EXCEPT ![h] = NONE]
  /\ UNCHANGED <<register, aliases, groups, lag, imports, corrections, excused, edited, stated, moved>>

-----------------------------------------------------------------------------
Edit == corrections < MaxCorrections /\ corrections' = corrections + 1

\* create.
Create(system, at) ==
  LET row == [ext |-> NONE, source |-> "manual", system |-> system, name |-> system,
              at |-> at, resolved |-> FALSE, parent |-> NONE]
  IN /\ Edit /\ Len(register) < MaxRegister
     /\ register' = Append(register, row)
     /\ excused' = excused \cup ({KeyOf(row)} \cap UNION {InHand(job[g]) : g \in Importers})
     /\ UNCHANGED <<aliases, groups, lag, job, imports, edited, stated, moved>>

\* update: the moment of a row (its system and its parent are not in the schema) ...
Update(id, at) ==
  /\ Edit /\ register[id].at # at
  /\ register' = [register EXCEPT ![id].at = at]
  /\ edited' = edited \cup {id}
  /\ moved' = moved \cup {c \in DOMAIN register : register[c].parent # NONE /\ id \in {c, register[c].parent}}
  /\ UNCHANGED <<aliases, groups, lag, job, imports, excused, stated>>

\* ... and resolve, or an update of resolved_at.
SetResolved(id) ==
  /\ Edit
  /\ register' = [register EXCEPT ![id].resolved = ~ @]
  /\ UNCHANGED <<aliases, groups, lag, job, imports, excused, edited, stated, moved>>

\* add_alias: a name is taken once.
AddAlias(ci, system) ==
  /\ Edit /\ aliases[ci] = NONE
  /\ aliases' = [aliases EXCEPT ![ci] = system]
  /\ UNCHANGED <<register, groups, lag, job, imports, excused, edited, stated, moved>>

\* upsert_group_mapping.
MapGroup(group, system) ==
  /\ Edit /\ groups' = [groups EXCEPT ![group] = system]
  /\ UNCHANGED <<register, aliases, lag, job, imports, excused, edited, stated, moved>>

\* save_apm_correction.
Calibrate(l) ==
  /\ Edit /\ lag' = l
  /\ UNCHANGED <<register, aliases, groups, job, imports, excused, edited, stated, moved>>

IncidentsNext ==
  \/ \E h \in Importers :
       \/ \E export \in Exports : ExportRead(h, export)
       \/ \E table \in Tables : TableRead(h, table)
       \/ ExportCommit(h) \/ TableCommit(h) \/ ImportDie(h)
  \/ \E s \in Systems, at \in Times : Create(s, at)
  \/ \E id \in DOMAIN register : SetResolved(id) \/ \E at \in Times : Update(id, at)
  \/ \E s \in Systems : (\E ci \in CIs : AddAlias(ci, s)) \/ (\E g \in Groups : MapGroup(g, s))
  \/ \E l \in Lags : Calibrate(l)

IncidentsSpec == IncidentsInit /\ [][IncidentsNext]_incidentVars

-----------------------------------------------------------------------------
(***************************************************************************)
(* A ticket loaded again is the row it was, and a row of a table loaded    *)
(* again is not added, whatever systems, aliases, groups and clocks have   *)
(* become: two rows of one ticket or one key come only from a file that    *)
(* repeats it, from two imports at once, or (a key) from a row changed     *)
(* later.                                                                  *)
(***************************************************************************)
TicketOnce ==
  \A i, k \in DOMAIN register :
    i < k =>
      /\ register[i].ext # NONE /\ register[i].ext = register[k].ext => register[i].ext \in excused
      /\ register[k].source = "import" /\ KeyOf(register[i]) = KeyOf(register[k]) =>
           (KeyOf(register[i]) \in excused \/ edited \cap {i, k} # {})

(***************************************************************************)
(* Rows the import takes for one failure are of one system, the child      *)
(* within the window of its parent, unless the export itself named the     *)
(* parent, gave one of the two more than once (the system of a row is that *)
(* of the last record, a link that of any) or one of the two has changed   *)
(* since: the link is never taken back.  (Tickets that name neither a CI   *)
(* nor a known group are all of one system: none.)                         *)
(***************************************************************************)
OneFailureOneWindow ==
  \A c \in DOMAIN register :
    register[c].parent # NONE /\ c \notin stated \cup moved =>
      LET p == register[register[c].parent]
      IN p.system = register[c].system /\ register[c].at - p.at \in 0 .. WINDOW

=============================================================================
