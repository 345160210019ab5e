----------------------------- MODULE MCOverlaps -----------------------------
(***************************************************************************)
(* The instance for TLC of what overlapping requests share: Sessions,      *)
(* Throttle, Permissions, the signatures of a nonconformity                *)
(* (MCNonconformity, two handlers at once) and the register of incidents   *)
(* with its imports (Incidents), the money of its rows (FailureCosts); and *)
(* of overlapping deployments (Migrations).  They share no variable, so a  *)
(* behaviour is of one of them, chosen in the initial state (overlap),     *)
(* while the others stay as they began: TLC explores the sum of the state  *)
(* spaces and not their product.                                           *)
(***************************************************************************)
EXTENDS MCNonconformity, Sessions, Throttle, Permissions, Incidents, Migrations, Revisions, FailureCosts

CONSTANTS
  Overlaps,                       \* which of them a run explores
  s1, s2, junior, senior,         \* requests and roles of Sessions
  a1, a2, home, office,           \* attempts and addresses of Throttle
  manager, analyst, edit, view, security, web, celery,
  t1, t2, t3, core, bank, cft, support, importer1, importer2,  \* of Incidents
  o1, o2, desk1, desk2, abs, payments, L1, L2                  \* of FailureCosts

VARIABLE overlap

overlapVars == <<overlap, vars, sessionVars, throttleVars, permissionVars, incidentVars,
                migrationVars, costVars>>

MCHandlers == {s1, s2}
MCRoles == {junior, senior}
MCAttempts == {a1, a2}
MCAddresses == {home, office}
MCEditableRoles == {manager, analyst}
MCCatalogue == {edit, view, security}
MCProtected == {security}
MCDefaults == [r \in MCEditableRoles |-> IF r = manager THEN {edit, view} ELSE {view}]
MCProcesses == {web, celery}

-----------------------------------------------------------------------------
\* Incidents: one system, known by the name of a CI, by an alias or by a group.
MCTickets == {t1, t2, t3}
MCSystems == {core}
MCCIs == {bank, cft}
MCGroups == {support}
MCSystemNamed == [c \in MCCIs |-> IF c = bank THEN core ELSE NONE]
MCImporters == {importer1, importer2}

Ticket(ext, ci, group, at, resolved, parent) ==
  [ext |-> ext, ci |-> ci, group |-> group, at |-> at, resolved |-> resolved, parent |-> parent]

(***************************************************************************)
(* Three tickets of one failure, one after another; two of the same again, *)
(* closed, at one moment, with a line that has no number and one of        *)
(* another CI whose moment cannot be read; two whose system is not known   *)
(* yet, one naming the other its parent; a file that repeats a ticket,     *)
(* which has a system and another moment the second time.                  *)
(***************************************************************************)
MCExports ==
  { <<Ticket(t1, bank, NONE, 0, FALSE, NONE), Ticket(t2, bank, support, 1, FALSE, NONE),
      Ticket(t3, bank, NONE, 2, TRUE, NONE)>>,
    <<Ticket(t2, bank, NONE, 1, TRUE, NONE), Ticket(t1, bank, NONE, 1, FALSE, NONE),
      Ticket(NONE, bank, NONE, 1, FALSE, NONE), Ticket(t1, cft, NONE, NONE, FALSE, NONE)>>,
    <<Ticket(t1, cft, support, 0, FALSE, NONE), Ticket(t2, NONE, support, 0, FALSE, t1)>>,
    <<Ticket(t2, cft, NONE, 0, FALSE, NONE), Ticket(t3, cft, NONE, 1, FALSE, NONE),
      Ticket(t3, bank, support, 2, TRUE, NONE)>> }

\* A table that repeats a row, and has one without a system.
MCTables ==
  { <<[name |-> core, at |-> 1, resolved |-> FALSE], [name |-> core, at |-> 1, resolved |-> TRUE],
      [name |-> NONE, at |-> 0, resolved |-> FALSE]>> }

-----------------------------------------------------------------------------
(***************************************************************************)
(* Migrations: the chain as it is, of each revision the tables it creates, *)
(* those it adds to, and the tables these refer to.                        *)
(***************************************************************************)
Outline(v) ==
  [creates |-> DOMAIN v.creates, adds |-> DOMAIN v.adds,
   refers |-> {<<x[1], x[3]>> : x \in v.refers}, checks |-> v.checks]

Outlines ==
  <<Outline(R001), Outline(R002), Outline(R003), Outline(R004), Outline(R005), Outline(R006),
    Outline(R007), Outline(R008), Outline(R009), Outline(R010), Outline(R011), Outline(R012),
    Outline(R013), Outline(R014), Outline(R015), Outline(R016), Outline(R017), Outline(R018),
    Outline(R019), Outline(R020), Outline(R021), Outline(R022), Outline(R023), Outline(R024),
    Outline(R025), Outline(R026), Outline(R027)>>

MCChain == Outlines

\* The last image of the chain, and the one that began with migrations: a stand of that
\* one had its tables from create_all, those of 013 among them.
MCImages == {12, 27}
ImageModels == [i \in MCImages |-> Upto(IF i = 12 THEN 13 ELSE i)]
MCModels == ImageModels
MCTargets == {11, 26}

Classes == INSTANCE OrmModels

ColumnsOf(tables) == UNION {{<<t, c>> : c \in tables[t]} : t \in DOMAIN tables}

(***************************************************************************)
(* The columns the application's classes name are those the whole chain    *)
(* makes, one by one, but for one no revision makes: updated_at, which     *)
(* ExpertJudgmentHistory has from TimestampMixin.                          *)
(***************************************************************************)
Unmigrated == {<<"expert_judgment_history", "updated_at">>}

ASSUME ClassesAgree ==
  ColumnsOf(Classes!Metadata) =
    Unmigrated \cup UNION {ColumnsOf(Versions[n].creates) \cup ColumnsOf(Versions[n].adds) :
                          n \in 1 .. Len(Versions)}

-----------------------------------------------------------------------------
(***************************************************************************)
(* FailureCosts: an evening and the day off after it, which is of another  *)
(* month; a rate of the vendor for anyone, with a package of an hour, and  *)
(* one of the system's own team; an hour of the vendor is its quantum.     *)
(***************************************************************************)
MCOutages == {o1, o2}
MCDesks == {desk1, desk2}
MCLines == {L1, L2}
MCMoments == {0, 60, 120}
MCCalendar ==
  [t \in MCMoments |-> [month |-> IF t = 120 THEN 2 ELSE 1, off |-> t = 120, hour |-> IF t = 0 THEN 19 ELSE 21]]

OutageOf(system, at, resolved) == [system |-> system, name |-> abs, at |-> at, resolved |-> resolved]
MCReports == {OutageOf(abs, 0, NONE), OutageOf(abs, 60, NONE), OutageOf(NONE, 0, 60)}
MCExportLines ==
  { [system |-> abs, name |-> abs, at |-> 0, resolved |-> 60,
     labor |-> [l \in MCLines |-> IF l = L1 THEN 90 ELSE NONE]],
    [system |-> abs, name |-> abs, at |-> 60, resolved |-> NONE, labor |-> NONE] }

\* Half an hour of the vendor's; the line is not the vendor's after all; answers four times
\* slower for twenty minutes, and an hour and a half of the vendor's.
MCForms ==
  { [labor |-> [l \in {L1} |-> 30], vendor |-> {L1}], [vendor |-> {}],
    [type |-> "DEGRADATION", inputs |-> [kind |-> "PERFORMANCE", ratio |-> 4], minutes |-> 20,
     labor |-> [l \in {L1} |-> 90], vendor |-> {L1}] }

Tariff(system, executor, perHour, package, overlimit) ==
  [line |-> L1, system |-> system, executor |-> executor, perHour |-> perHour, evening |-> 150,
   weekend |-> 200, quantum |-> 60, package |-> package, overlimit |-> overlimit]
MCTariffs == {Tariff(NONE, "VENDOR", 1, 60, 3), Tariff(abs, "INTERNAL", 2, NONE, NONE)}
MCServices == {[system |-> abs, process |-> payments, share |-> 50, k |-> NONE]}
MCCardForms ==
  { [method |-> "EXPERT", params |-> [method |-> "EXPERT", low |-> 1, high |-> 3],
     base |-> NONE, profile |-> NONE] }
MCThresholds == {[k |-> 50, minutes |-> 15], [k |-> 70, minutes |-> 15]}

-----------------------------------------------------------------------------
\* The handlers are not told apart; nor are the roles, so the first is the one to begin with.
MCSymmetry == Permutations(MCHandlers)

OverlapsInit ==
  /\ overlap \in Overlaps /\ Init /\ SessionsInit /\ ThrottleInit /\ PermissionsInit /\ IncidentsInit
  /\ MigrationsInit /\ FailureCostsInit
  /\ user.role = junior
  /\ overlap # "throttle" => \A a \in Attempts : attempt[a].ip = home
  /\ overlap # "migrations" => image = CHOOSE i \in Images : TRUE
  /\ overlap # "closure" => nc = NewRow(outsider, "MAJOR", FALSE)
  /\ tariffs = Tariffs
  /\ threshold = CHOOSE th \in Thresholds : TRUE
  /\ overlap # "costs" => services = {}

OverlapsNext ==
  /\ UNCHANGED overlap
  /\ \/ overlap = "closure" /\ Next
        /\ UNCHANGED <<sessionVars, throttleVars, permissionVars, incidentVars, migrationVars, costVars>>
     \/ overlap = "sessions" /\ SessionsNext
        /\ UNCHANGED <<vars, throttleVars, permissionVars, incidentVars, migrationVars, costVars>>
     \/ overlap = "throttle" /\ ThrottleNext
        /\ UNCHANGED <<vars, sessionVars, permissionVars, incidentVars, migrationVars, costVars>>
     \/ overlap = "permissions" /\ PermissionsNext
        /\ UNCHANGED <<vars, sessionVars, throttleVars, incidentVars, migrationVars, costVars>>
     \/ overlap = "incidents" /\ IncidentsNext
        /\ UNCHANGED <<vars, sessionVars, throttleVars, permissionVars, migrationVars, costVars>>
     \/ overlap = "migrations" /\ MigrationsNext
        /\ UNCHANGED <<vars, sessionVars, throttleVars, permissionVars, incidentVars, costVars>>
     \/ overlap = "costs" /\ FailureCostsNext
        /\ UNCHANGED <<vars, sessionVars, throttleVars, permissionVars, incidentVars, migrationVars>>

OverlapsSpec == OverlapsInit /\ [][OverlapsNext]_overlapVars

\* The type invariant of what the behaviour is of (the others do not move).
OverlapsTypeOK ==
  /\ overlap = "closure" => TypeOK
  /\ overlap = "sessions" => SessionsTypeOK
  /\ overlap = "throttle" => ThrottleTypeOK
  /\ overlap = "permissions" => PermissionsTypeOK
  /\ overlap = "incidents" => IncidentsTypeOK
  /\ overlap = "migrations" => MigrationsTypeOK

=============================================================================
