----------------------------- MODULE Migrations -----------------------------
(***************************************************************************)
(* How the schema of the base follows the code that is deployed:           *)
(* backend/app/scripts/migrate.py, which the backend's container runs      *)
(* before it serves (docker-compose.yml), `alembic upgrade head`, which    *)
(* the pipeline runs in the same container (.gitlab-ci.yml), the           *)
(* downgrades, and backend/app/scripts/init_db.py.                         *)
(*                                                                         *)
(* The schema is a set of parts: <<t, n>> is what revision n makes of      *)
(* table t, be it the table or columns of it.  A run of alembic reads the  *)
(* version the base has, carries out the revisions after it in one         *)
(* transaction (env.py), and commits only if nobody has changed the        *)
(* version meanwhile: its UPDATE of alembic_version names the version it   *)
(* read.  PostgreSQL's DDL is transactional, so what a run does not commit *)
(* it did not do.                                                          *)
(***************************************************************************)
EXTENDS Absent, Integers, Sequences

CONSTANTS
  Chain,      \* the revisions, in their order: [creates, adds, refers, checks]
  Images,     \* the code that may be deployed, by the revision it ends with
  Models,     \* of an image: the parts its models name
  Targets     \* the revisions a downgrade goes to

Newest == Len(Chain)

\* What the revisions make, of a table they create or add columns to.
AllParts ==
  UNION {{<<t, n>> : t \in Chain[n].creates \cup Chain[n].adds} : n \in 1 .. Newest}

\* The schema the chain makes of an empty base, revision by revision.
Upto(n) == {p \in AllParts : p[2] <= n}

\* The tables the revisions after one, up to another, create.
CreatedAfter(from, to) == UNION {Chain[n].creates : n \in (from + 1) .. to}

\* The tables a revision needs: those it widens and those it refers to.
Needs(n) == Chain[n].adds \cup ({x[2] : x \in Chain[n].refers} \ Chain[n].creates)

\* The revisions that do not check what is there.
Unchecked == {n \in 1 .. Newest : ~Chain[n].checks}

\* Each part that refers to a table, and the table.
Refers == UNION {{<<<<x[1], n>>, x[2]>> : x \in Chain[n].refers} : n \in 1 .. Newest}

TablesOf(parts) == {p[1] : p \in parts}

(***************************************************************************)
(* A table is created once; what a revision needs an earlier one has       *)
(* created.                                                                *)
(***************************************************************************)
ASSUME ChainAssumption ==
  /\ Newest \in Nat
  /\ \A n \in 1 .. Newest : Chain[n].creates \cap CreatedAfter(0, n - 1) = {}
  /\ \A n \in 1 .. Newest : Needs(n) \subseteq CreatedAfter(0, n - 1)

\* With a part of a table the parts have the table.
Whole(parts) ==
  \A p \in parts, n \in 1 .. Newest : p[1] \in Chain[n].creates => <<p[1], n>> \in parts

ASSUME ImagesAssumption ==
  /\ Images \subseteq 1 .. Newest /\ Targets \subseteq 0 .. Newest /\ NONE \notin Nat
  /\ \A i \in Images : Models[i] \subseteq AllParts /\ Whole(Models[i])

VARIABLES
  schema,      \* the parts in the base
  revision,    \* alembic_version: NONE, 0 when it is empty, or a revision
  image,       \* the image that is deployed
  container,   \* "down", "migrating", or "serving"
  alembic,     \* of the container's run and of the pipeline's: where it is
  made,        \* history: what create_all has made, whenever that was
  behind,      \* history: what a stamp took for present that was not
  taken_back   \* history: a downgrade came after the container's last start

migrationVars == <<schema, revision, image, container, alembic, made, behind, taken_back>>

Runs == {"start", "pipeline"}

MigrationsTypeOK ==
  /\ schema \subseteq AllParts /\ made \subseteq AllParts /\ behind \subseteq AllParts
  /\ revision \in 0 .. Newest \cup {NONE} /\ image \in Images
  /\ container \in {"down", "migrating", "serving"}
  /\ alembic \in [Runs -> [at : {"off", "looked", "open"}, plan : {"upgrade", "stamp"},
                           from : 0 .. Newest]]
  /\ taken_back \in BOOLEAN

\* The version a run reads; an empty alembic_version is as none.
AtHand == IF revision = NONE THEN 0 ELSE revision

-----------------------------------------------------------------------------
Off == [at |-> "off", plan |-> "upgrade", from |-> 0]

\* The base begins without a table: what it has it got from create_all or the chain.
MigrationsInit ==
  /\ schema = {} /\ revision = NONE /\ made = {} /\ behind = {}
  /\ image \in Images /\ container = "down"
  /\ alembic = [r \in Runs |-> Off]
  /\ taken_back = FALSE

\* An image takes the place of another; what runs in the container dies with it.
Deploy(i) ==
  /\ i # image
  /\ image' = i /\ container' = "down" /\ alembic' = [r \in Runs |-> Off]
  /\ UNCHANGED <<schema, revision, made, behind, taken_back>>

\* The container dies, at any moment; a run that has not committed has done nothing.
ContainerDie ==
  /\ container # "down"
  /\ container' = "down" /\ alembic' = [r \in Runs |-> Off]
  /\ UNCHANGED <<schema, revision, image, made, behind, taken_back>>

(***************************************************************************)
(* migrate.py looks at the names of the tables: without alembic_version, a *)
(* base with tables is stamped and not upgraded.                           *)
(***************************************************************************)
ContainerStart ==
  /\ container = "down"
  /\ container' = "migrating" /\ taken_back' = FALSE
  /\ alembic' = [alembic EXCEPT !["start"] =
       [at |-> "looked", from |-> 0,
        plan |-> IF revision = NONE /\ schema # {} THEN "stamp" ELSE "upgrade"]]
  /\ UNCHANGED <<schema, revision, image, made, behind>>

\* The pipeline's own run, which looks at nothing first.
PipelineExec ==
  /\ container # "down" /\ alembic["pipeline"].at = "off"
  /\ alembic' = [alembic EXCEPT !["pipeline"] =
       [at |-> "looked", from |-> 0, plan |-> "upgrade"]]
  /\ UNCHANGED <<schema, revision, image, container, made, behind, taken_back>>

\* A run begins its transaction and reads the version.
Open(r) ==
  /\ alembic[r].at = "looked"
  /\ alembic' = [alembic EXCEPT ![r].at = "open", ![r].from = AtHand]
  /\ UNCHANGED <<schema, revision, image, container, made, behind, taken_back>>

-----------------------------------------------------------------------------
(***************************************************************************)
(* The revisions after one can be carried out: each table one needs is     *)
(* there or is created on the way, and one that does not check finds       *)
(* nothing of what it makes.                                               *)
(***************************************************************************)
Fits(from) ==
  LET there == TablesOf(schema)
      come  == CreatedAfter(from, image)
      todo  == (from + 1) .. image
  IN /\ \A n \in todo : Needs(n) \subseteq there \cup come
     /\ \A n \in todo \cap Unchecked :
          Chain[n].creates \cap there = {} /\ \A t \in Chain[n].adds : <<t, n>> \notin schema

\* The schema after them: a table that is there is left as it is.
Upgraded(from) ==
  LET there == TablesOf(schema)
      todo  == (from + 1) .. image
  IN schema
       \cup UNION {{<<t, n>> : t \in Chain[n].adds \cup (Chain[n].creates \ there)} : n \in todo}

\* The image's chain has nothing after the version the run read.
UpToDate(r) == alembic[r].from = image

\* The image's chain knows the version, which is still the one the run read.
Passes(r) ==
  /\ alembic[r].from < image /\ alembic[r].from = AtHand
  /\ alembic[r].plan = "upgrade" => Fits(alembic[r].from)

\* What follows a run that passed: the container serves, the pipeline goes on.
Passed(r) ==
  /\ alembic' = [alembic EXCEPT ![r] = Off]
  /\ container' = IF r = "start" THEN "serving" ELSE container

\* A run that finds the base at the end of its chain changes nothing.
NothingToDo(r) ==
  /\ alembic[r].at = "open" /\ UpToDate(r) /\ Passed(r)
  /\ UNCHANGED <<schema, revision, image, made, behind, taken_back>>

\* command.upgrade(cfg, "head"): all the revisions, and the version, at once.
Upgrade(r) ==
  /\ alembic[r].at = "open" /\ alembic[r].plan = "upgrade" /\ Passes(r) /\ Passed(r)
  /\ schema' = Upgraded(alembic[r].from) /\ revision' = image
  /\ UNCHANGED <<image, made, behind, taken_back>>

\* command.stamp(cfg, "head"): the version without the revisions.
Stamp(r) ==
  /\ alembic[r].at = "open" /\ alembic[r].plan = "stamp" /\ Passes(r) /\ Passed(r)
  /\ revision' = image /\ behind' = behind \cup (Upto(image) \ schema)
  /\ UNCHANGED <<schema, image, made, taken_back>>

\* Mutant: the container's command goes on to serve, whatever migrate.py returns.
RefusedServes(r) ==
  /\ alembic[r].at = "open" /\ ~UpToDate(r) /\ ~Passes(r) /\ Passed(r)
  /\ UNCHANGED <<schema, revision, image, made, behind, taken_back>>

\* The run raises: nothing is committed, and the container's command ends with it.
Refused(r) ==
  /\ alembic[r].at = "open" /\ ~UpToDate(r) /\ ~Passes(r)
  /\ IF r = "start"
     THEN container' = "down" /\ alembic' = [s \in Runs |-> Off]
     ELSE container' = container /\ alembic' = [alembic EXCEPT ![r] = Off]
  /\ UNCHANGED <<schema, revision, image, made, behind, taken_back>>

-----------------------------------------------------------------------------
\* init_db.py, by hand: the tables of the image's models that are not there.
CreateAll ==
  LET there == TablesOf(schema)
      new   == {p \in Models[image] : p[1] \notin there}
  IN /\ new # {}
     /\ schema' = schema \cup new /\ made' = made \cup new
     /\ UNCHANGED <<revision, image, container, alembic, behind, taken_back>>

\* Mutant: the tables are dropped, the columns added to others forgotten.
WithoutTables(from, to) ==
  LET dropped == CreatedAfter(from, to)
  IN {p \in schema : p[1] \notin dropped}

\* What is left when the revisions after one, up to another, are taken back.
Without(from, to) ==
  LET dropped == CreatedAfter(from, to)
  IN {p \in schema : p[1] \notin dropped /\ p[2] \notin (from + 1) .. to}

(***************************************************************************)
(* `alembic downgrade k`, in the container: one transaction of the         *)
(* revisions' downgrade().  Those that do not check fail when something of *)
(* theirs is not there, and no table is dropped that a part left in the    *)
(* base refers to.                                                         *)
(***************************************************************************)
Downgrade(k) ==
  /\ container # "down" /\ revision # NONE /\ k < revision /\ revision <= image
  /\ \A p \in AllParts : p[2] \in (k + 1) .. revision \cap Unchecked => p \in schema
  /\ LET rest  == Without(k, revision)
         there == TablesOf(rest)
     IN /\ \A x \in Refers : x[1] \in rest => x[2] \in there
        /\ schema' = rest
  /\ revision' = k /\ taken_back' = TRUE
  /\ UNCHANGED <<image, container, alembic, made, behind>>

MigrationsNext ==
  \/ \E i \in Images : Deploy(i)
  \/ \E k \in Targets : Downgrade(k)
  \/ \E r \in Runs : Open(r) \/ NothingToDo(r) \/ Upgrade(r) \/ Stamp(r) \/ Refused(r)
  \/ ContainerDie \/ ContainerStart \/ PipelineExec \/ CreateAll

MigrationsSpec == MigrationsInit /\ [][MigrationsNext]_migrationVars

-----------------------------------------------------------------------------
\* What alembic_version says is in the base.
Version == IF revision = NONE THEN {} ELSE Upto(revision)

(***************************************************************************)
(* The base is what its version says, whatever ran beside what, died or    *)
(* was taken back: all the chain makes up to that version except what a    *)
(* stamp took for present, and nothing more except what create_all made.   *)
(***************************************************************************)
SchemaOfItsVersion ==
  /\ Version \ behind \subseteq schema
  /\ schema \subseteq Version \cup made

\* What an image's models name and no revision of its chain makes.
Orphans(i) == Models[i] \ Upto(i)

(***************************************************************************)
(* The code that serves finds the base at the end of its own chain, with   *)
(* every part its models name, except those no revision makes and those a  *)
(* stamp took for present: unless somebody took a revision back under it.  *)
(***************************************************************************)
ServedWhole ==
  container = "serving" /\ ~taken_back =>
    /\ revision = image
    /\ Models[image] \ (Orphans(image) \cup behind) \subseteq schema

=============================================================================
