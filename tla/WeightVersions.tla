--------------------------- MODULE WeightVersions ---------------------------
(***************************************************************************)
(* The versions of the weights of the quality model                        *)
(* (quality/weight_versions.py).  A version is never changed: an edit of   *)
(* one profile, or a publication of the weights in the code, takes the     *)
(* active version, puts it out and adds another.  Whoever reads the        *)
(* weights asks for the one active version (scalar_one_or_none: two of     *)
(* them are an error, and no request gets past it).                        *)
(***************************************************************************)
EXTENDS Absent, Integers, Sequences

CONSTANTS
  Profiles,        \* CRITICALITY_PROFILES
  Weights,         \* the weights one profile may have (valid ones: the router refuses the others)
  FromCode,        \* current_char_snapshot and current_subchar_snapshot
  LEGACY,          \* a version written before profiles: it cannot be read
  Callers,
  MaxVersions, MaxSnapshots    \* bounds

Content == [Profiles -> Weights]

ASSUME WeightsAssumption ==
  /\ FromCode \in Content /\ LEGACY \notin Content
  /\ MaxVersions \in Nat /\ MaxSnapshots \in Nat

VARIABLES
  versions,    \* the contents of weight_set_versions, oldest first
  active,      \* those with is_active
  snapshots,   \* score_history_snapshots: the version of each recount of the history
  journal,     \* versions whose saving is in the security journal; 0 stands for a recount
  request,
  word         \* history: the weights as the edits and publications committed so far, in turn, have left them

weightVars == <<versions, active, snapshots, journal, request, word>>

Ids == 1 .. Len(versions)

Call ==
  [kind : {"read", "save", "recompute"}, edit : (Profiles \X Weights) \cup {NONE},
   at : {"publish", "write", "edit", "score", "journal"}, old : Nat]

WeightsTypeOK ==
  /\ versions \in Seq(Content \cup {LEGACY})
  /\ active \subseteq Ids
  /\ snapshots \in Seq(Ids) /\ journal \subseteq Ids \cup {0}
  /\ request \in [Callers -> Call \cup {NONE}]
  /\ word \in Content \cup {LEGACY, NONE}
  /\ \A w \in Callers :
       request[w] # NONE =>
         /\ request[w].at \in {"edit", "score", "journal"} => request[w].old \in Ids
         /\ request[w].at = "edit" => request[w].kind = "save" /\ versions[request[w].old] \in Content
         /\ request[w].kind = "save" => request[w].edit \in Profiles \X Weights

\* The table is empty, or holds what the version before profiles left in it.
WeightsInit ==
  /\ \/ versions = <<>> /\ active = {} /\ word = NONE
     \/ versions = <<LEGACY>> /\ active = {1} /\ word = LEGACY
  /\ snapshots = <<>> /\ journal = {}
  /\ request = [w \in Callers |-> NONE]

-----------------------------------------------------------------------------
\* get_active_version: none (0), or the one there is.
ActiveIs(v) == \/ active = {} /\ v = 0
               \/ active = {v}

\* ensure_active_version: a version that can be read is taken as it is.
ReadableVersion(v) == v # 0 /\ versions[v] # LEGACY

\* recompute_and_snapshot, apply: the active version must be what is in the code.
SameContent(v) == v # 0 /\ versions[v] = FromCode

(***************************************************************************)
(* A request asks for the active version.  A reader (a screen, a score, a  *)
(* preview, a recount that is not applied) that finds one is done at once  *)
(* and is no step here; a recount that is not applied publishes nothing.   *)
(***************************************************************************)
Ask(w, kind, edit) ==
  /\ request[w] = NONE
  /\ \E v \in Ids \cup {0} :
       LET fit == IF kind = "recompute" THEN SameContent(v) ELSE ReadableVersion(v)
           at == IF ~ fit THEN "publish" ELSE IF kind = "save" THEN "edit" ELSE "score"
       IN /\ ActiveIs(v)
          /\ ~ (kind = "read" /\ fit)
          /\ request' = [request EXCEPT ![w] =
               [kind |-> kind, edit |-> edit, at |-> at, old |-> v]]
  /\ UNCHANGED <<versions, active, snapshots, journal, word>>

\* _publish_version_from_code asks again: what it finds is what it will put out.
PublishAsk(w) ==
  /\ request[w] # NONE /\ request[w].at = "publish"
  /\ \E v \in Ids \cup {0} :
       /\ ActiveIs(v)
       /\ request' = [request EXCEPT ![w].at = "write", ![w].old = v]
  /\ UNCHANGED <<versions, active, snapshots, journal, word>>

\* One commit: the old version out, a new one in.
Replace(old, content) ==
  /\ Len(versions) < MaxVersions
  /\ versions' = Append(versions, content)
  /\ active' = (active \ {old}) \cup {Len(versions) + 1}

\* The publication is committed, and the request goes on with the version it has published.
PublishWrite(w) ==
  LET r == request[w]
      next == IF r.kind = "save" THEN "edit" ELSE "score"
  IN /\ r # NONE /\ r.at = "write"
     /\ Replace(r.old, FromCode)
     /\ word' = FromCode
     /\ request' = [request EXCEPT ![w] =
          IF r.kind = "read" THEN NONE ELSE [r EXCEPT !.at = next, !.old = Len(versions) + 1]]
     /\ UNCHANGED <<snapshots, journal>>

\* Mutant: the other profiles are taken from the code and not from the active version.
MergedSnapshotFromCode(v, p, x) == [FromCode EXCEPT ![p] = x]

\* _merged_snapshot: one profile replaced, the others as the version has them.
MergedSnapshot(v, p, x) == [versions[v] EXCEPT ![p] = x]

\* save_weight_edit, of the version it has read.
SaveWrite(w) ==
  LET r == request[w]
  IN /\ r # NONE /\ r.at = "edit"
     /\ Replace(r.old, MergedSnapshot(r.old, r.edit[1], r.edit[2]))
     /\ word' = [word EXCEPT ![r.edit[1]] = r.edit[2]]
     /\ request' = [request EXCEPT ![w].at = "journal", ![w].old = Len(versions) + 1]
     /\ UNCHANGED <<snapshots, journal>>

\* The recount: one row for every system and period, under the version it began with.
ScoreWrite(w) ==
  /\ request[w] # NONE /\ request[w].at = "score"
  /\ Len(snapshots) < MaxSnapshots /\ snapshots' = Append(snapshots, request[w].old)
  /\ request' = [request EXCEPT ![w].at = "journal"]
  /\ UNCHANGED <<versions, active, journal, word>>

\* audit.record has a commit of its own.
Journal(w) ==
  /\ request[w] # NONE /\ request[w].at = "journal"
  /\ journal' = journal \cup {IF request[w].kind = "save" THEN request[w].old ELSE 0}
  /\ request' = [request EXCEPT ![w] = NONE]
  /\ UNCHANGED <<versions, active, snapshots, word>>

\* A request ends where it is: by itself (two active versions are an error) or with the process.
RequestDies(w) ==
  /\ request[w] # NONE /\ request' = [request EXCEPT ![w] = NONE]
  /\ UNCHANGED <<versions, active, snapshots, journal, word>>

WeightsNext ==
  \E w \in Callers :
    \/ Ask(w, "read", NONE) \/ Ask(w, "recompute", NONE)
    \/ \E edit \in Profiles \X Weights : Ask(w, "save", edit)
    \/ PublishAsk(w) \/ PublishWrite(w) \/ SaveWrite(w) \/ ScoreWrite(w) \/ Journal(w)
    \/ RequestDies(w)

WeightsSpec == WeightsInit /\ [][WeightsNext]_weightVars

-----------------------------------------------------------------------------
(***************************************************************************)
(* No edit is lost unseen.  Edits that crossed leave two versions active,  *)
(* and two never become one again; so while one is active it holds every   *)
(* edit of every profile, and it is the active version that is never       *)
(* missing once there was one.                                             *)
(***************************************************************************)
LastWord ==
  /\ versions # <<>> => active # {}
  /\ \A v \in Ids : active = {v} => versions[v] = word

(***************************************************************************)
(* "Exactly one row with is_active=True at any moment: the service keeps   *)
(* the invariant" (quality/models.py, WeightSetVersion).                   *)
(***************************************************************************)
ExactlyOneActive == versions # <<>> => \E v \in Ids : active = {v}

=============================================================================
