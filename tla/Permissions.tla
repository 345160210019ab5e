----------------------------- MODULE Permissions -----------------------------
(***************************************************************************)
(* The matrix of roles and permissions (iam/permissions_service.py): rows  *)
(* of role_permissions, and the copy every process keeps of them (the web  *)
(* server, the Celery worker).  A process drops its copy when it has       *)
(* changed the matrix itself; at its next start the web server adds what   *)
(* it takes for new.                                                       *)
(***************************************************************************)
EXTENDS Absent, Naturals

CONSTANTS
  EditableRoles,     \* the roles whose rows are in the table
  Catalogue,         \* ALL_PERMISSION_KEYS
  Protected,         \* PROTECTED_SUPERADMIN_PERMISSIONS
  Defaults,          \* DEFAULT_ROLE_PERMISSIONS
  Processes,
  Server,            \* the process that serves users and seeds the matrix when it starts
  MaxSaves,          \* bound: changes of the matrix
  MaxStarts          \* bound: restarts of the server

ASSUME CatalogueAssumption ==
  /\ Protected \subseteq Catalogue /\ Server \in Processes
  /\ Defaults \in [EditableRoles -> SUBSET (Catalogue \ Protected)]
  /\ MaxSaves \in Nat /\ MaxStarts \in Nat

Matrix == [EditableRoles -> SUBSET Catalogue]

VARIABLES
  matrix,   \* the rows, committed
  cache,    \* _CACHE of each process, NONE when not loaded
  load,     \* the rows a process has read and not yet published
  saving,   \* the change the server is making: none, committed and not yet invalidated
  saves, starts,
  chosen,   \* history: the rows an administrator has saved for a role, NONE before
  missed    \* history: processes whose copy is older than a change they could not see:
            \* made by another process, or while their rows were being read

permissionVars == <<matrix, cache, load, saving, saves, starts, chosen, missed>>

PermissionsTypeOK ==
  /\ matrix \in Matrix
  /\ cache \in [Processes -> Matrix \cup {NONE}] /\ load \in [Processes -> Matrix \cup {NONE}]
  /\ saving \in BOOLEAN
  /\ saves \in 0 .. MaxSaves /\ starts \in 0 .. MaxStarts
  /\ chosen \in [EditableRoles -> (SUBSET Catalogue) \cup {NONE}]
  /\ missed \subseteq Processes

PermissionsInit ==
  /\ matrix = Defaults
  /\ cache = [p \in Processes |-> NONE] /\ load = [p \in Processes |-> NONE]
  /\ saving = FALSE
  /\ saves = 0 /\ starts = 0
  /\ chosen = [r \in EditableRoles |-> NONE]
  /\ missed = {}

-----------------------------------------------------------------------------
\* _ensure_loaded: the rows are read ...
LoadRead(p) ==
  /\ cache[p] = NONE /\ load[p] = NONE
  /\ load' = [load EXCEPT ![p] = matrix]
  /\ UNCHANGED <<matrix, cache, saving, saves, starts, chosen, missed>>

\* ... and published as a whole.
LoadPublish(p) ==
  /\ load[p] # NONE
  /\ cache' = [cache EXCEPT ![p] = load[p]] /\ load' = [load EXCEPT ![p] = NONE]
  /\ missed' = IF load[p] = matrix THEN missed \ {p} ELSE missed \cup {p}
  /\ UNCHANGED <<matrix, saving, saves, starts, chosen>>

\* get_role_permissions: what a process answers for a role of the table.
Granted(p, role) == cache[p][role]

(***************************************************************************)
(* set_role_permissions replaces the rows of a role in one transaction;    *)
(* protected permissions are left out of what was asked for.               *)
(***************************************************************************)
Save(role, asked) ==
  /\ ~ saving /\ saves < MaxSaves
  /\ saves' = saves + 1 /\ saving' = TRUE
  /\ matrix' = [matrix EXCEPT ![role] = asked \ Protected]
  /\ chosen' = [chosen EXCEPT ![role] = asked \ Protected]
  /\ missed' = missed \cup {p \in Processes \ {Server} : cache[p] # NONE}
  /\ UNCHANGED <<cache, load, starts>>

\* Mutant: the copy is dropped before the commit, so there is nothing left to do after it.
InvalidateEarly ==
  /\ saving /\ saving' = FALSE
  /\ UNCHANGED <<matrix, cache, load, saves, starts, chosen, missed>>

\* _invalidate, in the process that made the change.
Invalidate ==
  /\ saving /\ saving' = FALSE
  /\ cache' = [cache EXCEPT ![Server] = NONE]
  /\ missed' = missed \ {Server}
  /\ UNCHANGED <<matrix, load, saves, starts, chosen>>

-----------------------------------------------------------------------------
Known == UNION {matrix[r] : r \in EditableRoles}

(***************************************************************************)
(* seed_rbac_defaults: everything into an empty table; otherwise all       *)
(* defaults for a role without rows, and for the others those no role has. *)
(***************************************************************************)
Seeded ==
  [r \in EditableRoles |->
     IF Known = {} \/ matrix[r] = {} THEN matrix[r] \cup Defaults[r]
     ELSE matrix[r] \cup (Defaults[r] \ Known)]

\* The server stops, whatever it is doing, and starts again.
Restart ==
  /\ starts < MaxStarts /\ starts' = starts + 1
  /\ matrix' = Seeded
  /\ cache' = [cache EXCEPT ![Server] = NONE] /\ load' = [load EXCEPT ![Server] = NONE]
  /\ saving' = FALSE
  /\ missed' = (missed \ {Server}) \cup
               {p \in Processes \ {Server} : cache[p] # NONE /\ Seeded # matrix}
  /\ UNCHANGED <<saves, chosen>>

PermissionsNext ==
  \/ \E p \in Processes : LoadRead(p) \/ LoadPublish(p)
  \/ \E role \in EditableRoles, asked \in SUBSET Catalogue : Save(role, asked)
  \/ Invalidate \/ Restart

PermissionsSpec == PermissionsInit /\ [][PermissionsNext]_permissionVars

-----------------------------------------------------------------------------
(***************************************************************************)
(* A process answers from an old matrix only if the change was another     *)
(* process's, or was committed while the rows were being read; the server  *)
(* sees its own changes as soon as the request that made them has ended.   *)
(***************************************************************************)
OwnChangesSeen ==
  \A p \in Processes :
    cache[p] # NONE /\ cache[p] # matrix => p \in missed \/ (p = Server /\ saving)

(***************************************************************************)
(* What an administrator has saved for a role stays until the next save:   *)
(* a restart adds nothing to it.                                           *)
(***************************************************************************)
ChoiceKept == \A r \in EditableRoles : chosen[r] # NONE => matrix[r] = chosen[r]

(***************************************************************************)
(* The copy of a process is dropped with every change of the matrix it     *)
(* makes: between requests it is the matrix.                               *)
(***************************************************************************)
CacheIsMatrix ==
  ~ saving /\ load[Server] = NONE /\ cache[Server] # NONE => cache[Server] = matrix

=============================================================================
