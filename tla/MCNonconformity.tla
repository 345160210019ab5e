-------------------------- MODULE MCNonconformity --------------------------
(***************************************************************************)
(* Instances of Nonconformity for TLC: an administrator (every permission, *)
(* as in iam/permissions.py), a risk manager and an auditor; the owner     *)
(* field names the risk manager or somebody without an account.            *)
(***************************************************************************)
EXTENDS Nonconformity, TLC

CONSTANTS admin, rm, auditor, outsider, m1, m2, r1, r2, night

MCUsers == {admin, rm, auditor}
MCEditors == {admin, rm}
MCDeciders == {admin, rm}
MCVerifiers == {admin, auditor}
MCOwners == {rm, outsider}

\* Two handlers at once, of an administrator and an auditor.
RaceUsers == {admin, auditor}
Administrator == {admin}
Auditor == {auditor}

JustTheTask == {night}
Overlapping == {r1, r2}

Symmetric == Permutations({r1, r2})

=============================================================================
