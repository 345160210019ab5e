------------------------------ MODULE Sessions ------------------------------
(***************************************************************************)
(* The sessions of one user (iam/auth_service.py, sessions.py, deps.py,    *)
(* admin_router.py): sign-in, renewal by a refresh token that works once,  *)
(* sign-out, change of password, and what an administrator does to the     *)
(* account.  The account is a row of the database, everything about        *)
(* revocation is in a key-value store, and a handler reads the one and     *)
(* writes the other in separate steps.                                     *)
(***************************************************************************)
EXTENDS Absent, Naturals, Sequences, FiniteSets, Orm

CONSTANTS
  Roles,
  Handlers,    \* the slots of requests
  MaxPairs,    \* bound: token pairs issued
  MaxEdits,    \* bound: what administrators do to the account
  MaxDeaths    \* bound: requests that die half-way

ASSUME SessionsAssumption ==
  /\ Roles # {} /\ NONE \notin Nat
  /\ MaxPairs \in Nat /\ MaxEdits \in Nat /\ MaxDeaths \in Nat

Numbers == 1 .. MaxPairs

\* The columns of users the sessions depend on; a new account has a
\* temporary password.
User == [is_active : BOOLEAN, is_deleted : BOOLEAN, role : Roles, must_change_password : BOOLEAN]

(***************************************************************************)
(* An access token and its refresh token.  Pairs are numbered in the order *)
(* they are issued in, which is the order of iat.  sid: the number of the  *)
(* pair the session began with.  parent: the pair whose refresh token was  *)
(* exchanged for this one.                                                 *)
(***************************************************************************)
Pair == [sid : Numbers, parent : Numbers \cup {NONE}, role : Roles, pwd_change : BOOLEAN]

VARIABLES
  user,    \* the row of the account
  pairs,   \* the pairs issued so far
  closed,  \* kv: revoked sessions
  used,    \* kv: refresh tokens already exchanged
  cutoff,  \* kv: pairs up to this one were issued before revoke_user
  h,       \* the request in each slot
  edits, deaths,
  stale    \* history: pairs issued from a row that had changed meanwhile, pairs alive
           \* when a request died between its commit and its revoke_user, and pairs
           \* change_password issued to a blocked account that still had one of these

sessionVars == <<user, pairs, closed, used, cutoff, h, edits, deaths, stale>>

kv == <<closed, used, cutoff>>
bounds == <<edits, deaths>>

Steps == {"idle", "checked", "consumed", "verified", "changing", "leaving", "revoking"}

Idle == [pc |-> "idle", token |-> NONE, seen |-> NONE, renews |-> FALSE, mints |-> FALSE]

SessionsTypeOK ==
  /\ user \in User
  /\ pairs \in Seq(Pair) /\ Len(pairs) <= MaxPairs
  /\ \A i \in DOMAIN pairs : pairs[i].sid <= i
  /\ closed \subseteq DOMAIN pairs /\ used \subseteq DOMAIN pairs
  /\ cutoff \in 0 .. Len(pairs)
  /\ h \in [Handlers -> [pc : Steps, token : Numbers \cup {NONE}, seen : User \cup {NONE},
                         renews : BOOLEAN, mints : BOOLEAN]]
  /\ edits \in 0 .. MaxEdits /\ deaths \in 0 .. MaxDeaths
  /\ stale \subseteq DOMAIN pairs

SessionsInit ==
  /\ user \in [is_active : {TRUE}, is_deleted : {FALSE}, role : Roles,
               must_change_password : {TRUE}]
  /\ pairs = <<>> /\ closed = {} /\ used = {} /\ cutoff = 0
  /\ h = [s \in Handlers |-> Idle]
  /\ edits = 0 /\ deaths = 0 /\ stale = {}

-----------------------------------------------------------------------------
\* Mutant: the session of the token is not looked up.
LiveByUser(i) == i > cutoff

\* is_revoked says no.
Live(i) == pairs[i].sid \notin closed /\ i > cutoff

AllLive == {i \in DOMAIN pairs : Live(i)}

Go(s, rec) == h' = [h EXCEPT ![s] = rec]

\* login: the row is found, active, and the password right.
Login(s) ==
  /\ h[s].pc = "idle" /\ user.is_active
  /\ Go(s, [Idle EXCEPT !.pc = "verified", !.seen = user])
  /\ UNCHANGED <<user, pairs, kv, bounds, stale>>

\* The pair of a session that begins (NONE) or goes on with the exchanged pair.
NewPair(seen, parent) ==
  [sid |-> IF parent = NONE THEN Len(pairs) + 1 ELSE pairs[parent].sid, parent |-> parent,
   role |-> seen.role, pwd_change |-> seen.must_change_password]

(***************************************************************************)
(* _token_response: the pair is made of the row as the request has read    *)
(* it, and dated now.                                                      *)
(***************************************************************************)
Mint(s) ==
  /\ h[s].pc = "verified" /\ Len(pairs) < MaxPairs
  /\ pairs' = Append(pairs, NewPair(h[s].seen, IF h[s].renews THEN h[s].token ELSE NONE))
  /\ stale' = IF h[s].seen = user /\ (user.is_active \/ h[s].renews) THEN stale ELSE stale \cup {Len(pairs) + 1}
  /\ Go(s, Idle)
  /\ UNCHANGED <<user, kv, bounds>>

-----------------------------------------------------------------------------
\* refresh: a token that is revoked is refused; otherwise the request goes on.
RefreshCheck(s, i) ==
  /\ h[s].pc = "idle" /\ i \in DOMAIN pairs /\ Live(i)
  /\ Go(s, [Idle EXCEPT !.pc = "checked", !.token = i, !.renews = TRUE])
  /\ UNCHANGED <<user, pairs, kv, bounds, stale>>

\* The token has been exchanged before: the whole session is closed.
RefreshReused(s) ==
  /\ h[s].pc = "checked" /\ h[s].token \in used
  /\ closed' = closed \cup {pairs[h[s].token].sid}
  /\ Go(s, Idle)
  /\ UNCHANGED <<user, pairs, used, cutoff, bounds, stale>>

\* Mutant: the token is marked when the new pair is there, not before.
RefreshConsumeLate(s) ==
  /\ h[s].pc = "checked" /\ h[s].token \notin used
  /\ Go(s, [h[s] EXCEPT !.pc = "consumed"])
  /\ UNCHANGED <<user, pairs, kv, bounds, stale>>

\* SET NX: of two requests with one token one gets here.
RefreshConsume(s) ==
  /\ h[s].pc = "checked" /\ h[s].token \notin used
  /\ used' = used \cup {h[s].token}
  /\ Go(s, [h[s] EXCEPT !.pc = "consumed"])
  /\ UNCHANGED <<user, pairs, closed, cutoff, bounds, stale>>

\* Mutant: is_active is not looked at.
RenewableInactive(i) == ~ user.is_deleted /\ user.role = pairs[i].role

\* The account still exists, is active and has the role of the token.
Renewable(i) == user.is_active /\ ~ user.is_deleted /\ user.role = pairs[i].role

RefreshRead(s) ==
  /\ h[s].pc = "consumed"
  /\ IF Renewable(h[s].token)
     THEN /\ Go(s, [h[s] EXCEPT !.pc = "verified", !.seen = user])
          /\ UNCHANGED closed
     ELSE /\ closed' = closed \cup {pairs[h[s].token].sid}
          /\ Go(s, Idle)
  /\ UNCHANGED <<user, pairs, used, cutoff, bounds, stale>>

-----------------------------------------------------------------------------
\* logout, with the access token of pair i; a refresh token j sent along has
\* its session closed as well.
LogoutCheck(s, i) ==
  /\ h[s].pc = "idle" /\ i \in DOMAIN pairs /\ Live(i)
  /\ Go(s, [Idle EXCEPT !.pc = "leaving", !.token = i])
  /\ UNCHANGED <<user, pairs, kv, bounds, stale>>

LogoutClose(s) ==
  /\ h[s].pc = "leaving"
  /\ \E others \in SUBSET {pairs[j].sid : j \in DOMAIN pairs} :
       /\ Cardinality(others) <= 1
       /\ closed' = closed \cup {pairs[h[s].token].sid} \cup others
  /\ Go(s, Idle)
  /\ UNCHANGED <<user, pairs, used, cutoff, bounds, stale>>

-----------------------------------------------------------------------------
\* change_password: the token is checked, the row read, the password verified.
\* is_active is not looked at: revocation has to have taken the token away.
ChangeRead(s, i) ==
  /\ h[s].pc = "idle" /\ i \in DOMAIN pairs /\ Live(i) /\ ~ user.is_deleted
  /\ Go(s, [Idle EXCEPT !.pc = "changing", !.seen = user])
  /\ UNCHANGED <<user, pairs, kv, bounds, stale>>

ChangeCommit(s) ==
  LET new == [h[s].seen EXCEPT !.must_change_password = FALSE]
  IN /\ h[s].pc = "changing"
     /\ user' = Flush(user, h[s].seen, new)
     /\ Go(s, [h[s] EXCEPT !.pc = "revoking", !.seen = new, !.mints = TRUE])
     /\ UNCHANGED <<pairs, kv, bounds, stale>>

\* Mutant: the moment is rounded up, and with it the pair that follows.
RevokeFuture(s) ==
  /\ h[s].pc = "revoking"
  /\ cutoff' = Len(pairs) + 1
  /\ Go(s, IF h[s].mints THEN [h[s] EXCEPT !.pc = "verified", !.mints = FALSE] ELSE Idle)
  /\ UNCHANGED <<user, pairs, closed, used, bounds, stale>>

\* revoke_user: every pair issued so far is refused from now on.  The user's
\* own change of password goes on to a new pair.
Revoke(s) ==
  /\ h[s].pc = "revoking"
  /\ cutoff' = Len(pairs)
  /\ Go(s, IF h[s].mints THEN [h[s] EXCEPT !.pc = "verified", !.mints = FALSE] ELSE Idle)
  /\ UNCHANGED <<user, pairs, closed, used, bounds, stale>>

-----------------------------------------------------------------------------
(***************************************************************************)
(* update_user, reset_password and delete_user: the row is committed, then *)
(* the sessions are revoked (not when an account is unblocked).            *)
(***************************************************************************)
Edited ==
  {[user EXCEPT !.role = r] : r \in Roles \ {user.role}} \cup
  {[user EXCEPT !.is_active = FALSE], [user EXCEPT !.must_change_password = TRUE],
   [user EXCEPT !.is_active = FALSE, !.is_deleted = TRUE]}

Administer(s) ==
  /\ h[s].pc = "idle" /\ edits < MaxEdits /\ ~ user.is_deleted
  /\ user' \in Edited
  /\ edits' = edits + 1
  /\ Go(s, [Idle EXCEPT !.pc = "revoking"])
  /\ UNCHANGED <<pairs, kv, deaths, stale>>

Unblock(s) ==
  /\ h[s].pc = "idle" /\ ~ user.is_deleted /\ ~ user.is_active
  /\ user' = [user EXCEPT !.is_active = TRUE]
  /\ UNCHANGED <<pairs, kv, h, bounds, stale>>

\* A request ends half-way: what it has committed stays, what follows does not
\* happen.
Die(s) ==
  /\ h[s].pc # "idle" /\ deaths < MaxDeaths
  /\ deaths' = deaths + 1
  /\ stale' = IF h[s].pc = "revoking" THEN stale \cup AllLive ELSE stale
  /\ Go(s, Idle)
  /\ UNCHANGED <<user, pairs, kv, edits>>

SessionsNext ==
  \E s \in Handlers :
    \/ Login(s) \/ Mint(s)
    \/ \E i \in Numbers : RefreshCheck(s, i) \/ LogoutCheck(s, i) \/ ChangeRead(s, i)
    \/ RefreshReused(s) \/ RefreshConsume(s) \/ RefreshRead(s)
    \/ LogoutClose(s)
    \/ ChangeCommit(s) \/ Revoke(s)
    \/ Administer(s) \/ Unblock(s) \/ Die(s)

SessionsSpec == SessionsInit /\ [][SessionsNext]_sessionVars

-----------------------------------------------------------------------------
(***************************************************************************)
(* A refresh token works once, whatever requests overlap: no session has   *)
(* two pairs that could both still be exchanged.                           *)
(***************************************************************************)
OneLiveRefresh ==
  \A i, j \in AllLive \ used : pairs[i].sid = pairs[j].sid => i = j

(***************************************************************************)
(* A session that is closed (sign-out, a refresh token used twice) stays   *)
(* closed, and so does a pair that was refused once: an overlapping        *)
(* renewal does not bring it back.                                         *)
(***************************************************************************)
ClosedForGood ==
  [][/\ \A i \in DOMAIN pairs : ~ Live(i) => ~ Live(i)'
     /\ \A i \in DOMAIN pairs' \ DOMAIN pairs :
          pairs'[i].sid \in closed => ~ Live(i)']_sessionVars

(***************************************************************************)
(* A token that is accepted speaks for the account as it is: active, in    *)
(* that role, with or without the duty to change the password.  Excepted   *)
(* are pairs issued to a request that had read the row before it changed,  *)
(* pairs that outlive a request that died before revoking them, and the    *)
(* moment between commit and revocation; none of these can be renewed into *)
(* another such pair (a change of password apart, see stale).              *)
(***************************************************************************)
TokensSpeakForTheAccount ==
  \A i \in AllLive \ stale :
    \/ \E s \in Handlers : h[s].pc = "revoking"
    \/ /\ user.is_active
       /\ pairs[i].role = user.role
       /\ pairs[i].pwd_change = user.must_change_password

=============================================================================
