---------------------------- MODULE AccessProofs ----------------------------
(***************************************************************************)
(* Proofs about who gets in and what he may do.  Sessions, for every set   *)
(* of roles and requests and every bound: whatever sign-ins, renewals,     *)
(* sign-outs, changes of password and edits of the account overlap, and    *)
(* wherever requests die.  Throttle, for every set of addresses and        *)
(* requests and every limit: however sign-ins overlap, the passwords       *)
(* checked are bounded.  Permissions, for every catalogue, every set of    *)
(* roles and every number of processes: a copy is older than the matrix    *)
(* only by what its process could not see.  Migrations, for every chain of *)
(* revisions and every set of images: the base is what its version says.   *)
(* With the signatures of a nonconformity and the imports of incidents     *)
(* they make up a run, whose behaviours are at the end those of each.      *)
(***************************************************************************)
EXTENDS MCOverlaps, NonconformityProofs, IncidentsProofs

(***************************************************************************)
(* What a request holds at the step it is at: the pair it was sent with,   *)
(* the row it has read, and, if it renews a session, a row that was active *)
(* when it was read.                                                       *)
(***************************************************************************)
Holds(r, issued) ==
  /\ r.pc \in {"checked", "consumed"} => r.renews
  /\ r.pc \in {"changing", "leaving", "revoking", "idle"} => ~ r.renews
  /\ r.renews \/ r.pc = "leaving" => r.token \in 1 .. issued
  /\ r.pc \in {"verified", "changing"} => r.seen \in User
  /\ r.mints => r.pc = "revoking" /\ r.seen \in User
  /\ r.renews /\ r.pc = "verified" => r.seen.is_active

RequestsHold == \A s \in Handlers : Holds(h[s], Len(pairs))

(***************************************************************************)
(* A request past SET NX and before its new pair stands in for the pair it *)
(* has taken: it is the last of its session, as an unused pair is.         *)
(***************************************************************************)
Renewing(s) == h[s].renews /\ h[s].pc \in {"consumed", "verified"}

(***************************************************************************)
(* No session has two ends: an end is a pair that can still be exchanged   *)
(* or a request that is exchanging one.  It does not matter whether the    *)
(* session is alive, which is why the kv store may revoke in any order.    *)
(***************************************************************************)
OneEnd ==
  /\ \A i, j \in DOMAIN pairs \ used : pairs[i].sid = pairs[j].sid => i = j
  /\ \A s, t \in Handlers :
       Renewing(s) /\ Renewing(t) /\ pairs[h[s].token].sid = pairs[h[t].token].sid => s = t
  /\ \A s \in Handlers : \A i \in DOMAIN pairs \ used :
       Renewing(s) => pairs[h[s].token].sid # pairs[i].sid

SessionsInv == SessionsTypeOK /\ RequestsHold /\ OneEnd /\ TokensSpeakForTheAccount

-----------------------------------------------------------------------------
(***************************************************************************)
(* The row, the pairs and the requests, one at a time.                     *)
(***************************************************************************)

LEMMA FlushedUser ==
  ASSUME NEW cur \in User, NEW loaded \in User, NEW new \in User
  PROVE  Flush(cur, loaded, new) \in User
BY DEF Flush, User

LEMMA EditedUser ==
  ASSUME user \in User
  PROVE  Edited \subseteq User
BY DEF Edited, User

(***************************************************************************)
(* Issuing a pair leaves the others as they are.                           *)
(***************************************************************************)
LEMMA Issued ==
  ASSUME SessionsTypeOK, Len(pairs) < MaxPairs, NEW p \in Pair, pairs' = Append(pairs, p)
  PROVE  /\ pairs' \in Seq(Pair) /\ Len(pairs') = Len(pairs) + 1 /\ Len(pairs') <= MaxPairs
         /\ DOMAIN pairs = 1 .. Len(pairs)
         /\ DOMAIN pairs' = DOMAIN pairs \cup {Len(pairs) + 1}
         /\ \A i \in DOMAIN pairs : pairs'[i] = pairs[i]
         /\ pairs'[Len(pairs) + 1] = p
         /\ Len(pairs) \in Nat /\ Len(pairs) + 1 \notin DOMAIN pairs
BY SessionsAssumption DEF SessionsTypeOK

\* The pairs there are, and what they say.
LEMMA ThePairs ==
  ASSUME SessionsTypeOK
  PROVE  /\ DOMAIN pairs = 1 .. Len(pairs) /\ Len(pairs) \in Nat
         /\ DOMAIN pairs \subseteq Numbers
         /\ \A i \in DOMAIN pairs : /\ pairs[i] \in Pair /\ pairs[i].sid \in DOMAIN pairs
                                    /\ pairs[i].sid <= i
<1>1. /\ DOMAIN pairs = 1 .. Len(pairs) /\ Len(pairs) \in Nat /\ Len(pairs) <= MaxPairs
      /\ \A i \in DOMAIN pairs : pairs[i] \in Pair /\ pairs[i].sid <= i
  BY DEF SessionsTypeOK
<1>2. \A i \in DOMAIN pairs : pairs[i].sid \in Nat \ {0}
  BY <1>1, SessionsAssumption DEF Pair, Numbers
<1> QED
  BY <1>1, <1>2, SessionsAssumption DEF Numbers

LEMMA IdleHolds ==
  /\ Idle \in [pc : Steps, token : Numbers \cup {NONE}, seen : User \cup {NONE},
               renews : BOOLEAN, mints : BOOLEAN]
  /\ \A n \in Nat : Holds(Idle, n)
  /\ ~ Idle.renews /\ Idle.pc = "idle"
BY DEF Idle, Holds, Steps

-----------------------------------------------------------------------------
(***************************************************************************)
(* A step that moves one request and writes at most a revocation.  A       *)
(* request that was to revoke must have left its pairs to `stale`.         *)
(***************************************************************************)
LEMMA RequestMoves ==
  ASSUME SessionsInv, NEW s \in Handlers, NEW r,
         r \in [pc : Steps, token : Numbers \cup {NONE}, seen : User \cup {NONE},
                renews : BOOLEAN, mints : BOOLEAN],
         Holds(r, Len(pairs)), Go(s, r),
         r.renews /\ r.pc \in {"consumed", "verified"} => Renewing(s) /\ r.token = h[s].token,
         UNCHANGED <<user, pairs, used, cutoff>>,
         closed \subseteq closed', closed' \subseteq DOMAIN pairs,
         edits' \in 0 .. MaxEdits, deaths' \in 0 .. MaxDeaths,
         stale \subseteq stale', stale' \subseteq DOMAIN pairs,
         h[s].pc = "revoking" => AllLive \subseteq stale'
  PROVE  SessionsInv'
<1>1. h' = [h EXCEPT ![s] = r] /\ h'[s] = r /\ \A t \in Handlers \ {s} : h'[t] = h[t]
  BY DEF Go, SessionsInv, SessionsTypeOK
<1>2. SessionsTypeOK'
  BY <1>1 DEF SessionsInv, SessionsTypeOK
<1>3. RequestsHold'
  BY <1>1 DEF SessionsInv, RequestsHold
<1>4. \A t \in Handlers : Renewing(t)' => Renewing(t) /\ h'[t].token = h[t].token
  BY <1>1 DEF Renewing
<1>5. OneEnd'
  BY <1>4 DEF SessionsInv, OneEnd
<1>6. TokensSpeakForTheAccount'
  <2> SUFFICES ASSUME NEW i \in AllLive' \ stale', \A t \in Handlers : h'[t].pc # "revoking"
               PROVE  /\ user'.is_active /\ pairs'[i].role = user'.role
                      /\ pairs'[i].pwd_change = user'.must_change_password
    BY DEF TokensSpeakForTheAccount
  <2>1. i \in AllLive \ stale
    BY DEF AllLive, Live
  <2>2. \A t \in Handlers : h[t].pc # "revoking"
    BY <1>1, <2>1
  <2> QED
    BY <2>1, <2>2 DEF SessionsInv, TokensSpeakForTheAccount
<1> QED
  BY <1>2, <1>3, <1>5, <1>6 DEF SessionsInv

-----------------------------------------------------------------------------
(***************************************************************************)
(* _token_response.                                                        *)
(***************************************************************************)
LEMMA MintKeeps ==
  ASSUME SessionsInv, NEW s \in Handlers, Mint(s)
  PROVE  SessionsInv'
<1> DEFINE n == Len(pairs) + 1
           parent == IF h[s].renews THEN h[s].token ELSE NONE
           p == NewPair(h[s].seen, parent)
<1>0. /\ h[s].pc = "verified" /\ Len(pairs) < MaxPairs
      /\ pairs' = Append(pairs, p)
      /\ stale' = IF h[s].seen = user /\ (user.is_active \/ h[s].renews) THEN stale
                  ELSE stale \cup {n}
      /\ h' = [h EXCEPT ![s] = Idle]
      /\ UNCHANGED <<user, closed, used, cutoff, edits, deaths>>
  BY DEF Mint, Go, kv, bounds
<1>1. /\ SessionsTypeOK /\ RequestsHold /\ OneEnd /\ TokensSpeakForTheAccount
      /\ Holds(h[s], Len(pairs))
  BY DEF SessionsInv, RequestsHold
<1>2. /\ DOMAIN pairs = 1 .. Len(pairs) /\ Len(pairs) \in Nat /\ DOMAIN pairs \subseteq Numbers
      /\ \A i \in DOMAIN pairs : /\ pairs[i] \in Pair /\ pairs[i].sid \in DOMAIN pairs
                                 /\ pairs[i].sid <= i
  BY <1>1, ThePairs
<1>3. h[s].seen \in User /\ (h[s].renews => h[s].token \in DOMAIN pairs /\ h[s].seen.is_active)
  BY <1>0, <1>1, <1>2 DEF Holds
<1>4. /\ p.sid = IF h[s].renews THEN pairs[h[s].token].sid ELSE n
      /\ p.role = h[s].seen.role /\ p.pwd_change = h[s].seen.must_change_password
  <2>1. CASE h[s].renews
    <3>1. parent # NONE
      BY <1>2, <1>3, <2>1, SessionsAssumption
    <3> QED
      BY <2>1, <3>1 DEF NewPair
  <2>2. CASE ~ h[s].renews
    BY <2>2 DEF NewPair
  <2> QED
    BY <2>1, <2>2
<1>5. n \in Numbers /\ p \in Pair
  <2>1. n \in Numbers
    BY <1>0, <1>2, SessionsAssumption DEF Numbers
  <2>2. p.sid \in Numbers /\ parent \in Numbers \cup {NONE}
    BY <1>2, <1>3, <1>4, <2>1
  <2>3. h[s].seen.role \in Roles /\ h[s].seen.must_change_password \in BOOLEAN
    BY <1>3 DEF User
  <2>4. p = [sid |-> p.sid, parent |-> parent, role |-> h[s].seen.role,
             pwd_change |-> h[s].seen.must_change_password]
    BY DEF NewPair
  <2> HIDE DEF p, parent
  <2> QED
    BY <2>1, <2>2, <2>3, <2>4 DEF Pair
<1> HIDE DEF p, parent
<1>6. /\ pairs' \in Seq(Pair) /\ Len(pairs') = n /\ Len(pairs') <= MaxPairs
      /\ DOMAIN pairs' = DOMAIN pairs \cup {n}
      /\ \A i \in DOMAIN pairs : pairs'[i] = pairs[i]
      /\ pairs'[n] = p
      /\ n \notin DOMAIN pairs
  BY <1>0, <1>1, <1>5, Issued
<1>7. h'[s] = Idle /\ \A t \in Handlers \ {s} : h'[t] = h[t]
  BY <1>0, <1>1 DEF SessionsTypeOK
<1>8. SessionsTypeOK'
  <2>1. \A i \in DOMAIN pairs' : pairs'[i].sid <= i
    BY <1>2, <1>3, <1>4, <1>6
  <2>2. h' \in [Handlers -> [pc : Steps, token : Numbers \cup {NONE}, seen : User \cup {NONE},
                             renews : BOOLEAN, mints : BOOLEAN]]
    BY <1>0, <1>1, IdleHolds DEF SessionsTypeOK
  <2>3. cutoff \in 0 .. Len(pairs')
    BY <1>1, <1>2, <1>6 DEF SessionsTypeOK
  <2>4. stale' \subseteq DOMAIN pairs'
    BY <1>0, <1>1, <1>6 DEF SessionsTypeOK
  <2> QED
    BY <1>0, <1>1, <1>6, <2>1, <2>2, <2>3, <2>4 DEF SessionsTypeOK
<1>9. RequestsHold'
  <2> SUFFICES ASSUME NEW t \in Handlers PROVE Holds(h'[t], n)
    BY <1>6 DEF RequestsHold
  <2>1. CASE t = s
    BY <1>2, <1>7, <2>1, IdleHolds
  <2>2. CASE t # s
    BY <1>1, <1>2, <1>7, <2>2 DEF RequestsHold, Holds
  <2> QED
    BY <2>1, <2>2
<1>10. OneEnd'
  <2>1. \A t \in Handlers : Renewing(t)' =>
          /\ t # s /\ Renewing(t) /\ h'[t] = h[t]
          /\ h[t].token \in DOMAIN pairs /\ pairs'[h[t].token].sid = pairs[h[t].token].sid
    BY <1>1, <1>2, <1>6, <1>7, IdleHolds DEF Renewing, RequestsHold, Holds
  <2>2. DOMAIN pairs' \ used' = (DOMAIN pairs \ used) \cup {n}
    BY <1>0, <1>1, <1>6 DEF SessionsTypeOK
  <2>3. \A i \in DOMAIN pairs \ used : p.sid # pairs[i].sid
    BY <1>0, <1>1, <1>2, <1>4 DEF OneEnd, Renewing
  <2>4. \A t \in Handlers : Renewing(t)' => pairs[h[t].token].sid # p.sid
    BY <1>0, <1>1, <1>2, <1>4, <2>1 DEF OneEnd, Renewing
  <2> QED
    BY <1>0, <1>1, <1>6, <2>1, <2>2, <2>3, <2>4 DEF OneEnd
<1>11. TokensSpeakForTheAccount'
  <2> SUFFICES ASSUME NEW i \in AllLive' \ stale', \A t \in Handlers : h'[t].pc # "revoking"
               PROVE  /\ user'.is_active /\ pairs'[i].role = user'.role
                      /\ pairs'[i].pwd_change = user'.must_change_password
    BY DEF TokensSpeakForTheAccount
  <2>1. CASE i = n
    <3>1. h[s].seen = user /\ (user.is_active \/ h[s].renews)
      BY <1>0, <2>1
    <3> QED
      BY <1>0, <1>3, <1>4, <1>6, <2>1, <3>1
  <2>2. CASE i # n
    <3>1. i \in AllLive \ stale /\ pairs'[i] = pairs[i]
      BY <1>0, <1>6, <2>2 DEF AllLive, Live
    <3>2. \A t \in Handlers : h[t].pc # "revoking"
      BY <1>0, <1>7
    <3> QED
      BY <1>0, <1>1, <3>1, <3>2 DEF TokensSpeakForTheAccount
  <2> QED
    BY <2>1, <2>2
<1> QED
  BY <1>8, <1>9, <1>10, <1>11 DEF SessionsInv

(***************************************************************************)
(* SET NX: the unused pair hands its place over to the request.            *)
(***************************************************************************)
LEMMA ConsumeKeeps ==
  ASSUME SessionsInv, NEW s \in Handlers, RefreshConsume(s)
  PROVE  SessionsInv'
<1> DEFINE i0 == h[s].token
<1>0. /\ h[s].pc = "checked" /\ i0 \notin used /\ used' = used \cup {i0}
      /\ h' = [h EXCEPT ![s] = [h[s] EXCEPT !.pc = "consumed"]]
      /\ UNCHANGED <<user, pairs, closed, cutoff, edits, deaths, stale>>
  BY DEF RefreshConsume, Go, bounds
<1>1. /\ SessionsTypeOK /\ RequestsHold /\ OneEnd /\ TokensSpeakForTheAccount
      /\ Holds(h[s], Len(pairs)) /\ DOMAIN pairs = 1 .. Len(pairs)
  BY ThePairs DEF SessionsInv, RequestsHold
<1>2. h[s].renews /\ i0 \in DOMAIN pairs \ used
  BY <1>0, <1>1 DEF Holds
<1>3. /\ h'[s] = [h[s] EXCEPT !.pc = "consumed"] /\ \A t \in Handlers \ {s} : h'[t] = h[t]
      /\ h'[s].pc = "consumed" /\ h'[s].token = i0 /\ h'[s].renews
      /\ h'[s].mints = h[s].mints
      /\ h' \in [Handlers -> [pc : Steps, token : Numbers \cup {NONE}, seen : User \cup {NONE},
                              renews : BOOLEAN, mints : BOOLEAN]]
  BY <1>0, <1>1, <1>2 DEF SessionsTypeOK, Steps
<1>4. SessionsTypeOK'
  BY <1>0, <1>1, <1>2, <1>3 DEF SessionsTypeOK
<1>5. Holds(h'[s], Len(pairs))
  BY <1>0, <1>1, <1>2, <1>3 DEF Holds
<1>6. RequestsHold'
  BY <1>0, <1>1, <1>3, <1>5 DEF RequestsHold
<1>7. \A t \in Handlers : Renewing(t)' => h'[t].token = h[t].token /\ (t # s => Renewing(t))
  BY <1>3 DEF Renewing
<1>8. OneEnd'
  BY <1>0, <1>1, <1>2, <1>7 DEF OneEnd
<1>9. TokensSpeakForTheAccount'
  BY <1>0, <1>1, <1>3 DEF TokensSpeakForTheAccount, AllLive, Live
<1> QED
  BY <1>4, <1>6, <1>8, <1>9 DEF SessionsInv

(***************************************************************************)
(* A request that commits a change of the account and has yet to revoke:   *)
(* until it does, nothing is promised of the pairs that are out.           *)
(***************************************************************************)
LEMMA AnswerKeeps ==
  ASSUME SessionsInv, NEW s \in Handlers, NEW r,
         r \in [pc : Steps, token : Numbers \cup {NONE}, seen : User \cup {NONE},
                renews : BOOLEAN, mints : BOOLEAN],
         Holds(r, Len(pairs)), r.pc = "revoking", Go(s, r),
         user' \in User, edits' \in 0 .. MaxEdits,
         UNCHANGED <<pairs, kv, deaths, stale>>
  PROVE  SessionsInv'
<1>1. h' = [h EXCEPT ![s] = r] /\ h'[s] = r /\ \A t \in Handlers \ {s} : h'[t] = h[t]
  BY DEF Go, SessionsInv, SessionsTypeOK
<1>2. SessionsTypeOK'
  BY <1>1 DEF SessionsInv, SessionsTypeOK, kv
<1>3. RequestsHold'
  BY <1>1 DEF SessionsInv, RequestsHold
<1>4. OneEnd'
  BY <1>1 DEF SessionsInv, OneEnd, Renewing, kv
<1>5. TokensSpeakForTheAccount'
  BY <1>1 DEF TokensSpeakForTheAccount
<1> QED
  BY <1>2, <1>3, <1>4, <1>5 DEF SessionsInv

LEMMA ChangeCommitKeeps ==
  ASSUME SessionsInv, NEW s \in Handlers, ChangeCommit(s)
  PROVE  SessionsInv'
<1> DEFINE new == [h[s].seen EXCEPT !.must_change_password = FALSE]
           r   == [h[s] EXCEPT !.pc = "revoking", !.seen = new, !.mints = TRUE]
<1>1. /\ h[s].pc = "changing" /\ user' = Flush(user, h[s].seen, new) /\ Go(s, r)
      /\ UNCHANGED <<pairs, kv, edits, deaths, stale>>
  BY DEF ChangeCommit, bounds
<1>2. SessionsTypeOK /\ Holds(h[s], Len(pairs))
  BY DEF SessionsInv, RequestsHold
<1>3. h[s].seen \in User /\ ~ h[s].renews
  BY <1>1, <1>2 DEF Holds
<1>4. new \in User
  BY <1>3 DEF User
<1>5. user' \in User
  BY <1>1, <1>2, <1>3, <1>4, FlushedUser DEF SessionsTypeOK
<1> HIDE DEF new
<1>6. /\ r \in [pc : Steps, token : Numbers \cup {NONE}, seen : User \cup {NONE},
                renews : BOOLEAN, mints : BOOLEAN]
      /\ r.pc = "revoking" /\ ~ r.renews /\ r.seen = new
  BY <1>2, <1>3, <1>4 DEF SessionsTypeOK, Steps
<1> HIDE DEF r
<1>7. Holds(r, Len(pairs))
  BY <1>4, <1>6 DEF Holds
<1>8. edits' \in 0 .. MaxEdits
  BY <1>1, <1>2 DEF SessionsTypeOK
<1> QED
  BY <1>1, <1>5, <1>6, <1>7, <1>8, AnswerKeeps

LEMMA AdministerKeeps ==
  ASSUME SessionsInv, NEW s \in Handlers, Administer(s)
  PROVE  SessionsInv'
<1> DEFINE r == [Idle EXCEPT !.pc = "revoking"]
<1>1. /\ edits < MaxEdits /\ user' \in Edited /\ edits' = edits + 1 /\ Go(s, r)
      /\ UNCHANGED <<pairs, kv, deaths, stale>>
  BY DEF Administer
<1>2. user' \in User /\ edits' \in 0 .. MaxEdits
  BY <1>1, EditedUser, SessionsAssumption DEF SessionsInv, SessionsTypeOK
<1>3. /\ r \in [pc : Steps, token : Numbers \cup {NONE}, seen : User \cup {NONE},
                renews : BOOLEAN, mints : BOOLEAN]
      /\ r.pc = "revoking" /\ ~ r.renews /\ ~ r.mints
  BY DEF Idle, Steps
<1> HIDE DEF r
<1>4. Holds(r, Len(pairs))
  BY <1>3 DEF Holds
<1> QED
  BY <1>1, <1>2, <1>3, <1>4, AnswerKeeps

(***************************************************************************)
(* revoke_user: whatever pairs are out are refused from here on.           *)
(***************************************************************************)
LEMMA RevokeKeeps ==
  ASSUME SessionsInv, NEW s \in Handlers, Revoke(s)
  PROVE  SessionsInv'
<1> DEFINE r == IF h[s].mints THEN [h[s] EXCEPT !.pc = "verified", !.mints = FALSE] ELSE Idle
<1>0. /\ h[s].pc = "revoking" /\ cutoff' = Len(pairs) /\ h' = [h EXCEPT ![s] = r]
      /\ UNCHANGED <<user, pairs, closed, used, edits, deaths, stale>>
  BY DEF Revoke, Go, bounds
<1>1. SessionsTypeOK /\ RequestsHold /\ OneEnd /\ Holds(h[s], Len(pairs))
      /\ DOMAIN pairs = 1 .. Len(pairs) /\ Len(pairs) \in Nat
  BY ThePairs DEF SessionsInv, RequestsHold
<1>2. /\ r \in [pc : Steps, token : Numbers \cup {NONE}, seen : User \cup {NONE},
                renews : BOOLEAN, mints : BOOLEAN]
      /\ ~ r.renews /\ Holds(r, Len(pairs))
  <2>1. CASE h[s].mints
    BY <1>0, <1>1, <2>1 DEF SessionsTypeOK, Holds, Steps
  <2>2. CASE ~ h[s].mints
    BY <1>1, <2>2, IdleHolds
  <2> QED
    BY <2>1, <2>2
<1> HIDE DEF r
<1>3. h'[s] = r /\ \A t \in Handlers \ {s} : h'[t] = h[t]
  BY <1>0, <1>1 DEF SessionsTypeOK
<1>4. SessionsTypeOK'
  BY <1>0, <1>1, <1>2 DEF SessionsTypeOK
<1>5. RequestsHold'
  BY <1>0, <1>1, <1>2, <1>3 DEF RequestsHold
<1>6. OneEnd'
  BY <1>0, <1>1, <1>2, <1>3 DEF OneEnd, Renewing
<1>7. AllLive' = {}
  BY <1>0, <1>1 DEF AllLive, Live
<1> QED
  BY <1>4, <1>5, <1>6, <1>7 DEF SessionsInv, TokensSpeakForTheAccount

\* Nothing that is out speaks for a blocked account, so unblocking it needs no revocation.
LEMMA UnblockKeeps ==
  ASSUME SessionsInv, NEW s \in Handlers, Unblock(s)
  PROVE  SessionsInv'
<1>1. /\ ~ user.is_active /\ user' = [user EXCEPT !.is_active = TRUE]
      /\ UNCHANGED <<pairs, closed, used, cutoff, h, edits, deaths, stale>>
  BY DEF Unblock, kv, bounds
<1>2. user' \in User
  BY <1>1 DEF SessionsInv, SessionsTypeOK, User
<1>3. SessionsTypeOK' /\ RequestsHold' /\ OneEnd'
  BY <1>1, <1>2 DEF SessionsInv, SessionsTypeOK, RequestsHold, OneEnd, Renewing
<1>4. TokensSpeakForTheAccount'
  BY <1>1 DEF SessionsInv, TokensSpeakForTheAccount, AllLive, Live
<1> QED
  BY <1>3, <1>4 DEF SessionsInv

-----------------------------------------------------------------------------
(***************************************************************************)
(* The other steps move one request; some revoke a session with it.        *)
(***************************************************************************)

LEMMA CounterTypes ==
  ASSUME SessionsTypeOK
  PROVE  /\ edits \in 0 .. MaxEdits /\ deaths \in 0 .. MaxDeaths
         /\ deaths < MaxDeaths => deaths + 1 \in 0 .. MaxDeaths
         /\ stale \subseteq DOMAIN pairs /\ AllLive \subseteq DOMAIN pairs
         /\ closed \subseteq DOMAIN pairs
BY SessionsAssumption DEF SessionsTypeOK, AllLive

\* A request begins: it is signed in, or it was sent with a pair that is not revoked.
LEMMA ArriveKeeps ==
  ASSUME SessionsInv, NEW s \in Handlers,
         \/ Login(s)
         \/ \E i \in Numbers : RefreshCheck(s, i) \/ LogoutCheck(s, i) \/ ChangeRead(s, i)
  PROVE  SessionsInv'
<1>0. SessionsTypeOK /\ Len(pairs) \in Nat /\ DOMAIN pairs = 1 .. Len(pairs)
  BY ThePairs DEF SessionsInv
<1>1. PICK r :
        /\ r \in [pc : Steps, token : Numbers \cup {NONE}, seen : User \cup {NONE},
                  renews : BOOLEAN, mints : BOOLEAN]
        /\ Holds(r, Len(pairs)) /\ Go(s, r)
        /\ ~ (r.renews /\ r.pc \in {"consumed", "verified"})
        /\ h[s].pc = "idle"
        /\ UNCHANGED <<user, pairs, closed, used, cutoff, edits, deaths, stale>>
  <2>1. CASE Login(s)
    <3> DEFINE r == [Idle EXCEPT !.pc = "verified", !.seen = user]
    <3>1. /\ r \in [pc : Steps, token : Numbers \cup {NONE}, seen : User \cup {NONE},
                    renews : BOOLEAN, mints : BOOLEAN]
          /\ Holds(r, Len(pairs)) /\ ~ r.renews
      BY <1>0 DEF SessionsTypeOK, Idle, Steps, Holds
    <3> QED
      BY <2>1, <3>1 DEF Login, kv, bounds
  <2>2. ASSUME NEW i \in Numbers, RefreshCheck(s, i) \/ LogoutCheck(s, i)
        PROVE  \E r :
                 /\ r \in [pc : Steps, token : Numbers \cup {NONE}, seen : User \cup {NONE},
                           renews : BOOLEAN, mints : BOOLEAN]
                 /\ Holds(r, Len(pairs)) /\ Go(s, r)
                 /\ ~ (r.renews /\ r.pc \in {"consumed", "verified"})
                 /\ h[s].pc = "idle"
                 /\ UNCHANGED <<user, pairs, closed, used, cutoff, edits, deaths, stale>>
    <3> DEFINE check == [Idle EXCEPT !.pc = "checked", !.token = i, !.renews = TRUE]
               leave == [Idle EXCEPT !.pc = "leaving", !.token = i]
    <3>1. i \in 1 .. Len(pairs)
      BY <1>0, <2>2 DEF RefreshCheck, LogoutCheck
    <3>2. /\ check \in [pc : Steps, token : Numbers \cup {NONE}, seen : User \cup {NONE},
                        renews : BOOLEAN, mints : BOOLEAN]
          /\ leave \in [pc : Steps, token : Numbers \cup {NONE}, seen : User \cup {NONE},
                        renews : BOOLEAN, mints : BOOLEAN]
          /\ Holds(check, Len(pairs)) /\ Holds(leave, Len(pairs))
          /\ check.pc = "checked" /\ leave.pc = "leaving"
      BY <3>1 DEF Idle, Steps, Holds
    <3> HIDE DEF check, leave
    <3>3. CASE RefreshCheck(s, i)
      BY <3>2, <3>3 DEF RefreshCheck, check, kv, bounds
    <3>4. CASE LogoutCheck(s, i)
      BY <3>2, <3>4 DEF LogoutCheck, leave, kv, bounds
    <3> QED
      BY <2>2, <3>3, <3>4
  <2>3. ASSUME NEW i \in Numbers, ChangeRead(s, i)
        PROVE  \E r :
                 /\ r \in [pc : Steps, token : Numbers \cup {NONE}, seen : User \cup {NONE},
                           renews : BOOLEAN, mints : BOOLEAN]
                 /\ Holds(r, Len(pairs)) /\ Go(s, r)
                 /\ ~ (r.renews /\ r.pc \in {"consumed", "verified"})
                 /\ h[s].pc = "idle"
                 /\ UNCHANGED <<user, pairs, closed, used, cutoff, edits, deaths, stale>>
    <3> DEFINE r == [Idle EXCEPT !.pc = "changing", !.seen = user]
    <3>1. /\ r \in [pc : Steps, token : Numbers \cup {NONE}, seen : User \cup {NONE},
                    renews : BOOLEAN, mints : BOOLEAN]
          /\ Holds(r, Len(pairs)) /\ ~ r.renews
      BY <1>0 DEF SessionsTypeOK, Idle, Steps, Holds
    <3> QED
      BY <2>3, <3>1 DEF ChangeRead, kv, bounds
  <2> QED
    BY <2>1, <2>2, <2>3
<1> QED
  BY <1>0, <1>1, CounterTypes, RequestMoves

\* A request ends: refused and the session closed with it, signed out, or dead.
LEMMA EndKeeps ==
  ASSUME SessionsInv, NEW s \in Handlers,
         RefreshReused(s) \/ LogoutClose(s) \/ Die(s)
  PROVE  SessionsInv'
<1>0. SessionsTypeOK /\ Len(pairs) \in Nat /\ Holds(h[s], Len(pairs))
      /\ DOMAIN pairs = 1 .. Len(pairs)
  BY ThePairs DEF SessionsInv, RequestsHold
<1>1. Go(s, Idle) /\ UNCHANGED <<user, pairs, used, cutoff>>
  BY DEF RefreshReused, LogoutClose, Die, kv
<1>2. closed \subseteq closed' /\ closed' \subseteq DOMAIN pairs
  <2>1. CASE RefreshReused(s)
    BY <1>0, <2>1, ThePairs DEF RefreshReused, Holds, SessionsTypeOK
  <2>2. CASE LogoutClose(s)
    BY <1>0, <2>2, ThePairs DEF LogoutClose, Holds, SessionsTypeOK
  <2>3. CASE Die(s)
    BY <1>0, <2>3 DEF Die, kv, SessionsTypeOK
  <2> QED
    BY <2>1, <2>2, <2>3
<1>3. /\ edits' \in 0 .. MaxEdits /\ deaths' \in 0 .. MaxDeaths
      /\ stale \subseteq stale' /\ stale' \subseteq DOMAIN pairs
      /\ h[s].pc = "revoking" => AllLive \subseteq stale'
  BY <1>0, CounterTypes DEF RefreshReused, LogoutClose, Die, bounds
<1> QED
  BY <1>0, <1>1, <1>2, <1>3, IdleHolds, RequestMoves

\* The row is read again before the new pair: an account that was blocked meanwhile
\* loses the session.
LEMMA LookupKeeps ==
  ASSUME SessionsInv, NEW s \in Handlers, RefreshRead(s)
  PROVE  SessionsInv'
<1>0. SessionsTypeOK /\ Len(pairs) \in Nat /\ Holds(h[s], Len(pairs))
      /\ DOMAIN pairs = 1 .. Len(pairs)
  BY ThePairs DEF SessionsInv, RequestsHold
<1>1. /\ h[s].pc = "consumed" /\ h[s].renews /\ h[s].token \in DOMAIN pairs /\ Renewing(s)
      /\ UNCHANGED <<user, pairs, used, cutoff, edits, deaths, stale>>
  BY <1>0 DEF RefreshRead, Holds, Renewing, bounds
<1>2. CASE Renewable(h[s].token)
  <2> DEFINE r == [h[s] EXCEPT !.pc = "verified", !.seen = user]
  <2>1. /\ r \in [pc : Steps, token : Numbers \cup {NONE}, seen : User \cup {NONE},
                  renews : BOOLEAN, mints : BOOLEAN]
        /\ Holds(r, Len(pairs)) /\ r.token = h[s].token
    BY <1>0, <1>1, <1>2 DEF SessionsTypeOK, Steps, Holds, Renewable
  <2>2. Go(s, r) /\ closed' = closed
    BY <1>2 DEF RefreshRead
  <2> HIDE DEF r
  <2> QED
    BY <1>0, <1>1, <2>1, <2>2, CounterTypes, RequestMoves
<1>3. CASE ~ Renewable(h[s].token)
  <2>1. Go(s, Idle) /\ closed' = closed \cup {pairs[h[s].token].sid}
    BY <1>3 DEF RefreshRead
  <2>2. closed' \subseteq DOMAIN pairs
    BY <1>0, <1>1, <2>1, ThePairs DEF SessionsTypeOK
  <2> QED
    BY <1>0, <1>1, <2>1, <2>2, CounterTypes, IdleHolds, RequestMoves
<1> QED
  BY <1>2, <1>3

-----------------------------------------------------------------------------
LEMMA SessionsInitInv == SessionsInit => SessionsInv
<1> SUFFICES ASSUME SessionsInit PROVE SessionsInv
  OBVIOUS
<1>1. /\ user \in User /\ pairs = <<>> /\ closed = {} /\ used = {} /\ cutoff = 0
      /\ h = [s \in Handlers |-> Idle] /\ edits = 0 /\ deaths = 0 /\ stale = {}
  BY DEF SessionsInit, User
<1>2. pairs \in Seq(Pair) /\ Len(pairs) = 0 /\ DOMAIN pairs = {}
  BY <1>1
<1>3. SessionsTypeOK
  BY <1>1, <1>2, IdleHolds, SessionsAssumption DEF SessionsTypeOK
<1>4. RequestsHold /\ OneEnd
  BY <1>1, <1>2, IdleHolds DEF RequestsHold, OneEnd, Renewing
<1>5. TokensSpeakForTheAccount
  BY <1>2 DEF TokensSpeakForTheAccount, AllLive
<1> QED
  BY <1>3, <1>4, <1>5 DEF SessionsInv

LEMMA SessionsNextInv ==
  SessionsInv /\ [SessionsNext]_sessionVars => SessionsInv'
<1> SUFFICES ASSUME SessionsInv, [SessionsNext]_sessionVars PROVE SessionsInv'
  OBVIOUS
<1>1. ASSUME NEW s \in Handlers,
             \/ Login(s) \/ Mint(s)
             \/ \E i \in Numbers : RefreshCheck(s, i) \/ LogoutCheck(s, i) \/ ChangeRead(s, i)
             \/ RefreshReused(s) \/ RefreshConsume(s) \/ RefreshRead(s)
             \/ LogoutClose(s)
             \/ ChangeCommit(s) \/ Revoke(s)
             \/ Administer(s) \/ Unblock(s) \/ Die(s)
      PROVE  SessionsInv'
  BY <1>1, ArriveKeeps, MintKeeps, ConsumeKeeps, EndKeeps, LookupKeeps, ChangeCommitKeeps,
     RevokeKeeps, AdministerKeeps, UnblockKeeps
<1>2. CASE UNCHANGED sessionVars
  BY <1>2 DEF sessionVars, SessionsInv, SessionsTypeOK, RequestsHold, OneEnd, Renewing,
              TokensSpeakForTheAccount, AllLive, Live
<1> QED
  BY <1>1, <1>2 DEF SessionsNext

(***************************************************************************)
(* The types of the account, the pairs, the kv store and the requests.     *)
(***************************************************************************)
THEOREM SessionsTypeCorrect == SessionsSpec => []SessionsTypeOK
<1>1. SessionsInv => SessionsTypeOK
  BY DEF SessionsInv
<1> QED
  BY <1>1, SessionsInitInv, SessionsNextInv, PTL DEF SessionsSpec

(***************************************************************************)
(* However requests overlap and wherever they die, a session has one end:  *)
(* one refresh token that can still be exchanged, or one request that is   *)
(* exchanging it, in a session that is closed too.                         *)
(***************************************************************************)
THEOREM OneEndAlways == SessionsSpec => []OneEnd
<1>1. SessionsInv => OneEnd
  BY DEF SessionsInv
<1> QED
  BY <1>1, SessionsInitInv, SessionsNextInv, PTL DEF SessionsSpec

(***************************************************************************)
(* So a refresh token works once (auth_service.refresh, SET NX).           *)
(***************************************************************************)
THEOREM OneLiveRefreshAlways == SessionsSpec => []OneLiveRefresh
<1>1. SessionsInv => OneLiveRefresh
  BY DEF SessionsInv, OneEnd, OneLiveRefresh, AllLive
<1> QED
  BY <1>1, SessionsInitInv, SessionsNextInv, PTL DEF SessionsSpec

(***************************************************************************)
(* A token that is accepted speaks for the account as it is (deps.py does  *)
(* not read the row), with the exceptions the property names.              *)
(***************************************************************************)
THEOREM TokensSpeakAlways == SessionsSpec => []TokensSpeakForTheAccount
<1>1. SessionsInv => TokensSpeakForTheAccount
  BY DEF SessionsInv
<1> QED
  BY <1>1, SessionsInitInv, SessionsNextInv, PTL DEF SessionsSpec

-----------------------------------------------------------------------------
(***************************************************************************)
(* What every step leaves of the past: pairs are only added, sessions only *)
(* closed, the moment of the last revocation only moved on.                *)
(***************************************************************************)
LEMMA PastKept ==
  ASSUME SessionsInv, [SessionsNext]_sessionVars
  PROVE  /\ closed \subseteq closed' /\ cutoff <= cutoff'
         /\ \/ pairs' = pairs
            \/ /\ closed' = closed
               /\ DOMAIN pairs' = DOMAIN pairs \cup {Len(pairs) + 1}
               /\ \A i \in DOMAIN pairs : pairs'[i] = pairs[i]
<1> DEFINE Grows ==
      /\ closed \subseteq closed' /\ cutoff <= cutoff'
      /\ \/ pairs' = pairs
         \/ /\ closed' = closed
            /\ DOMAIN pairs' = DOMAIN pairs \cup {Len(pairs) + 1}
            /\ \A i \in DOMAIN pairs : pairs'[i] = pairs[i]
<1>0. SessionsTypeOK /\ cutoff \in Nat /\ cutoff <= Len(pairs) /\ Len(pairs) \in Nat
  BY DEF SessionsInv, SessionsTypeOK
<1>1. CASE UNCHANGED <<pairs, cutoff>> /\ closed \subseteq closed'
  BY <1>0, <1>1
<1>2. ASSUME NEW s \in Handlers, Mint(s) PROVE Grows
  <2>1. PICK p : pairs' = Append(pairs, p)
    BY <1>2 DEF Mint
  <2>2. /\ DOMAIN pairs' = DOMAIN pairs \cup {Len(pairs) + 1}
        /\ \A i \in DOMAIN pairs : pairs'[i] = pairs[i]
    BY <1>0, <2>1 DEF SessionsTypeOK
  <2>3. UNCHANGED <<closed, cutoff>>
    BY <1>2 DEF Mint, kv
  <2> QED
    BY <1>0, <2>2, <2>3
<1>3. ASSUME NEW s \in Handlers, Revoke(s) PROVE Grows
  BY <1>0, <1>3 DEF Revoke
<1>4. ASSUME NEW s \in Handlers,
             \/ Login(s)
             \/ \E i \in Numbers : RefreshCheck(s, i) \/ LogoutCheck(s, i) \/ ChangeRead(s, i)
             \/ RefreshReused(s) \/ RefreshConsume(s) \/ RefreshRead(s)
             \/ LogoutClose(s) \/ ChangeCommit(s)
             \/ Administer(s) \/ Unblock(s) \/ Die(s)
      PROVE  Grows
  <2>1. UNCHANGED <<pairs, cutoff>> /\ closed \subseteq closed'
    BY <1>4 DEF Login, RefreshCheck, LogoutCheck, ChangeRead, RefreshReused, RefreshConsume,
                RefreshRead, LogoutClose, ChangeCommit, Administer, Unblock, Die, kv
  <2> QED
    BY <1>1, <2>1
<1>5. ASSUME UNCHANGED sessionVars PROVE Grows
  BY <1>1, <1>5 DEF sessionVars
<1> HIDE DEF Grows
<1>6. Grows
  BY <1>2, <1>3, <1>4, <1>5 DEF SessionsNext
<1> QED
  BY <1>6 DEF Grows

(***************************************************************************)
(* A session that is closed stays closed, and a pair refused once is       *)
(* refused for good, whatever renewal was on its way.                      *)
(***************************************************************************)
THEOREM ClosedForGoodAlways == SessionsSpec => ClosedForGood
<1> DEFINE Kept == /\ \A i \in DOMAIN pairs : ~ Live(i) => ~ Live(i)'
                   /\ \A i \in DOMAIN pairs' \ DOMAIN pairs :
                        pairs'[i].sid \in closed => ~ Live(i)'
<1>1. SessionsInv /\ [SessionsNext]_sessionVars => Kept
  <2> SUFFICES ASSUME SessionsInv, [SessionsNext]_sessionVars PROVE Kept
    OBVIOUS
  <2>1. /\ closed \subseteq closed' /\ cutoff <= cutoff'
        /\ \A i \in DOMAIN pairs : i \in DOMAIN pairs' /\ pairs'[i] = pairs[i]
    BY PastKept
  <2>2. cutoff \in Nat /\ cutoff' \in Nat /\ DOMAIN pairs \subseteq Nat
    <3>1. SessionsInv'
      BY SessionsNextInv
    <3> QED
      BY <3>1, ThePairs DEF SessionsInv, SessionsTypeOK
  <2> QED
    BY <2>1, <2>2 DEF Live
<1> HIDE DEF Kept
<1>2. SessionsSpec => [][Kept]_sessionVars
  BY <1>1, SessionsInitInv, SessionsNextInv, PTL DEF SessionsSpec
<1> QED
  BY <1>2 DEF ClosedForGood, Kept

-----------------------------------------------------------------------------
(***************************************************************************)
(* The requests that matter to a key: those past the check of its lock,    *)
(* those whose password was found wrong and not counted yet, those that    *)
(* are about to lock it.  Each is one of Attempts, and in one of the three *)
(* at most.                                                                *)
(***************************************************************************)
Admitted(att, k) ==
  {a \in Attempts : att[a].pc = "admitted" /\ (k = Name \/ att[a].ip = k)}

Uncounted(att, k) == {a \in Attempts : att[a].pc = "wrong" /\ k = Name}

DueToLock(att, k) == {a \in Attempts : k \in att[a].hits}

\* Which lockouts a request may be about to set, at the step it is at.
HitsFit ==
  \A a \in Attempts :
    /\ attempt[a].pc \in {"idle", "admitted"} => attempt[a].hits = {}
    /\ attempt[a].pc = "wrong" => attempt[a].hits \subseteq {attempt[a].ip}

\* A counter passes its limit only by requests that are about to lock its key.
CountersBounded ==
  \A k \in Keys : failures[k] <= Limit(k) - 1 + Cardinality(DueToLock(attempt, k))

\* While a key is not locked its counter is the history, but for what is not counted yet.
CountersTrue ==
  \A k \in Keys \ locked : checked[k] = failures[k] + Cardinality(Uncounted(attempt, k))

\* While it is locked, only the requests already past the check can add to the history.
LockHolds ==
  \A k \in locked :
    checked[k] + Cardinality(Admitted(attempt, k)) <= Limit(k) - 1 + Cardinality(Attempts)

ThrottleInv ==
  ThrottleTypeOK /\ HitsFit /\ CountersBounded /\ CountersTrue /\ LockHolds

-----------------------------------------------------------------------------
LEMMA LimitType == \A k : Limit(k) \in Nat \ {0}
BY ThrottleAssumption DEF Limit

(***************************************************************************)
(* Counting sets of requests.                                              *)
(***************************************************************************)
LEMMA Counted ==
  ASSUME NEW S \in SUBSET Attempts
  PROVE  /\ Cardinality(S) \in Nat /\ Cardinality(S) <= Cardinality(Attempts)
         /\ \A a \in Attempts \ S : Cardinality(S \cup {a}) = Cardinality(S) + 1
         /\ \A a \in S : Cardinality(S \ {a}) = Cardinality(S) - 1
<1>1. IsFiniteSet(S) /\ Cardinality(S) <= Cardinality(Attempts)
  BY FS_Subset, ThrottleAssumption
<1> QED
  BY <1>1, FS_CardinalityType, FS_AddElement, FS_RemoveElement

LEMMA CountedApart ==
  ASSUME NEW S, NEW T, IsFiniteSet(S), IsFiniteSet(T), S \cap T = {}
  PROVE  IsFiniteSet(S \cup T) /\ Cardinality(S \cup T) = Cardinality(S) + Cardinality(T)
<1>1. Cardinality(S) \in Nat /\ Cardinality(T) \in Nat
  BY FS_CardinalityType
<1>2. Cardinality(S \cap T) = 0
  BY FS_EmptySet
<1>3. /\ IsFiniteSet(S \cup T)
      /\ Cardinality(S \cup T) = Cardinality(S) + Cardinality(T) - Cardinality(S \cap T)
  BY FS_Union
<1> QED
  BY <1>1, <1>2, <1>3

LEMMA CountedTypes ==
  /\ \A att, k : /\ Cardinality(Admitted(att, k)) \in Nat
                 /\ Cardinality(Uncounted(att, k)) \in Nat
                 /\ Cardinality(DueToLock(att, k)) \in Nat
  /\ Cardinality(Attempts) \in Nat
BY Counted DEF Admitted, Uncounted, DueToLock

(***************************************************************************)
(* A request is in one of the three sets of a key at most, so that there   *)
(* are no more of them together than requests.                             *)
(***************************************************************************)
LEMMA ThreeKinds ==
  ASSUME ThrottleInv, NEW k \in Keys
  PROVE  Cardinality(Admitted(attempt, k)) + Cardinality(Uncounted(attempt, k)) + Cardinality(DueToLock(attempt, k))
           <= Cardinality(Attempts)
<1> DEFINE A == Admitted(attempt, k)  U == Uncounted(attempt, k)  D == DueToLock(attempt, k)
<1>1. A \subseteq Attempts /\ U \subseteq Attempts /\ D \subseteq Attempts
  BY DEF Admitted, Uncounted, DueToLock
<1>2. A \cap U = {}
  BY DEF Admitted, Uncounted
<1>3. A \cap D = {}
  BY DEF ThrottleInv, HitsFit, Admitted, DueToLock
<1>4. U \cap D = {}
  BY ThrottleAssumption DEF ThrottleInv, ThrottleTypeOK, HitsFit, Uncounted, DueToLock
<1> HIDE DEF A, U, D
<1>5. IsFiniteSet(A) /\ IsFiniteSet(U) /\ IsFiniteSet(D)
  BY <1>1, FS_Subset, ThrottleAssumption
<1>6. Cardinality(A \cup U) = Cardinality(A) + Cardinality(U) /\ IsFiniteSet(A \cup U)
  BY <1>2, <1>5, CountedApart
<1>7. (A \cup U) \cap D = {}
  BY <1>3, <1>4
<1>8. Cardinality((A \cup U) \cup D) = Cardinality(A) + Cardinality(U) + Cardinality(D)
  BY <1>5, <1>6, <1>7, CountedApart
<1>9. Cardinality((A \cup U) \cup D) <= Cardinality(Attempts)
  BY <1>1, Counted
<1> QED
  BY <1>8, <1>9 DEF A, U, D

(***************************************************************************)
(* The bound, whether the key is locked or not.                            *)
(***************************************************************************)
LEMMA HistoryBounded ==
  ASSUME ThrottleInv, NEW k \in Keys
  PROVE  checked[k] + Cardinality(Admitted(attempt, k)) <= Limit(k) - 1 + Cardinality(Attempts)
<1>0. /\ failures[k] \in Nat /\ checked[k] \in Nat /\ Limit(k) \in Nat
  BY LimitType DEF ThrottleInv, ThrottleTypeOK
<1>1. CASE k \in locked
  BY <1>1 DEF ThrottleInv, LockHolds
<1>2. CASE k \notin locked
  <2>1. /\ checked[k] = failures[k] + Cardinality(Uncounted(attempt, k))
        /\ failures[k] <= Limit(k) - 1 + Cardinality(DueToLock(attempt, k))
    BY <1>2 DEF ThrottleInv, CountersTrue, CountersBounded
  <2> QED
    BY <1>0, <2>1, ThreeKinds, CountedTypes
<1> QED
  BY <1>1, <1>2

-----------------------------------------------------------------------------
(***************************************************************************)
(* What a step that gives the request a the step pc and the lockouts hits  *)
(* makes of the three sets.                                                *)
(***************************************************************************)
LEMMA Moved ==
  ASSUME ThrottleTypeOK, NEW a \in Attempts, NEW r,
         r \in [pc : AttemptSteps, ip : Addresses, hits : SUBSET Keys],
         attempt' = [attempt EXCEPT ![a] = r]
  PROVE  /\ attempt' \in [Attempts -> [pc : AttemptSteps, ip : Addresses, hits : SUBSET Keys]]
         /\ attempt'[a] = r /\ \A b \in Attempts \ {a} : attempt'[b] = attempt[b]
         /\ \A k : Admitted(attempt', k) = IF r.pc = "admitted" /\ (k = Name \/ r.ip = k)
                                  THEN Admitted(attempt, k) \cup {a} ELSE Admitted(attempt, k) \ {a}
         /\ \A k : Uncounted(attempt', k) = IF r.pc = "wrong" /\ k = Name
                                   THEN Uncounted(attempt, k) \cup {a} ELSE Uncounted(attempt, k) \ {a}
         /\ \A k : DueToLock(attempt', k) = IF k \in r.hits
                                   THEN DueToLock(attempt, k) \cup {a} ELSE DueToLock(attempt, k) \ {a}
<1>1. /\ attempt' \in [Attempts -> [pc : AttemptSteps, ip : Addresses, hits : SUBSET Keys]]
      /\ attempt'[a] = r /\ \A b \in Attempts \ {a} : attempt'[b] = attempt[b]
  BY DEF ThrottleTypeOK
<1>2. ASSUME NEW k
      PROVE  Admitted(attempt', k) = IF r.pc = "admitted" /\ (k = Name \/ r.ip = k)
                            THEN Admitted(attempt, k) \cup {a} ELSE Admitted(attempt, k) \ {a}
  BY <1>1 DEF Admitted
<1>3. ASSUME NEW k
      PROVE  Uncounted(attempt', k) = IF r.pc = "wrong" /\ k = Name
                             THEN Uncounted(attempt, k) \cup {a} ELSE Uncounted(attempt, k) \ {a}
  BY <1>1 DEF Uncounted
<1>4. ASSUME NEW k
      PROVE  DueToLock(attempt', k) = IF k \in r.hits
                             THEN DueToLock(attempt, k) \cup {a} ELSE DueToLock(attempt, k) \ {a}
  BY <1>1 DEF DueToLock
<1> QED
  BY <1>1, <1>2, <1>3, <1>4

\* Taking the request out of a set it is not in, or in twice, changes no count.
LEMMA Recounted ==
  ASSUME NEW S \in SUBSET Attempts, NEW a \in Attempts
  PROVE  /\ a \notin S => S \ {a} = S
         /\ a \in S => S \cup {a} = S
         /\ S \ {a} \in SUBSET Attempts /\ S \cup {a} \in SUBSET Attempts
         /\ Cardinality(S \ {a}) <= Cardinality(S)
         /\ Cardinality(S \cup {a}) >= Cardinality(S)
         /\ Cardinality(S \ {a}) \in Nat /\ Cardinality(S \cup {a}) \in Nat
<1>1. /\ a \notin S => S \ {a} = S
      /\ a \in S => S \cup {a} = S
      /\ S \ {a} \in SUBSET Attempts /\ S \cup {a} \in SUBSET Attempts
  OBVIOUS
<1>2. Cardinality(S \ {a}) \in Nat /\ Cardinality(S \cup {a}) \in Nat /\ Cardinality(S) \in Nat
  BY <1>1, Counted
<1>3. Cardinality(S \ {a}) <= Cardinality(S)
  <2>1. a \in S => Cardinality(S \ {a}) = Cardinality(S) - 1
    BY Counted
  <2> QED
    BY <1>1, <1>2, <2>1
<1>4. Cardinality(S \cup {a}) >= Cardinality(S)
  <2>1. a \notin S => Cardinality(S \cup {a}) = Cardinality(S) + 1
    BY Counted
  <2> QED
    BY <1>1, <1>2, <2>1
<1> QED
  BY <1>1, <1>2, <1>3, <1>4

(***************************************************************************)
(* The password check begins: no lock was seen, so neither key is locked.  *)
(***************************************************************************)
LEMMA AdmitKeeps ==
  ASSUME ThrottleInv, NEW a \in Attempts, NEW ip \in Addresses, Admit(a, ip)
  PROVE  ThrottleInv'
<1> DEFINE r == [pc |-> "admitted", ip |-> ip, hits |-> {}]
<1>0. /\ attempt[a].pc = "idle" /\ ip \notin locked /\ Name \notin locked
      /\ attempt' = [attempt EXCEPT ![a] = r]
      /\ UNCHANGED <<failures, locked, lockouts, checked>>
      /\ ThrottleTypeOK /\ attempt[a].hits = {}
  BY DEF Admit, Locked, ThrottleInv, HitsFit
<1>1. /\ r \in [pc : AttemptSteps, ip : Addresses, hits : SUBSET Keys]
      /\ r.pc = "admitted" /\ r.ip = ip /\ r.hits = {}
  BY DEF AttemptSteps
<1> HIDE DEF r
<1>2. /\ ThrottleTypeOK' /\ HitsFit'
  BY <1>0, <1>1, Moved DEF ThrottleInv, ThrottleTypeOK, HitsFit
<1>3. /\ \A k \in Keys : DueToLock(attempt', k) = DueToLock(attempt, k) /\ Uncounted(attempt', k) = Uncounted(attempt, k)
      /\ \A k \in locked : Admitted(attempt', k) = Admitted(attempt, k)
  <2>1. \A k : a \notin DueToLock(attempt, k) /\ a \notin Uncounted(attempt, k)
    BY <1>0 DEF DueToLock, Uncounted
  <2>2. \A k : /\ DueToLock(attempt', k) = DueToLock(attempt, k) \ {a}
               /\ Uncounted(attempt', k) = Uncounted(attempt, k) \ {a}
    BY <1>0, <1>1, Moved, Zenon
  <2>3. \A k \in locked : Admitted(attempt', k) = Admitted(attempt, k) \ {a}
    <3>1. \A k \in locked : ~ (k = Name \/ r.ip = k)
      BY <1>0, <1>1
    <3> QED
      BY <1>0, <1>1, <3>1, Moved, Zenon
  <2>4. \A k : a \notin Admitted(attempt, k)
    BY <1>0 DEF Admitted
  <2> QED
    BY <2>1, <2>2, <2>3, <2>4
<1>4. CountersBounded' /\ CountersTrue' /\ LockHolds'
  BY <1>0, <1>3 DEF ThrottleInv, ThrottleTypeOK, CountersBounded, CountersTrue, LockHolds, Limit
<1> QED
  BY <1>2, <1>4 DEF ThrottleInv

(***************************************************************************)
(* A right password forgets the failures of the address.                   *)
(***************************************************************************)
LEMMA SucceedKeeps ==
  ASSUME ThrottleInv, NEW a \in Attempts, Succeed(a)
  PROVE  ThrottleInv'
<1> DEFINE ip == attempt[a].ip
           r  == [attempt[a] EXCEPT !.pc = "idle"]
<1>0. /\ attempt[a].pc = "admitted" /\ attempt[a].hits = {}
      /\ attempt' = [attempt EXCEPT ![a] = r]
      /\ failures' = [failures EXCEPT ![ip] = 0]
      /\ checked' = [checked EXCEPT ![ip] = 0]
      /\ UNCHANGED <<locked, lockouts>>
      /\ ThrottleTypeOK
  BY DEF Succeed, ThrottleInv, HitsFit
<1>1. /\ r \in [pc : AttemptSteps, ip : Addresses, hits : SUBSET Keys]
      /\ r.pc = "idle" /\ r.hits = {} /\ ip \in Addresses /\ ip \in Keys /\ ip # Name
      /\ attempt[a] \in [pc : AttemptSteps, ip : Addresses, hits : SUBSET Keys]
  BY <1>0, ThrottleAssumption DEF ThrottleTypeOK, AttemptSteps, Keys
<1> HIDE DEF r
<1>2. ThrottleTypeOK' /\ HitsFit'
  <2>1. failures' \in [Keys -> Nat] /\ checked' \in [Keys -> Nat]
    BY <1>0, <1>1 DEF ThrottleTypeOK
  <2> QED
    BY <1>0, <1>1, <2>1, Moved DEF ThrottleInv, ThrottleTypeOK, HitsFit
<1>3. \A k \in Keys : /\ DueToLock(attempt', k) = DueToLock(attempt, k) /\ Uncounted(attempt', k) = Uncounted(attempt, k)
                      /\ Admitted(attempt', k) = Admitted(attempt, k) \ {a}
  <2>1. \A k : a \notin DueToLock(attempt, k) /\ a \notin Uncounted(attempt, k)
    BY <1>0 DEF DueToLock, Uncounted
  <2>2. \A k : /\ DueToLock(attempt', k) = DueToLock(attempt, k) \ {a}
               /\ Uncounted(attempt', k) = Uncounted(attempt, k) \ {a}
               /\ Admitted(attempt', k) = Admitted(attempt, k) \ {a}
    <3>1. r.pc # "wrong" /\ r.pc # "admitted" /\ \A k : k \notin r.hits
      BY <1>1
    <3> QED
      BY <1>0, <1>1, <3>1, Moved, Zenon
  <2> QED
    BY <2>1, <2>2
<1>4. \A k \in Keys : Cardinality(Admitted(attempt', k)) <= Cardinality(Admitted(attempt, k))
                      /\ Cardinality(Admitted(attempt', k)) \in Nat
  BY <1>3, Recounted DEF Admitted
<1>5. CountersBounded'
  <2> SUFFICES ASSUME NEW k \in Keys
               PROVE  failures'[k] <= Limit(k) - 1 + Cardinality(DueToLock(attempt', k))
    BY DEF CountersBounded, Limit
  <2>1. CASE k = ip
    <3>1. failures'[k] = 0
      BY <1>0, <1>1, <2>1 DEF ThrottleTypeOK
    <3>2. Limit(k) - 1 \in Nat /\ Cardinality(DueToLock(attempt', k)) \in Nat
      BY LimitType, CountedTypes
    <3> QED
      BY <3>1, <3>2
  <2>2. CASE k # ip
    BY <1>0, <1>3, <2>2 DEF ThrottleInv, ThrottleTypeOK, CountersBounded
  <2> QED
    BY <2>1, <2>2
<1>6. CountersTrue'
  <2> SUFFICES ASSUME NEW k \in Keys \ locked
               PROVE  checked'[k] = failures'[k] + Cardinality(Uncounted(attempt', k))
    BY <1>0 DEF CountersTrue
  <2>1. CASE k = ip
    <3>1. Uncounted(attempt, k) = {}
      BY <1>1, <2>1 DEF Uncounted
    <3>2. Cardinality(Uncounted(attempt', k)) = 0
      BY <1>3, <3>1, FS_EmptySet
    <3>3. checked'[k] = 0 /\ failures'[k] = 0
      BY <1>0, <1>1, <2>1 DEF ThrottleTypeOK
    <3> QED
      BY <3>2, <3>3
  <2>2. CASE k # ip
    BY <1>0, <1>3, <2>2 DEF ThrottleInv, ThrottleTypeOK, CountersTrue
  <2> QED
    BY <2>1, <2>2
<1>7. LockHolds'
  <2> SUFFICES ASSUME NEW k \in locked
               PROVE  checked'[k] + Cardinality(Admitted(attempt', k))
                        <= Limit(k) - 1 + Cardinality(Attempts)
    BY <1>0 DEF LockHolds, Limit
  <2>0. k \in Keys /\ checked[k] \in Nat /\ checked'[k] \in Nat /\ checked'[k] <= checked[k]
    BY <1>0, <1>1 DEF ThrottleTypeOK
  <2>1. checked[k] + Cardinality(Admitted(attempt, k)) <= Limit(k) - 1 + Cardinality(Attempts)
    BY DEF ThrottleInv, LockHolds
  <2> QED
    BY <1>4, <2>0, <2>1, LimitType, CountedTypes
<1> QED
  BY <1>2, <1>5, <1>6, <1>7 DEF ThrottleInv

(***************************************************************************)
(* A wrong password: the counter of the address is raised, and if it is    *)
(* past its limit the request is about to lock the address.                *)
(***************************************************************************)
LEMMA FailKeeps ==
  ASSUME ThrottleInv, NEW a \in Attempts, Fail(a)
  PROVE  ThrottleInv'
<1> DEFINE ip == attempt[a].ip
           hits == IF failures[ip] + 1 >= Limit(ip) THEN {ip} ELSE {}
           r  == [attempt[a] EXCEPT !.pc = "wrong", !.hits = hits]
<1>0. /\ attempt[a].pc = "admitted" /\ attempt[a].hits = {}
      /\ attempt' = [attempt EXCEPT ![a] = r]
      /\ failures' = [failures EXCEPT ![ip] = @ + 1]
      /\ checked' = [checked EXCEPT ![ip] = @ + 1, ![Name] = @ + 1]
      /\ UNCHANGED <<locked, lockouts>>
      /\ ThrottleTypeOK
  BY DEF Fail, ThrottleInv, HitsFit
<1>1. /\ ip \in Addresses /\ ip \in Keys /\ Name \in Keys /\ ip # Name
      /\ attempt[a] \in [pc : AttemptSteps, ip : Addresses, hits : SUBSET Keys]
  BY <1>0, ThrottleAssumption DEF ThrottleTypeOK, Keys
<1>2. /\ r \in [pc : AttemptSteps, ip : Addresses, hits : SUBSET Keys]
      /\ r.pc = "wrong" /\ r.hits = hits /\ r.ip = ip
  BY <1>1 DEF AttemptSteps
<1> HIDE DEF r
<1>3. /\ \A k \in Keys : failures[k] \in Nat /\ checked[k] \in Nat
      /\ \A k \in Keys \ {ip} : failures'[k] = failures[k]
      /\ failures'[ip] = failures[ip] + 1
      /\ \A k \in Keys \ {ip, Name} : checked'[k] = checked[k]
      /\ checked'[ip] = checked[ip] + 1 /\ checked'[Name] = checked[Name] + 1
      /\ failures' \in [Keys -> Nat] /\ checked' \in [Keys -> Nat]
  BY <1>0, <1>1 DEF ThrottleTypeOK
<1>4. ThrottleTypeOK' /\ HitsFit'
  BY <1>0, <1>2, <1>3, Moved DEF ThrottleInv, ThrottleTypeOK, HitsFit
<1>5. \A k : /\ Admitted(attempt', k) = Admitted(attempt, k) \ {a}
             /\ k \notin hits => DueToLock(attempt', k) = DueToLock(attempt, k) \ {a}
             /\ k \in hits => DueToLock(attempt', k) = DueToLock(attempt, k) \cup {a}
             /\ k # Name => Uncounted(attempt', k) = Uncounted(attempt, k) \ {a}
             /\ k = Name => Uncounted(attempt', k) = Uncounted(attempt, k) \cup {a}
  <2>1. r.pc # "admitted"
    BY <1>2
  <2> HIDE DEF hits
  <2> QED
    BY <1>0, <1>2, <2>1, Moved, Zenon
<1>6. /\ \A k : /\ Admitted(attempt, k) \in SUBSET Attempts
                /\ DueToLock(attempt, k) \in SUBSET Attempts
                /\ Uncounted(attempt, k) \in SUBSET Attempts
      /\ \A k : a \notin DueToLock(attempt, k) /\ a \notin Uncounted(attempt, k)
      /\ \A k \in {ip, Name} : a \in Admitted(attempt, k)
  BY <1>0 DEF Admitted, DueToLock, Uncounted
<1>7. CountersBounded'
  <2> SUFFICES ASSUME NEW k \in Keys
               PROVE  failures'[k] <= Limit(k) - 1 + Cardinality(DueToLock(attempt', k))
    BY DEF CountersBounded, Limit
  <2>0. /\ failures[k] <= Limit(k) - 1 + Cardinality(DueToLock(attempt, k))
        /\ Limit(k) \in Nat \ {0} /\ Cardinality(DueToLock(attempt, k)) \in Nat
    BY LimitType, CountedTypes DEF ThrottleInv, CountersBounded
  <2>1. CASE k \in hits
    <3>1. Cardinality(DueToLock(attempt', k)) = Cardinality(DueToLock(attempt, k)) + 1
      BY <1>5, <1>6, <2>1, Counted
    <3> QED
      BY <1>3, <2>0, <2>1, <3>1
  <2>2. CASE k \notin hits
    <3>1. DueToLock(attempt', k) = DueToLock(attempt, k)
      BY <1>5, <1>6, <2>2
    <3> QED
      BY <1>3, <2>0, <2>2, <3>1
  <2> QED
    BY <2>1, <2>2
<1>8. CountersTrue'
  <2> SUFFICES ASSUME NEW k \in Keys \ locked
               PROVE  checked'[k] = failures'[k] + Cardinality(Uncounted(attempt', k))
    BY <1>0 DEF CountersTrue
  <2>0. /\ checked[k] = failures[k] + Cardinality(Uncounted(attempt, k))
        /\ Cardinality(Uncounted(attempt, k)) \in Nat
    BY CountedTypes DEF ThrottleInv, CountersTrue
  <2>1. CASE k = Name
    <3>1. Cardinality(Uncounted(attempt', k)) = Cardinality(Uncounted(attempt, k)) + 1
      BY <1>5, <1>6, <2>1, Counted
    <3> QED
      BY <1>1, <1>3, <2>0, <2>1, <3>1
  <2>2. CASE k # Name
    <3>1. Uncounted(attempt', k) = {} /\ Uncounted(attempt, k) = {}
      BY <2>2 DEF Uncounted
    <3>2. checked'[k] = checked[k] + 1 <=> failures'[k] = failures[k] + 1
      BY <1>3, <2>2
    <3> QED
      BY <1>3, <2>0, <2>2, <3>1, <3>2
  <2> QED
    BY <2>1, <2>2
<1>9. LockHolds'
  <2> SUFFICES ASSUME NEW k \in locked
               PROVE  checked'[k] + Cardinality(Admitted(attempt', k))
                        <= Limit(k) - 1 + Cardinality(Attempts)
    BY <1>0 DEF LockHolds, Limit
  <2>0. /\ checked[k] + Cardinality(Admitted(attempt, k)) <= Limit(k) - 1 + Cardinality(Attempts)
        /\ Limit(k) \in Nat /\ Cardinality(Attempts) \in Nat
        /\ Cardinality(Admitted(attempt, k)) \in Nat /\ k \in Keys
    BY <1>0, LimitType, CountedTypes DEF ThrottleInv, LockHolds, ThrottleTypeOK
  <2>1. CASE k \in {ip, Name}
    <3>1. Cardinality(Admitted(attempt', k)) = Cardinality(Admitted(attempt, k)) - 1
      BY <1>5, <1>6, <2>1, Counted
    <3> QED
      BY <1>1, <1>3, <2>0, <2>1, <3>1
  <2>2. CASE k \notin {ip, Name}
    <3>1. Cardinality(Admitted(attempt', k)) <= Cardinality(Admitted(attempt, k))
          /\ Cardinality(Admitted(attempt', k)) \in Nat
      <4>1. Admitted(attempt, k) \in SUBSET Attempts
        BY <1>6
      <4>2. Admitted(attempt', k) = Admitted(attempt, k) \ {a}
        BY <1>5
      <4> QED
        BY <4>1, <4>2, Recounted, Zenon
    <3> QED
      BY <1>3, <2>0, <2>2, <3>1
  <2> QED
    BY <2>1, <2>2
<1> QED
  BY <1>4, <1>7, <1>8, <1>9 DEF ThrottleInv

(***************************************************************************)
(* The failure is counted for the name too.                                *)
(***************************************************************************)
LEMMA CountKeeps ==
  ASSUME ThrottleInv, NEW a \in Attempts, Count(a)
  PROVE  ThrottleInv'
<1> DEFINE mine == attempt[a].hits
           hits == mine \cup (IF failures[Name] + 1 >= Limit(Name) THEN {Name} ELSE {})
           r    == [attempt[a] EXCEPT !.pc = IF hits = {} THEN "idle" ELSE "counted",
                                      !.hits = hits]
<1>0. /\ attempt[a].pc = "wrong" /\ mine \subseteq {attempt[a].ip}
      /\ attempt' = [attempt EXCEPT ![a] = r]
      /\ failures' = [failures EXCEPT ![Name] = @ + 1]
      /\ UNCHANGED <<locked, lockouts, checked>>
      /\ ThrottleTypeOK
  BY DEF Count, ThrottleInv, HitsFit
<1>1. /\ attempt[a].ip \in Addresses /\ Name \in Keys /\ Name \notin mine
      /\ attempt[a] \in [pc : AttemptSteps, ip : Addresses, hits : SUBSET Keys]
      /\ hits \in SUBSET Keys
  BY <1>0, ThrottleAssumption DEF ThrottleTypeOK, Keys
<1>2. /\ r \in [pc : AttemptSteps, ip : Addresses, hits : SUBSET Keys]
      /\ r.hits = hits /\ r.pc \in {"idle", "counted"} /\ (r.pc = "idle" => hits = {})
  BY <1>1 DEF AttemptSteps
<1> HIDE DEF r
<1>3. /\ \A k \in Keys : failures[k] \in Nat
      /\ \A k \in Keys \ {Name} : failures'[k] = failures[k]
      /\ failures'[Name] = failures[Name] + 1
      /\ failures' \in [Keys -> Nat]
  BY <1>0, <1>1 DEF ThrottleTypeOK
<1>4. ThrottleTypeOK' /\ HitsFit'
  BY <1>0, <1>2, <1>3, Moved DEF ThrottleInv, ThrottleTypeOK, HitsFit
<1>5. \A k : /\ Admitted(attempt', k) = Admitted(attempt, k) \ {a}
             /\ k \notin hits => DueToLock(attempt', k) = DueToLock(attempt, k) \ {a}
             /\ k \in hits => DueToLock(attempt', k) = DueToLock(attempt, k) \cup {a}
             /\ Uncounted(attempt', k) = Uncounted(attempt, k) \ {a}
  <2>1. r.pc # "admitted" /\ r.pc # "wrong"
    BY <1>2
  <2> HIDE DEF hits
  <2> QED
    BY <1>0, <1>2, <2>1, Moved, Zenon
<1>6. /\ \A k : /\ Admitted(attempt, k) \in SUBSET Attempts
                /\ DueToLock(attempt, k) \in SUBSET Attempts
                /\ Uncounted(attempt, k) \in SUBSET Attempts
                /\ a \notin Admitted(attempt, k)
      /\ \A k : a \in DueToLock(attempt, k) <=> k \in mine
      /\ a \in Uncounted(attempt, Name)
  BY <1>0 DEF Admitted, DueToLock, Uncounted
<1>7. CountersBounded'
  <2> SUFFICES ASSUME NEW k \in Keys
               PROVE  failures'[k] <= Limit(k) - 1 + Cardinality(DueToLock(attempt', k))
    BY DEF CountersBounded, Limit
  <2>0. /\ failures[k] <= Limit(k) - 1 + Cardinality(DueToLock(attempt, k))
        /\ Limit(k) \in Nat \ {0} /\ Cardinality(DueToLock(attempt, k)) \in Nat
    BY LimitType, CountedTypes DEF ThrottleInv, CountersBounded
  <2>1. CASE k = Name /\ k \in hits
    <3>1. a \notin DueToLock(attempt, k)
      BY <1>1, <1>6, <2>1
    <3>2. Cardinality(DueToLock(attempt', k)) = Cardinality(DueToLock(attempt, k)) + 1
      BY <1>5, <1>6, <2>1, <3>1, Counted
    <3> QED
      BY <1>3, <2>0, <2>1, <3>2
  <2>2. CASE k = Name /\ k \notin hits
    <3>1. failures[Name] + 1 < Limit(Name)
      BY <1>1, <1>3, <2>0, <2>2
    <3>2. Cardinality(DueToLock(attempt', k)) \in Nat
      BY CountedTypes
    <3> QED
      BY <1>1, <1>3, <2>0, <2>2, <3>1, <3>2
  <2>3. CASE k # Name
    <3>1. k \in hits <=> k \in mine
      BY <2>3
    <3>2. DueToLock(attempt', k) = DueToLock(attempt, k)
      <4>1. CASE k \in mine
        <5>1. a \in DueToLock(attempt, k)
          BY <1>6, <4>1
        <5>2. DueToLock(attempt', k) = DueToLock(attempt, k) \cup {a}
          BY <1>5, <3>1, <4>1
        <5> QED
          BY <5>1, <5>2
      <4>2. CASE k \notin mine
        <5>1. a \notin DueToLock(attempt, k)
          BY <1>6, <4>2
        <5>2. DueToLock(attempt', k) = DueToLock(attempt, k) \ {a}
          BY <1>5, <3>1, <4>2
        <5> QED
          BY <5>1, <5>2
      <4> QED
        BY <4>1, <4>2
    <3> QED
      BY <1>3, <2>0, <2>3, <3>2
  <2> QED
    BY <2>1, <2>2, <2>3
<1>8. CountersTrue'
  <2> SUFFICES ASSUME NEW k \in Keys \ locked
               PROVE  checked[k] = failures'[k] + Cardinality(Uncounted(attempt', k))
    BY <1>0 DEF CountersTrue
  <2>0. /\ checked[k] = failures[k] + Cardinality(Uncounted(attempt, k))
        /\ Cardinality(Uncounted(attempt, k)) \in Nat
    BY CountedTypes DEF ThrottleInv, CountersTrue
  <2>1. CASE k = Name
    <3>1. Cardinality(Uncounted(attempt', k)) = Cardinality(Uncounted(attempt, k)) - 1
      BY <1>5, <1>6, <2>1, Counted
    <3> QED
      BY <1>1, <1>3, <2>0, <2>1, <3>1
  <2>2. CASE k # Name
    <3>1. Uncounted(attempt', k) = {} /\ Uncounted(attempt, k) = {}
      BY <2>2 DEF Uncounted
    <3> QED
      BY <1>3, <2>0, <2>2, <3>1
  <2> QED
    BY <2>1, <2>2
<1>9. LockHolds'
  <2>1. ASSUME NEW k PROVE Admitted(attempt', k) = Admitted(attempt, k)
    <3>1. a \notin Admitted(attempt, k)
      BY <1>6
    <3>2. Admitted(attempt', k) = Admitted(attempt, k) \ {a}
      BY <1>5
    <3> QED
      BY <3>1, <3>2
  <2> QED
    BY <1>0, <2>1 DEF ThrottleInv, LockHolds, Limit
<1> QED
  BY <1>4, <1>7, <1>8, <1>9 DEF ThrottleInv

LEMMA NextLockoutKeeps ==
  ASSUME ThrottleInv, NEW a \in Attempts, NextLockout(a)
  PROVE  ThrottleInv'
<1> DEFINE r == [attempt[a] EXCEPT !.pc = "locking"]
<1>0. /\ attempt[a].pc = "counted" /\ attempt' = [attempt EXCEPT ![a] = r]
      /\ lockouts < MaxLockouts /\ lockouts' = lockouts + 1
      /\ UNCHANGED <<failures, locked, checked>>
      /\ ThrottleTypeOK
  BY DEF NextLockout, ThrottleInv
<1>1. /\ r \in [pc : AttemptSteps, ip : Addresses, hits : SUBSET Keys]
      /\ r.hits = attempt[a].hits /\ r.pc = "locking"
  BY <1>0 DEF ThrottleTypeOK, AttemptSteps
<1> HIDE DEF r
<1>2. lockouts' \in 0 .. MaxLockouts
  BY <1>0, ThrottleAssumption DEF ThrottleTypeOK
<1>3. /\ attempt' \in [Attempts -> [pc : AttemptSteps, ip : Addresses, hits : SUBSET Keys]]
      /\ attempt'[a] = r /\ \A b \in Attempts \ {a} : attempt'[b] = attempt[b]
  BY <1>0, <1>1, Moved
<1>4. ThrottleTypeOK' /\ HitsFit'
  BY <1>0, <1>1, <1>2, <1>3 DEF ThrottleInv, ThrottleTypeOK, HitsFit
<1>5. \A k : /\ Admitted(attempt', k) = Admitted(attempt, k)
             /\ DueToLock(attempt', k) = DueToLock(attempt, k)
             /\ Uncounted(attempt', k) = Uncounted(attempt, k)
  BY <1>0, <1>1, <1>3 DEF Admitted, DueToLock, Uncounted
<1>6. CountersBounded' /\ CountersTrue' /\ LockHolds'
  BY <1>0, <1>5 DEF ThrottleInv, CountersBounded, CountersTrue, LockHolds, Limit
<1> QED
  BY <1>4, <1>6 DEF ThrottleInv

(***************************************************************************)
(* The lock is set.  Requests past the check may still add to the history; *)
(* with those that made it, they are no more than there are requests.      *)
(***************************************************************************)
LEMMA LockKeeps ==
  ASSUME ThrottleInv, NEW a \in Attempts, Lock(a)
  PROVE  ThrottleInv'
<1> DEFINE hits == attempt[a].hits
           r    == [attempt[a] EXCEPT !.pc = "idle", !.hits = {}]
<1>0. /\ attempt[a].pc = "locking" /\ attempt' = [attempt EXCEPT ![a] = r]
      /\ locked' = locked \cup hits
      /\ failures' = [k \in Keys |-> IF k \in hits THEN 0 ELSE failures[k]]
      /\ UNCHANGED <<lockouts, checked>>
      /\ ThrottleTypeOK
  BY DEF Lock, ThrottleInv
<1>1. /\ r \in [pc : AttemptSteps, ip : Addresses, hits : SUBSET Keys]
      /\ r.hits = {} /\ r.pc = "idle" /\ hits \subseteq Keys
  BY <1>0 DEF ThrottleTypeOK, AttemptSteps
<1> HIDE DEF r
<1>2. /\ \A k \in Keys : failures[k] \in Nat
      /\ \A k \in Keys \ hits : failures'[k] = failures[k]
      /\ \A k \in hits : failures'[k] = 0
      /\ failures' \in [Keys -> Nat]
  BY <1>0, <1>1 DEF ThrottleTypeOK
<1>3. /\ attempt' \in [Attempts -> [pc : AttemptSteps, ip : Addresses, hits : SUBSET Keys]]
      /\ attempt'[a] = r /\ \A b \in Attempts \ {a} : attempt'[b] = attempt[b]
  BY <1>0, <1>1, Moved
<1>4. ThrottleTypeOK' /\ HitsFit'
  BY <1>0, <1>1, <1>2, <1>3 DEF ThrottleInv, ThrottleTypeOK, HitsFit
<1>5. /\ \A k : /\ Admitted(attempt', k) = Admitted(attempt, k)
                /\ Uncounted(attempt', k) = Uncounted(attempt, k)
      /\ \A k \in Keys \ hits : DueToLock(attempt', k) = DueToLock(attempt, k)
  BY <1>0, <1>1, <1>3 DEF Admitted, DueToLock, Uncounted
<1>6. CountersBounded'
  <2> SUFFICES ASSUME NEW k \in Keys
               PROVE  failures'[k] <= Limit(k) - 1 + Cardinality(DueToLock(attempt', k))
    BY DEF CountersBounded, Limit
  <2>1. CASE k \in hits
    <3>1. Limit(k) - 1 \in Nat /\ Cardinality(DueToLock(attempt', k)) \in Nat
      BY LimitType, CountedTypes
    <3> QED
      BY <1>2, <2>1, <3>1
  <2>2. CASE k \notin hits
    BY <1>2, <1>5, <2>2 DEF ThrottleInv, CountersBounded
  <2> QED
    BY <2>1, <2>2
<1>7. CountersTrue'
  BY <1>0, <1>2, <1>5 DEF ThrottleInv, CountersTrue
<1>8. LockHolds'
  <2> SUFFICES ASSUME NEW k \in locked'
               PROVE  checked[k] + Cardinality(Admitted(attempt', k))
                        <= Limit(k) - 1 + Cardinality(Attempts)
    BY <1>0 DEF LockHolds, Limit
  <2>1. k \in Keys
    BY <1>0, <1>1 DEF ThrottleTypeOK
  <2> QED
    BY <1>5, <2>1, HistoryBounded
<1> QED
  BY <1>4, <1>6, <1>7, <1>8 DEF ThrottleInv

(***************************************************************************)
(* The store forgets a lock or a window, with no request in between.       *)
(***************************************************************************)
LEMMA NobodyThere ==
  ASSUME ThrottleInv, Quiet, NEW k
  PROVE  Admitted(attempt, k) = {} /\ Uncounted(attempt, k) = {} /\ DueToLock(attempt, k) = {}
BY DEF Quiet, ThrottleInv, HitsFit, Admitted, Uncounted, DueToLock

LEMMA LockEndsKeeps ==
  ASSUME ThrottleInv, NEW k \in Keys, LockEnds(k)
  PROVE  ThrottleInv'
<1>0. /\ Quiet /\ k \in locked /\ locked' = locked \ {k}
      /\ checked' = [checked EXCEPT ![k] = failures[k]]
      /\ UNCHANGED <<failures, lockouts, attempt>>
      /\ ThrottleTypeOK
  BY DEF LockEnds, ThrottleInv
<1>1. ThrottleTypeOK' /\ HitsFit' /\ CountersBounded'
  BY <1>0 DEF ThrottleInv, ThrottleTypeOK, HitsFit, CountersBounded, Limit, DueToLock
<1>2. /\ \A j \in Keys \ {k} : checked'[j] = checked[j]
      /\ checked'[k] = failures[k] /\ failures[k] \in Nat
  BY <1>0 DEF ThrottleTypeOK
<1>3. CountersTrue'
  <2> SUFFICES ASSUME NEW j \in Keys \ locked'
               PROVE  checked'[j] = failures[j] + Cardinality(Uncounted(attempt, j))
    BY <1>0 DEF CountersTrue
  <2>1. CASE j = k
    <3>1. Cardinality(Uncounted(attempt, j)) = 0
      BY <1>0, NobodyThere, FS_EmptySet
    <3> QED
      BY <1>2, <2>1, <3>1
  <2>2. CASE j # k
    BY <1>0, <1>2, <2>2 DEF ThrottleInv, CountersTrue
  <2> QED
    BY <2>1, <2>2
<1>4. LockHolds'
  <2> SUFFICES ASSUME NEW j \in locked'
               PROVE  checked'[j] + Cardinality(Admitted(attempt, j))
                        <= Limit(j) - 1 + Cardinality(Attempts)
    BY <1>0 DEF LockHolds, Limit
  <2>1. j \in locked /\ j \in Keys \ {k}
    BY <1>0 DEF ThrottleTypeOK
  <2> QED
    BY <1>2, <2>1 DEF ThrottleInv, LockHolds
<1> QED
  BY <1>1, <1>3, <1>4 DEF ThrottleInv

LEMMA WindowEndsKeeps ==
  ASSUME ThrottleInv, NEW k \in Keys, WindowEnds(k)
  PROVE  ThrottleInv'
<1>0. /\ Quiet /\ k \notin locked
      /\ failures' = [failures EXCEPT ![k] = 0]
      /\ checked' = [checked EXCEPT ![k] = 0]
      /\ UNCHANGED <<locked, lockouts, attempt>>
      /\ ThrottleTypeOK
  BY DEF WindowEnds, ThrottleInv
<1>1. /\ \A j \in Keys \ {k} : checked'[j] = checked[j] /\ failures'[j] = failures[j]
      /\ checked'[k] = 0 /\ failures'[k] = 0
      /\ failures' \in [Keys -> Nat] /\ checked' \in [Keys -> Nat]
  BY <1>0 DEF ThrottleTypeOK
<1>2. ThrottleTypeOK' /\ HitsFit'
  BY <1>0, <1>1 DEF ThrottleInv, ThrottleTypeOK, HitsFit
<1>3. CountersBounded'
  <2> SUFFICES ASSUME NEW j \in Keys
               PROVE  failures'[j] <= Limit(j) - 1 + Cardinality(DueToLock(attempt, j))
    BY <1>0 DEF CountersBounded, Limit
  <2>1. Limit(j) - 1 \in Nat /\ Cardinality(DueToLock(attempt, j)) \in Nat
    BY LimitType, CountedTypes
  <2> QED
    BY <1>1, <2>1 DEF ThrottleInv, CountersBounded
<1>4. CountersTrue'
  <2> SUFFICES ASSUME NEW j \in Keys \ locked
               PROVE  checked'[j] = failures'[j] + Cardinality(Uncounted(attempt, j))
    BY <1>0 DEF CountersTrue
  <2>1. Cardinality(Uncounted(attempt, j)) = 0
    BY <1>0, NobodyThere, FS_EmptySet
  <2> QED
    BY <1>1, <2>1 DEF ThrottleInv, CountersTrue
<1>5. LockHolds'
  <2> SUFFICES ASSUME NEW j \in locked
               PROVE  checked'[j] + Cardinality(Admitted(attempt, j))
                        <= Limit(j) - 1 + Cardinality(Attempts)
    BY <1>0 DEF LockHolds, Limit
  <2>1. j \in Keys \ {k}
    BY <1>0 DEF ThrottleTypeOK
  <2> QED
    BY <1>1, <2>1 DEF ThrottleInv, LockHolds
<1> QED
  BY <1>2, <1>3, <1>4, <1>5 DEF ThrottleInv

-----------------------------------------------------------------------------
LEMMA ThrottleInitInv == ThrottleInit => ThrottleInv
<1> SUFFICES ASSUME ThrottleInit PROVE ThrottleInv
  OBVIOUS
<1>1. PICK ip \in Addresses : attempt = [a \in Attempts |-> [pc |-> "idle", ip |-> ip, hits |-> {}]]
  BY DEF ThrottleInit
<1>2. /\ failures = [k \in Keys |-> 0] /\ checked = [k \in Keys |-> 0]
      /\ locked = {} /\ lockouts = 0
  BY DEF ThrottleInit
<1>3. ThrottleTypeOK
  BY <1>1, <1>2, ThrottleAssumption DEF ThrottleTypeOK, AttemptSteps
<1>4. HitsFit
  BY <1>1 DEF HitsFit
<1>5. CountersBounded
  <2> SUFFICES ASSUME NEW k \in Keys
               PROVE  failures[k] <= Limit(k) - 1 + Cardinality(DueToLock(attempt, k))
    BY DEF CountersBounded
  <2>1. Limit(k) - 1 \in Nat /\ Cardinality(DueToLock(attempt, k)) \in Nat
    BY LimitType, CountedTypes
  <2> QED
    BY <1>2, <2>1
<1>6. CountersTrue
  <2> SUFFICES ASSUME NEW k \in Keys
               PROVE  checked[k] = failures[k] + Cardinality(Uncounted(attempt, k))
    BY DEF CountersTrue
  <2>1. Uncounted(attempt, k) = {}
    BY <1>1 DEF Uncounted
  <2> QED
    BY <1>2, <2>1, FS_EmptySet
<1> QED
  BY <1>2, <1>3, <1>4, <1>5, <1>6 DEF ThrottleInv, LockHolds

LEMMA ThrottleNextInv == ThrottleInv /\ [ThrottleNext]_throttleVars => ThrottleInv'
<1> SUFFICES ASSUME ThrottleInv, [ThrottleNext]_throttleVars PROVE ThrottleInv'
  OBVIOUS
<1>1. ASSUME NEW a \in Attempts,
             \/ \E ip \in Addresses : Admit(a, ip)
             \/ Succeed(a) \/ Fail(a) \/ Count(a) \/ NextLockout(a) \/ Lock(a)
      PROVE  ThrottleInv'
  BY <1>1, AdmitKeeps, SucceedKeeps, FailKeeps, CountKeeps, NextLockoutKeeps, LockKeeps
<1>2. ASSUME NEW k \in Keys, LockEnds(k) \/ WindowEnds(k) PROVE ThrottleInv'
  BY <1>2, LockEndsKeeps, WindowEndsKeeps
<1>3. CASE UNCHANGED throttleVars
  BY <1>3 DEF throttleVars, ThrottleInv, ThrottleTypeOK, HitsFit, CountersBounded, CountersTrue,
              LockHolds, Limit, Admitted, Uncounted, DueToLock
<1> QED
  BY <1>1, <1>2, <1>3 DEF ThrottleNext

(***************************************************************************)
(* The types of the counters, the locks and the requests.                  *)
(***************************************************************************)
THEOREM ThrottleTypeCorrect == ThrottleSpec => []ThrottleTypeOK
<1>1. ThrottleInv => ThrottleTypeOK
  BY DEF ThrottleInv
<1> QED
  BY <1>1, ThrottleInitInv, ThrottleNextInv, PTL DEF ThrottleSpec

(***************************************************************************)
(* While a key is not locked, its counter and the requests that have not   *)
(* counted yet are the whole history, however they overlap: no failure is  *)
(* forgotten.                                                              *)
(***************************************************************************)
THEOREM CountersTrueAlways == ThrottleSpec => []CountersTrue
<1>1. ThrottleInv => CountersTrue
  BY DEF ThrottleInv
<1> QED
  BY <1>1, ThrottleInitInv, ThrottleNextInv, PTL DEF ThrottleSpec

(***************************************************************************)
(* Checking the locks, the password and counting are separate steps, and   *)
(* yet the passwords checked before a lock or a window ends are no more    *)
(* than the limit and one for each other request (throttle.py).            *)
(***************************************************************************)
THEOREM AttemptsBoundedAlways == ThrottleSpec => []AttemptsBounded
<1>1. ThrottleInv => AttemptsBounded
  <2> SUFFICES ASSUME ThrottleInv, NEW k \in Keys
               PROVE  checked[k] <= Limit(k) + Cardinality(Attempts) - 1
    BY DEF AttemptsBounded
  <2>1. checked[k] \in Nat /\ Limit(k) \in Nat
    BY LimitType DEF ThrottleInv, ThrottleTypeOK
  <2> QED
    BY <2>1, HistoryBounded, CountedTypes
<1> QED
  BY <1>1, ThrottleInitInv, ThrottleNextInv, PTL DEF ThrottleSpec

-----------------------------------------------------------------------------
(***************************************************************************)
(* Permissions.  That a copy is behind only for a reason is inductive with *)
(* the types.                                                              *)
(***************************************************************************)
PermissionsInv == PermissionsTypeOK /\ OwnChangesSeen

LEMMA SeededType == matrix \in Matrix => Seeded \in Matrix
<1> SUFFICES ASSUME matrix \in Matrix, NEW r \in EditableRoles
             PROVE  matrix[r] \cup Defaults[r] \subseteq Catalogue
  BY DEF Seeded, Matrix
<1> QED
  BY CatalogueAssumption DEF Matrix

LEMMA PermissionsInitInv == PermissionsInit => PermissionsInv
<1> SUFFICES ASSUME PermissionsInit PROVE PermissionsInv
  OBVIOUS
<1>1. Defaults \in Matrix
  BY CatalogueAssumption DEF Matrix
<1>2. saves \in 0 .. MaxSaves /\ starts \in 0 .. MaxStarts
  BY CatalogueAssumption DEF PermissionsInit
<1>3. PermissionsTypeOK
  BY <1>1, <1>2 DEF PermissionsInit, PermissionsTypeOK
<1>4. OwnChangesSeen
  BY DEF PermissionsInit, OwnChangesSeen
<1> QED
  BY <1>3, <1>4 DEF PermissionsInv

LEMMA PermissionsTypes ==
  ASSUME PermissionsTypeOK, PermissionsNext
  PROVE  PermissionsTypeOK'
<1> USE DEF PermissionsTypeOK
<1>1. ASSUME NEW p \in Processes, LoadRead(p) PROVE PermissionsTypeOK'
  BY <1>1 DEF LoadRead
<1>2. ASSUME NEW p \in Processes, LoadPublish(p) PROVE PermissionsTypeOK'
  BY <1>2 DEF LoadPublish
<1>3. ASSUME NEW role \in EditableRoles, NEW asked \in SUBSET Catalogue, Save(role, asked)
      PROVE  PermissionsTypeOK'
  <2>1. asked \ Protected \in SUBSET Catalogue
    OBVIOUS
  <2>2. matrix' \in Matrix
    BY <1>3, <2>1 DEF Save, Matrix
  <2>3. chosen' \in [EditableRoles -> (SUBSET Catalogue) \cup {NONE}]
    BY <1>3, <2>1 DEF Save
  <2>4. saves' \in 0 .. MaxSaves /\ saving' \in BOOLEAN /\ missed' \subseteq Processes
    BY <1>3, CatalogueAssumption DEF Save
  <2> QED
    BY <1>3, <2>2, <2>3, <2>4 DEF Save
<1>4. ASSUME Invalidate PROVE PermissionsTypeOK'
  BY <1>4 DEF Invalidate
<1>5. ASSUME Restart PROVE PermissionsTypeOK'
  <2>1. matrix' \in Matrix
    BY <1>5, SeededType DEF Restart
  <2>2. starts' \in 0 .. MaxStarts
    BY <1>5, CatalogueAssumption DEF Restart
  <2>3. saving' \in BOOLEAN /\ missed' \subseteq Processes
    BY <1>5 DEF Restart
  <2>4. /\ cache' \in [Processes -> Matrix \cup {NONE}]
        /\ load' \in [Processes -> Matrix \cup {NONE}]
    BY <1>5 DEF Restart
  <2> QED
    BY <1>5, <2>1, <2>2, <2>3, <2>4 DEF Restart
<1> QED
  BY <1>1, <1>2, <1>3, <1>4, <1>5 DEF PermissionsNext

(***************************************************************************)
(* A copy falls behind at a Save or a Restart (the others' copies are      *)
(* missed, the server's own is to be dropped), or is behind when it is     *)
(* published.                                                              *)
(***************************************************************************)
LEMMA CopiesBehind ==
  ASSUME PermissionsTypeOK, OwnChangesSeen, PermissionsNext
  PROVE  OwnChangesSeen'
<1> USE DEF PermissionsTypeOK, OwnChangesSeen
<1>1. ASSUME NEW p \in Processes, LoadRead(p) PROVE OwnChangesSeen'
  BY <1>1 DEF LoadRead
<1>2. ASSUME NEW p \in Processes, LoadPublish(p) PROVE OwnChangesSeen'
  BY <1>2 DEF LoadPublish
<1>3. ASSUME NEW role \in EditableRoles, NEW asked \in SUBSET Catalogue, Save(role, asked)
      PROVE  OwnChangesSeen'
  BY <1>3 DEF Save
<1>4. ASSUME Invalidate PROVE OwnChangesSeen'
  BY <1>4 DEF Invalidate
<1>5. ASSUME Restart PROVE OwnChangesSeen'
  BY <1>5 DEF Restart
<1> QED
  BY <1>1, <1>2, <1>3, <1>4, <1>5 DEF PermissionsNext

LEMMA PermissionsNextInv ==
  PermissionsInv /\ [PermissionsNext]_permissionVars => PermissionsInv'
<1> SUFFICES ASSUME PermissionsInv, [PermissionsNext]_permissionVars PROVE PermissionsInv'
  OBVIOUS
<1>1. CASE PermissionsNext
  BY <1>1, PermissionsTypes, CopiesBehind DEF PermissionsInv
<1>2. CASE UNCHANGED permissionVars
  BY <1>2 DEF permissionVars, PermissionsInv, PermissionsTypeOK, OwnChangesSeen
<1> QED
  BY <1>1, <1>2

(***************************************************************************)
(* Rows, copies and what an administrator has saved hold sets of           *)
(* permissions of the catalogue only.                                      *)
(***************************************************************************)
THEOREM PermissionsTypeCorrect == PermissionsSpec => []PermissionsTypeOK
<1>1. PermissionsInv => PermissionsTypeOK
  BY DEF PermissionsInv
<1> QED
  BY <1>1, PermissionsInitInv, PermissionsNextInv, PTL DEF PermissionsSpec

(***************************************************************************)
(* However many processes keep a copy of the matrix, and whoever loads     *)
(* while it changes, a copy that is not the matrix belongs to a process    *)
(* that could not see the change, or to the server between its commit and  *)
(* its _invalidate (permissions_service.py).                               *)
(***************************************************************************)
THEOREM OwnChangesSeenAlways == PermissionsSpec => []OwnChangesSeen
<1>1. PermissionsInv => OwnChangesSeen
  BY DEF PermissionsInv
<1> QED
  BY <1>1, PermissionsInitInv, PermissionsNextInv, PTL DEF PermissionsSpec

-----------------------------------------------------------------------------
(***************************************************************************)
(* The chain of revisions, whatever it is.  A part is a table and the      *)
(* revision that creates or widens it.                                     *)
(***************************************************************************)
LEMMA PartIs ==
  ASSUME NEW p \in AllParts
  PROVE  \E n \in 1 .. Newest : \E t \in Chain[n].creates \cup Chain[n].adds :
           p = <<t, n>> /\ p[1] = t /\ p[2] = n
BY DEF AllParts

LEMMA IsPart ==
  ASSUME NEW n \in 1 .. Newest, NEW t \in Chain[n].creates \cup Chain[n].adds
  PROVE  <<t, n>> \in AllParts
BY DEF AllParts

\* A table is created by one revision.
LEMMA CreatedOnce ==
  ASSUME NEW m \in 1 .. Newest, NEW n \in 1 .. Newest, NEW t \in Chain[m].creates,
         t \in Chain[n].creates
  PROVE  m = n
<1>1. ASSUME NEW i \in 1 .. Newest, NEW j \in 1 .. Newest, i < j, t \in Chain[i].creates,
             t \in Chain[j].creates
      PROVE  FALSE
  <2>1. i \in (0 + 1) .. (j - 1)
    BY <1>1
  <2>2. t \in CreatedAfter(0, j - 1)
    BY <1>1, <2>1 DEF CreatedAfter
  <2> QED
    BY <1>1, <2>2, ChainAssumption
<1>2. Newest \in Nat
  BY ChainAssumption
<1> QED
  BY <1>1, <1>2

\* A revision that widens a table comes after the one that creates it.
LEMMA WidenedLater ==
  ASSUME NEW n \in 1 .. Newest, NEW t \in Chain[n].adds
  PROVE  \E m \in 1 .. Newest : m < n /\ t \in Chain[m].creates
<1>1. t \in CreatedAfter(0, n - 1)
  BY ChainAssumption DEF Needs
<1>2. PICK m \in (0 + 1) .. (n - 1) : t \in Chain[m].creates
  BY <1>1 DEF CreatedAfter
<1> QED
  BY <1>2, ChainAssumption

-----------------------------------------------------------------------------
MigrationsInv == MigrationsTypeOK /\ Whole(schema) /\ SchemaOfItsVersion

(***************************************************************************)
(* What a run that upgrades leaves: whole tables, of the parts there were  *)
(* and those of the revisions it has carried out.                          *)
(***************************************************************************)
LEMMA UpgradedParts ==
  ASSUME MigrationsTypeOK, NEW from \in 0 .. Newest
  PROVE  /\ schema \subseteq Upgraded(from) /\ Upgraded(from) \subseteq AllParts
         /\ \A p \in Upgraded(from) \ schema : p[2] \in (from + 1) .. image
<1>1. image \in 1 .. Newest /\ Newest \in Nat
  BY ImagesAssumption, ChainAssumption DEF MigrationsTypeOK
<1>2. ASSUME NEW p \in Upgraded(from), p \notin schema
      PROVE  p \in AllParts /\ p[2] \in (from + 1) .. image
  <2>1. PICK n \in (from + 1) .. image :
          \E t \in Chain[n].adds \cup (Chain[n].creates \ TablesOf(schema)) : p = <<t, n>>
    BY <1>2 DEF Upgraded
  <2>2. n \in 1 .. Newest
    BY <1>1
  <2> QED
    BY <2>1, <2>2, IsPart
<1> QED
  BY <1>2 DEF Upgraded, MigrationsTypeOK

LEMMA UpgradedWhole ==
  ASSUME MigrationsTypeOK, Whole(schema), NEW from \in 0 .. Newest, Fits(from)
  PROVE  Whole(Upgraded(from))
<1> DEFINE there == TablesOf(schema)
<1>1. image \in 1 .. Newest /\ Newest \in Nat
  BY ImagesAssumption, ChainAssumption DEF MigrationsTypeOK
<1> SUFFICES ASSUME NEW p \in Upgraded(from), NEW n \in 1 .. Newest, p[1] \in Chain[n].creates
             PROVE  <<p[1], n>> \in Upgraded(from)
  BY DEF Whole
<1>2. ASSUME p[1] \in there PROVE <<p[1], n>> \in Upgraded(from)
  <2>1. PICK q \in schema : q[1] = p[1]
    BY <1>2 DEF TablesOf
  <2> QED
    BY <2>1 DEF Whole, Upgraded
<1>3. ASSUME p[1] \notin there, n \in (from + 1) .. image PROVE <<p[1], n>> \in Upgraded(from)
  BY <1>3 DEF Upgraded
<1>4. ASSUME p[1] \notin there PROVE n \in (from + 1) .. image
  <2>1. p \notin schema
    BY <1>4 DEF TablesOf
  <2>2. PICK m \in (from + 1) .. image :
          \E t \in Chain[m].adds \cup (Chain[m].creates \ there) : p = <<t, m>> /\ p[1] = t
    BY <2>1 DEF Upgraded
  <2>3. m \in 1 .. Newest
    BY <1>1
  <2>4. CASE p[1] \in Chain[m].creates
    BY <2>2, <2>3, <2>4, CreatedOnce
  <2>5. CASE p[1] \in Chain[m].adds
    <3>1. p[1] \in CreatedAfter(from, image)
      BY <1>4, <2>5, <2>2 DEF Fits, Needs
    <3>2. PICK k \in (from + 1) .. image : p[1] \in Chain[k].creates
      BY <3>1 DEF CreatedAfter
    <3>3. k \in 1 .. Newest
      BY <1>1
    <3> QED
      BY <3>2, <3>3, CreatedOnce
  <2> QED
    BY <2>2, <2>4, <2>5
<1> QED
  BY <1>2, <1>3, <1>4

\* Every part of the revisions carried out is there, made now or found.
LEMMA UpgradedHas ==
  ASSUME MigrationsTypeOK, Whole(schema), NEW from \in 0 .. Newest, NEW p \in AllParts,
         p[2] \in (from + 1) .. image
  PROVE  p \in Upgraded(from)
<1>1. PICK n \in 1 .. Newest : \E t \in Chain[n].creates \cup Chain[n].adds :
        p = <<t, n>> /\ p[1] = t /\ p[2] = n
  BY PartIs
<1>2. CASE p[1] \in Chain[n].creates /\ p[1] \in TablesOf(schema)
  <2>1. PICK q \in schema : q[1] = p[1]
    BY <1>2 DEF TablesOf
  <2>2. <<q[1], n>> \in schema
    BY <1>2, <2>1 DEF Whole
  <2> QED
    BY <1>1, <2>1, <2>2 DEF Upgraded
<1>3. CASE p[1] \in Chain[n].adds \cup (Chain[n].creates \ TablesOf(schema))
  BY <1>1, <1>3 DEF Upgraded
<1> QED
  BY <1>1, <1>2, <1>3

-----------------------------------------------------------------------------
\* What a downgrade leaves.
LEMMA WithoutWhole ==
  ASSUME MigrationsTypeOK, Whole(schema), NEW k \in 0 .. Newest, revision # NONE, k < revision
  PROVE  Whole(Without(k, revision))
<1> SUFFICES ASSUME NEW p \in Without(k, revision), NEW n \in 1 .. Newest,
                    p[1] \in Chain[n].creates
             PROVE  <<p[1], n>> \in Without(k, revision)
  BY DEF Whole
<1>1. <<p[1], n>> \in schema
  BY DEF Whole, Without
<1>2. n \notin (k + 1) .. revision
  BY DEF Without, CreatedAfter
<1> QED
  BY <1>1, <1>2 DEF Without

\* No part of an earlier revision goes with the tables of the later ones.
LEMMA WithoutHas ==
  ASSUME MigrationsTypeOK, NEW k \in 0 .. Newest, revision # NONE, k < revision,
         NEW p \in schema, p[2] <= k
  PROVE  p \in Without(k, revision)
<1>1. p \in AllParts /\ revision \in 0 .. Newest /\ Newest \in Nat
  BY ChainAssumption DEF MigrationsTypeOK
<1>2. PICK n \in 1 .. Newest : \E t \in Chain[n].creates \cup Chain[n].adds :
        p = <<t, n>> /\ p[1] = t /\ p[2] = n
  BY <1>1, PartIs
<1>3. PICK j \in 1 .. Newest : j <= n /\ p[1] \in Chain[j].creates
  BY <1>2, WidenedLater
<1>4. ASSUME NEW m \in (k + 1) .. revision, p[1] \in Chain[m].creates PROVE FALSE
  <2>1. m \in 1 .. Newest
    BY <1>1
  <2>2. m = j
    BY <1>3, <1>4, <2>1, CreatedOnce
  <2> QED
    BY <1>1, <1>2, <1>3, <2>2
<1>5. p[1] \notin CreatedAfter(k, revision)
  BY <1>4 DEF CreatedAfter
<1>6. p[2] \notin (k + 1) .. revision
  BY <1>1, <1>2
<1> QED
  BY <1>5, <1>6 DEF Without

-----------------------------------------------------------------------------
LEMMA MigrationsInitInv == MigrationsInit => MigrationsInv
<1> SUFFICES ASSUME MigrationsInit PROVE MigrationsInv
  OBVIOUS
<1>1. MigrationsTypeOK
  <2>1. Off \in [at : {"off", "looked", "open"}, plan : {"upgrade", "stamp"}, from : 0 .. Newest]
    BY ChainAssumption DEF Off
  <2>2. alembic \in [Runs -> [at : {"off", "looked", "open"}, plan : {"upgrade", "stamp"},
                              from : 0 .. Newest]]
    BY <2>1 DEF MigrationsInit
  <2> QED
    BY <2>2 DEF MigrationsInit, MigrationsTypeOK
<1>2. Whole(schema)
  BY DEF MigrationsInit, Whole
<1>3. SchemaOfItsVersion
  BY DEF MigrationsInit, SchemaOfItsVersion, Version
<1> QED
  BY <1>1, <1>2, <1>3 DEF MigrationsInv

\* The rows a step of alembic, or of the container, may leave.
LEMMA MigrationsTypes ==
  ASSUME MigrationsTypeOK, MigrationsNext
  PROVE  MigrationsTypeOK'
<1> USE DEF MigrationsTypeOK
<1>a. Newest \in Nat /\ Images \subseteq 1 .. Newest /\ Targets \subseteq 0 .. Newest
  BY ChainAssumption, ImagesAssumption
<1>b. AtHand \in 0 .. Newest
  BY <1>a DEF AtHand
<1>c. image \in 0 .. Newest
  BY <1>a
<1>d. Off \in [at : {"off", "looked", "open"}, plan : {"upgrade", "stamp"}, from : 0 .. Newest]
  BY <1>a DEF Off
<1>1. ASSUME NEW i \in Images, Deploy(i) PROVE MigrationsTypeOK'
  BY <1>1, <1>d DEF Deploy
<1>2. ASSUME NEW k \in Targets, Downgrade(k) PROVE MigrationsTypeOK'
  BY <1>2, <1>a DEF Downgrade, Without
<1>3. ASSUME NEW r \in Runs, Open(r) PROVE MigrationsTypeOK'
  BY <1>3, <1>b DEF Open
<1>4. ASSUME NEW r \in Runs, NothingToDo(r) PROVE MigrationsTypeOK'
  BY <1>4, <1>d DEF NothingToDo, Passed
<1>5. ASSUME NEW r \in Runs, Upgrade(r) PROVE MigrationsTypeOK'
  <2>1. alembic[r].from \in 0 .. Newest
    OBVIOUS
  <2> QED
    BY <1>5, <1>c, <1>d, <2>1, UpgradedParts DEF Upgrade, Passed
<1>6. ASSUME NEW r \in Runs, Stamp(r) PROVE MigrationsTypeOK'
  BY <1>6, <1>c, <1>d DEF Stamp, Passed, Upto
<1>7. ASSUME NEW r \in Runs, Refused(r) PROVE MigrationsTypeOK'
  BY <1>7, <1>d DEF Refused
<1>8. ASSUME ContainerDie PROVE MigrationsTypeOK'
  BY <1>8, <1>d DEF ContainerDie
<1>e. ASSUME NEW plan \in {"upgrade", "stamp"}
      PROVE  [at |-> "looked", from |-> 0, plan |-> plan] \in
               [at : {"off", "looked", "open"}, plan : {"upgrade", "stamp"}, from : 0 .. Newest]
  BY <1>a
<1>9. ASSUME ContainerStart PROVE MigrationsTypeOK'
  <2> DEFINE plan == IF revision = NONE /\ schema # {} THEN "stamp" ELSE "upgrade"
  <2>1. plan \in {"upgrade", "stamp"}
    OBVIOUS
  <2>2. alembic' = [alembic EXCEPT !["start"] = [at |-> "looked", from |-> 0, plan |-> plan]]
    BY <1>9 DEF ContainerStart
  <2> HIDE DEF plan
  <2> QED
    BY <1>9, <1>e, <2>1, <2>2 DEF ContainerStart
<1>10. ASSUME PipelineExec PROVE MigrationsTypeOK'
  BY <1>10, <1>e DEF PipelineExec
<1>11. ASSUME CreateAll PROVE MigrationsTypeOK'
  BY <1>11, ImagesAssumption DEF CreateAll
<1> QED
  BY <1>1, <1>2, <1>3, <1>4, <1>5, <1>6, <1>7, <1>8, <1>9, <1>10, <1>11 DEF MigrationsNext

(***************************************************************************)
(* The steps that change the base or its version: an upgrade, a stamp,     *)
(* create_all, a downgrade.                                                *)
(***************************************************************************)
LEMMA SchemaFollows ==
  ASSUME MigrationsInv, MigrationsNext
  PROVE  Whole(schema)' /\ SchemaOfItsVersion'
<1> USE DEF MigrationsInv
<1>a. /\ Newest \in Nat /\ image \in 1 .. Newest /\ Targets \subseteq 0 .. Newest /\ NONE \notin Nat
      /\ revision \in 0 .. Newest \cup {NONE} /\ schema \subseteq AllParts
      /\ alembic \in [Runs -> [at : {"off", "looked", "open"}, plan : {"upgrade", "stamp"},
                               from : 0 .. Newest]]
  BY ChainAssumption, ImagesAssumption DEF MigrationsTypeOK
<1>b. \A p \in AllParts : p[2] \in 1 .. Newest
  BY PartIs
<1>c. Version = {p \in AllParts : p[2] <= AtHand}
  BY <1>a, <1>b DEF Version, AtHand, Upto
<1>u. ASSUME UNCHANGED <<schema, revision, made, behind>>
      PROVE  Whole(schema)' /\ SchemaOfItsVersion'
  BY <1>u DEF SchemaOfItsVersion, Version, Whole
<1>1. ASSUME NEW r \in Runs, Upgrade(r) PROVE Whole(schema)' /\ SchemaOfItsVersion'
  <2> DEFINE from == alembic[r].from
  <2>1. /\ from \in 0 .. Newest /\ from < image /\ from = AtHand /\ Fits(from)
        /\ schema' = Upgraded(from) /\ revision' = image
        /\ made' = made /\ behind' = behind
    BY <1>1, <1>a DEF Upgrade, Passes
  <2> HIDE DEF from
  <2>2. Whole(Upgraded(from))
    BY <2>1, UpgradedWhole
  <2>3. Version' = Upto(image)
    BY <1>a, <2>1 DEF Version
  <2>4. ASSUME NEW p \in Upto(image), p \notin behind PROVE p \in Upgraded(from)
    <3>1. p \in AllParts /\ p[2] <= image /\ p[2] \in 1 .. Newest
      BY <1>b DEF Upto
    <3>2. CASE p[2] <= from
      BY <2>1, <2>4, <3>1, <3>2, <1>c DEF SchemaOfItsVersion, Upgraded
    <3>3. CASE p[2] \in (from + 1) .. image
      BY <2>1, <3>1, <3>3, UpgradedHas
    <3> QED
      BY <1>a, <2>1, <3>1, <3>2, <3>3
  <2>5. ASSUME NEW p \in Upgraded(from) PROVE p \in Upto(image) \cup made
    <3>1. CASE p \in schema
      <4>1. p \in Version \/ p \in made
        BY <3>1 DEF SchemaOfItsVersion
      <4> QED
        BY <4>1, <1>a, <1>b, <1>c, <2>1 DEF Upto
    <3>2. CASE p \notin schema
      BY <3>2, <1>a, <2>1, UpgradedParts DEF Upto
    <3> QED
      BY <3>1, <3>2
  <2> QED
    BY <2>1, <2>2, <2>3, <2>4, <2>5 DEF Whole, SchemaOfItsVersion
<1>2. ASSUME NEW r \in Runs, Stamp(r) PROVE Whole(schema)' /\ SchemaOfItsVersion'
  <2>1. /\ AtHand < image /\ schema' = schema /\ revision' = image
        /\ made' = made /\ behind' = behind \cup (Upto(image) \ schema)
    BY <1>2, <1>a DEF Stamp, Passes
  <2>2. Version' = Upto(image)
    BY <1>a, <2>1 DEF Version
  <2>3. AtHand \in 0 .. Newest
    BY <1>a DEF AtHand
  <2>4. Version \subseteq Upto(image)
    BY <1>a, <1>b, <1>c, <2>1, <2>3 DEF Upto
  <2> QED
    BY <2>1, <2>2, <2>4 DEF Whole, SchemaOfItsVersion
<1>3. ASSUME CreateAll PROVE Whole(schema)' /\ SchemaOfItsVersion'
  <2> DEFINE new == {p \in Models[image] : p[1] \notin TablesOf(schema)}
  <2>1. /\ schema' = schema \cup new /\ made' = made \cup new
        /\ revision' = revision /\ behind' = behind
    BY <1>3 DEF CreateAll
  <2>2. Whole(Models[image])
    BY ImagesAssumption DEF MigrationsTypeOK
  <2>3. Whole(schema \cup new)
    BY <2>2 DEF Whole
  <2> QED
    BY <2>1, <2>3 DEF Whole, SchemaOfItsVersion, Version
<1>4. ASSUME NEW k \in Targets, Downgrade(k) PROVE Whole(schema)' /\ SchemaOfItsVersion'
  <2>1. /\ revision # NONE /\ k < revision /\ schema' = Without(k, revision) /\ revision' = k
        /\ made' = made /\ behind' = behind
    BY <1>4 DEF Downgrade
  <2>2. k \in 0 .. Newest /\ revision \in 0 .. Newest /\ k # NONE
    BY <1>a, <2>1
  <2>3. Whole(Without(k, revision))
    BY <2>1, <2>2, WithoutWhole
  <2>4. Version' = Upto(k) /\ Version = Upto(revision)
    BY <2>1, <2>2 DEF Version
  <2>5. ASSUME NEW p \in Upto(k), p \notin behind PROVE p \in Without(k, revision)
    <3>1. p[2] <= k /\ p \in Upto(revision)
      BY <1>a, <1>b, <2>1, <2>2 DEF Upto
    <3> QED
      BY <2>1, <2>2, <2>4, <2>5, <3>1, WithoutHas DEF SchemaOfItsVersion
  <2>6. ASSUME NEW p \in Without(k, revision) PROVE p \in Upto(k) \cup made
    <3>1. p \in schema /\ p[2] \notin (k + 1) .. revision
      BY DEF Without
    <3>2. p \in Upto(revision) \/ p \in made
      BY <2>4, <3>1 DEF SchemaOfItsVersion
    <3> QED
      BY <1>a, <1>b, <2>1, <2>2, <3>1, <3>2 DEF Upto
  <2> QED
    BY <2>1, <2>3, <2>4, <2>5, <2>6 DEF Whole, SchemaOfItsVersion
<1> QED
  BY <1>u, <1>1, <1>2, <1>3, <1>4
  DEF MigrationsNext, Deploy, Open, NothingToDo, Refused, ContainerDie, ContainerStart, PipelineExec

-----------------------------------------------------------------------------
(***************************************************************************)
(* A run that has read the last version of its image still finds it there, *)
(* unless somebody takes it back; what is down runs nothing.               *)
(***************************************************************************)
RunsKnow ==
  /\ \A r \in Runs : alembic[r].at = "open" /\ alembic[r].from = image /\ ~taken_back
                       => revision = image
  /\ container = "down" => \A r \in Runs : alembic[r].at = "off"

ServedInv == MigrationsInv /\ RunsKnow /\ (container = "serving" /\ ~taken_back => revision = image)

LEMMA ServedNextInv ==
  ASSUME ServedInv, [MigrationsNext]_migrationVars
  PROVE  ServedInv'
<1> DEFINE Serves == container = "serving" /\ ~taken_back => revision = image
<1>a. /\ Newest \in Nat /\ image \in 1 .. Newest /\ NONE \notin Nat
      /\ revision \in 0 .. Newest \cup {NONE}
      /\ alembic \in [Runs -> [at : {"off", "looked", "open"}, plan : {"upgrade", "stamp"},
                               from : 0 .. Newest]]
  BY ChainAssumption, ImagesAssumption DEF ServedInv, MigrationsInv, MigrationsTypeOK
<1>b. RunsKnow /\ Serves
  BY DEF ServedInv
<1>1. CASE UNCHANGED migrationVars
  BY <1>1 DEF ServedInv, MigrationsInv, MigrationsTypeOK, Whole, SchemaOfItsVersion, Version,
              RunsKnow, migrationVars
<1>2. CASE MigrationsNext
  <2>1. MigrationsInv'
    BY <1>2, MigrationsTypes, SchemaFollows DEF ServedInv, MigrationsInv
  <2>2. ASSUME NEW i \in Images, Deploy(i) PROVE RunsKnow' /\ Serves'
    BY <2>2 DEF Deploy, RunsKnow, Off
  <2>3. ASSUME NEW k \in Targets, Downgrade(k) PROVE RunsKnow' /\ Serves'
    BY <2>3, <1>b DEF Downgrade, RunsKnow
  <2>4. ASSUME NEW r \in Runs, Open(r) PROVE RunsKnow' /\ Serves'
    <3>1. AtHand = image => revision = image
      BY <1>a DEF AtHand
    <3> QED
      BY <2>4, <1>a, <1>b, <3>1 DEF Open, RunsKnow
  <2>5. ASSUME NEW r \in Runs, NothingToDo(r) PROVE RunsKnow' /\ Serves'
    BY <2>5, <1>a, <1>b DEF NothingToDo, UpToDate, Passed, RunsKnow, Off
  <2>6. ASSUME NEW r \in Runs, Upgrade(r) PROVE RunsKnow' /\ Serves'
    BY <2>6, <1>a, <1>b DEF Upgrade, Passed, RunsKnow, Off
  <2>7. ASSUME NEW r \in Runs, Stamp(r) PROVE RunsKnow' /\ Serves'
    BY <2>7, <1>a, <1>b DEF Stamp, Passed, RunsKnow, Off
  <2>8. ASSUME NEW r \in Runs, Refused(r) PROVE RunsKnow' /\ Serves'
    BY <2>8, <1>a, <1>b DEF Refused, RunsKnow, Off
  <2>9. ASSUME ContainerDie PROVE RunsKnow' /\ Serves'
    BY <2>9, <1>a, <1>b DEF ContainerDie, RunsKnow, Off
  <2>10. ASSUME ContainerStart PROVE RunsKnow' /\ Serves'
    BY <2>10, <1>a, <1>b DEF ContainerStart, RunsKnow
  <2>11. ASSUME PipelineExec PROVE RunsKnow' /\ Serves'
    BY <2>11, <1>a, <1>b DEF PipelineExec, RunsKnow
  <2>12. ASSUME CreateAll PROVE RunsKnow' /\ Serves'
    BY <2>12, <1>a, <1>b DEF CreateAll, RunsKnow
  <2>13. RunsKnow' /\ Serves'
    BY <1>2, <2>2, <2>3, <2>4, <2>5, <2>6, <2>7, <2>8, <2>9, <2>10, <2>11, <2>12
    DEF MigrationsNext
  <2> QED
    BY <2>1, <2>13 DEF ServedInv
<1> QED
  BY <1>1, <1>2

LEMMA ServedInitInv == MigrationsInit => ServedInv
BY MigrationsInitInv DEF MigrationsInit, ServedInv, RunsKnow, Off, Runs

\* The parts, the version and the runs of alembic are what they are declared to be.
THEOREM MigrationsTypeCorrect == MigrationsSpec => []MigrationsTypeOK
<1>1. ServedInv => MigrationsTypeOK
  BY DEF ServedInv, MigrationsInv
<1> QED
  BY <1>1, ServedInitInv, ServedNextInv, PTL DEF MigrationsSpec

(***************************************************************************)
(* Whatever chain of revisions the repository holds, the base has what     *)
(* alembic_version says (migrate.py, `alembic upgrade head`): with the     *)
(* container dying anywhere, two runs at once, create_all, downgrades and  *)
(* older images, nothing is missing but what a stamp took for present and  *)
(* nothing is left over but what create_all made.                          *)
(***************************************************************************)
THEOREM SchemaFollowsItsVersion == MigrationsSpec => []SchemaOfItsVersion
<1>1. ServedInv => SchemaOfItsVersion
  BY DEF ServedInv, MigrationsInv
<1> QED
  BY <1>1, ServedInitInv, ServedNextInv, PTL DEF MigrationsSpec

(***************************************************************************)
(* `python -m scripts.migrate && uvicorn` (docker-compose.yml): what       *)
(* serves has the end of its own chain under it, and the parts its models  *)
(* name, unless a revision was taken back under it.                        *)
(***************************************************************************)
THEOREM ServesWhole == MigrationsSpec => []ServedWhole
<1>1. ASSUME ServedInv PROVE ServedWhole
  <2>1. image \in 1 .. Newest /\ NONE \notin Nat
    BY <1>1, ImagesAssumption DEF ServedInv, MigrationsInv, MigrationsTypeOK
  <2>2. ASSUME revision = image PROVE Models[image] \ (Orphans(image) \cup behind) \subseteq schema
    BY <1>1, <2>1, <2>2
    DEF ServedInv, MigrationsInv, SchemaOfItsVersion, Version, Orphans
  <2> QED
    BY <1>1, <2>2 DEF ServedInv, ServedWhole
<1> QED
  BY <1>1, ServedInitInv, ServedNextInv, PTL DEF MigrationsSpec

-----------------------------------------------------------------------------
(***************************************************************************)
(* What overlapping requests and deployments share, as MCOverlaps composes *)
(* it, the signatures of a nonconformity and the imports of incidents with *)
(* it: a step of one leaves the others alone, so a behaviour of the run is *)
(* one of each, and what is proved of one holds in the run.                *)
(***************************************************************************)
THEOREM OverlapsImplementEach ==
  OverlapsSpec => Spec /\ SessionsSpec /\ ThrottleSpec /\ PermissionsSpec /\ IncidentsSpec
                    /\ MigrationsSpec /\ FailureCostsSpec
<1>1. OverlapsInit => /\ Init /\ SessionsInit /\ ThrottleInit /\ PermissionsInit /\ IncidentsInit
                      /\ MigrationsInit /\ FailureCostsInit
  BY DEF OverlapsInit
<1>2. [OverlapsNext]_overlapVars => [Next]_vars
  BY DEF OverlapsNext, overlapVars
<1>3. [OverlapsNext]_overlapVars => [SessionsNext]_sessionVars
  BY DEF OverlapsNext, overlapVars
<1>4. [OverlapsNext]_overlapVars => [ThrottleNext]_throttleVars
  BY DEF OverlapsNext, overlapVars
<1>5. [OverlapsNext]_overlapVars => [PermissionsNext]_permissionVars
  BY DEF OverlapsNext, overlapVars
<1>6. [OverlapsNext]_overlapVars => [IncidentsNext]_incidentVars
  BY DEF OverlapsNext, overlapVars
<1>7. [OverlapsNext]_overlapVars => [MigrationsNext]_migrationVars
  BY DEF OverlapsNext, overlapVars
<1>8. [OverlapsNext]_overlapVars => [FailureCostsNext]_costVars
  BY DEF OverlapsNext, overlapVars
<1> QED
  BY <1>1, <1>2, <1>3, <1>4, <1>5, <1>6, <1>7, <1>8, PTL
  DEF OverlapsSpec, Spec, SessionsSpec, ThrottleSpec, PermissionsSpec, IncidentsSpec, MigrationsSpec,
      FailureCostsSpec

\* Whatever overlaps in a behaviour of the run, its state keeps its shape (that of FailureCosts is
\* in FiguresProofs, with the lemmas about sums).
THEOREM OverlapsTypeCorrect == OverlapsSpec => []OverlapsTypeOK
<1>1. /\ TypeOK /\ SessionsTypeOK /\ ThrottleTypeOK /\ PermissionsTypeOK /\ IncidentsTypeOK
      /\ MigrationsTypeOK
      => OverlapsTypeOK
  BY DEF OverlapsTypeOK
<1> QED
  BY <1>1, OverlapsImplementEach, ContourTypeCorrect, SessionsTypeCorrect, ThrottleTypeCorrect,
     PermissionsTypeCorrect, IncidentsTypeCorrect, MigrationsTypeCorrect, PTL

=============================================================================
