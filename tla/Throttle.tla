------------------------------ MODULE Throttle ------------------------------
(***************************************************************************)
(* The limit on failed sign-ins (iam/throttle.py) of one user name: a      *)
(* counter and a lock for each address it is tried from, a counter and a   *)
(* lock for the name.  Counting is atomic in the key-value store; looking  *)
(* at the locks, checking the password and counting are separate steps of  *)
(* a request.                                                              *)
(***************************************************************************)
EXTENDS Naturals, FiniteSets

CONSTANTS
  Addresses,
  Attempts,                     \* the slots of sign-in requests
  LOGIN_MAX_FAILURES,           \* of one address
  LOGIN_MAX_FAILURES_PER_USER,  \* of the name, from all of them
  MaxLockouts                   \* bound: lockouts of the name in its day

\* The two kinds of key: one for each address, one for the name (which has no
\* address in it).
Name == "user"
Keys == Addresses \cup {Name}

ASSUME ThrottleAssumption ==
  /\ IsFiniteSet(Attempts) /\ IsFiniteSet(Addresses) /\ Name \notin Addresses
  /\ LOGIN_MAX_FAILURES \in Nat \ {0} /\ LOGIN_MAX_FAILURES_PER_USER \in Nat \ {0}
  /\ MaxLockouts \in Nat

VARIABLES
  failures,  \* kv: the counter of each key; 0 when there is none
  locked,    \* kv: the keys that are locked
  lockouts,  \* kv: lockouts of the name in its day, which double the next one
  attempt,   \* the sign-in in each slot
  checked    \* history: passwords found wrong for each key since its last lock or window ended

throttleVars == <<failures, locked, lockouts, attempt, checked>>

AttemptSteps == {"idle", "admitted", "wrong", "counted", "locking"}

ThrottleTypeOK ==
  /\ failures \in [Keys -> Nat] /\ checked \in [Keys -> Nat]
  /\ locked \subseteq Keys
  /\ lockouts \in 0 .. MaxLockouts
  /\ attempt \in [Attempts -> [pc : AttemptSteps, ip : Addresses, hits : SUBSET Keys]]

ThrottleInit ==
  /\ failures = [k \in Keys |-> 0] /\ checked = [k \in Keys |-> 0]
  /\ locked = {} /\ lockouts = 0
  /\ \E ip \in Addresses : attempt = [a \in Attempts |-> [pc |-> "idle", ip |-> ip, hits |-> {}]]

Limit(k) == IF k = Name THEN LOGIN_MAX_FAILURES_PER_USER ELSE LOGIN_MAX_FAILURES

\* Mutant: only the lock of the address is looked at.
LockedPairOnly(ip) == ip \in locked

\* check: the lock of the address or of the name.
Locked(ip) == ip \in locked \/ Name \in locked

Admit(a, ip) ==
  /\ attempt[a].pc = "idle" /\ ~ Locked(ip)
  /\ attempt' = [attempt EXCEPT ![a] = [pc |-> "admitted", ip |-> ip, hits |-> {}]]
  /\ UNCHANGED <<failures, locked, lockouts, checked>>

\* The password is right: the counter of the address goes, that of the name stays.
Succeed(a) ==
  /\ attempt[a].pc = "admitted"
  /\ failures' = [failures EXCEPT ![attempt[a].ip] = 0]
  /\ checked' = [checked EXCEPT ![attempt[a].ip] = 0]
  /\ attempt' = [attempt EXCEPT ![a].pc = "idle"]
  /\ UNCHANGED <<locked, lockouts>>

\* The password is wrong: the counter of the address is raised ...
Fail(a) ==
  LET ip == attempt[a].ip
  IN /\ attempt[a].pc = "admitted"
     /\ failures' = [failures EXCEPT ![ip] = @ + 1]
     /\ checked' = [checked EXCEPT ![ip] = @ + 1, ![Name] = @ + 1]
     /\ attempt' = [attempt EXCEPT ![a].pc = "wrong",
                    ![a].hits = IF failures[ip] + 1 >= Limit(ip) THEN {ip} ELSE {}]
     /\ UNCHANGED <<locked, lockouts>>

\* ... and then that of the name; at a limit a lockout is due.
Count(a) ==
  LET hits == attempt[a].hits \cup
              (IF failures[Name] + 1 >= Limit(Name) THEN {Name} ELSE {})
  IN /\ attempt[a].pc = "wrong"
     /\ failures' = [failures EXCEPT ![Name] = @ + 1]
     /\ attempt' = [attempt EXCEPT ![a].pc = IF hits = {} THEN "idle" ELSE "counted",
                    ![a].hits = hits]
     /\ UNCHANGED <<locked, lockouts, checked>>

\* _next_lockout: the length of the lock, longer every time.
NextLockout(a) ==
  /\ attempt[a].pc = "counted" /\ lockouts < MaxLockouts
  /\ lockouts' = lockouts + 1
  /\ attempt' = [attempt EXCEPT ![a].pc = "locking"]
  /\ UNCHANGED <<failures, locked, checked>>

\* The lock is set and the counter removed, for the key or keys at their limit.
Lock(a) ==
  /\ attempt[a].pc = "locking"
  /\ locked' = locked \cup attempt[a].hits
  /\ failures' = [k \in Keys |-> IF k \in attempt[a].hits THEN 0 ELSE failures[k]]
  /\ attempt' = [attempt EXCEPT ![a].pc = "idle", ![a].hits = {}]
  /\ UNCHANGED <<lockouts, checked>>

\* The store forgets: a lock or a window of counting ends.  Either starts the
\* history of the key anew; requests take less than either.
Quiet == \A a \in Attempts : attempt[a].pc = "idle"

LockEnds(k) ==
  /\ Quiet /\ k \in locked
  /\ locked' = locked \ {k}
  /\ checked' = [checked EXCEPT ![k] = failures[k]]
  /\ UNCHANGED <<failures, lockouts, attempt>>

WindowEnds(k) ==
  /\ Quiet /\ k \notin locked /\ failures[k] > 0
  /\ failures' = [failures EXCEPT ![k] = 0]
  /\ checked' = [checked EXCEPT ![k] = 0]
  /\ UNCHANGED <<locked, lockouts, attempt>>

ThrottleNext ==
  \/ \E a \in Attempts :
       \/ \E ip \in Addresses : Admit(a, ip)
       \/ Succeed(a) \/ Fail(a) \/ Count(a) \/ NextLockout(a) \/ Lock(a)
  \/ \E k \in Keys : LockEnds(k) \/ WindowEnds(k)

ThrottleSpec == ThrottleInit /\ [][ThrottleNext]_throttleVars

-----------------------------------------------------------------------------
(***************************************************************************)
(* However sign-ins overlap, the passwords checked for an address, or for  *)
(* the name, before its lock or window ends are no more than its limit and *)
(* one for each other request that was already past the check of the lock. *)
(***************************************************************************)
AttemptsBounded ==
  \A k \in Keys : checked[k] <= Limit(k) + Cardinality(Attempts) - 1

=============================================================================
