---------------------------- MODULE LockoutProofs ----------------------------
(***************************************************************************)
(* How many wrong passwords an account that is not locked can have         *)
(* answered.  registerFailure decides whether to lock by the counter as    *)
(* its request READ it, so every request that read a low counter may still *)
(* increment the row without locking it: the requests under way that will  *)
(* do so have to be counted together with the counter of the row.          *)
(***************************************************************************)
EXTENDS BackendProofs, FiniteSetTheorems

N == Cardinality(Request)

Low(u) == {r \in Request : /\ requests[r].pc = "fail" /\ requests[r].user = u
                           /\ requests[r].failed + 1 < MaxFailedAttempts}

GuessInv ==
  \A u \in User :
    /\ attempts[u] = users[u].failed
    /\ users[u].lockedUntil = 0 =>
         users[u].failed + Cardinality(Low(u)) + 2 <= MaxFailedAttempts + N

---------------------------------------------------------------------------
LEMMA Counts ==
  /\ N \in Nat /\ N >= 1
  /\ \A S \in SUBSET Request : Cardinality(S) \in Nat /\ Cardinality(S) <= N
  /\ \A S \in SUBSET Request : \A T \in SUBSET S : Cardinality(T) <= Cardinality(S)
  /\ \A S \in SUBSET Request : \A r \in S : Cardinality(S \ {r}) = Cardinality(S) - 1
<1>1. IsFiniteSet(Request) /\ \A S \in SUBSET Request : IsFiniteSet(S)
  BY RequestAssumption, FS_Subset DEF RequestAssumption
<1>2. N \in Nat /\ \A S \in SUBSET Request : Cardinality(S) \in Nat
  BY <1>1, FS_CardinalityType DEF N
<1>3. \A S \in SUBSET Request : \A T \in SUBSET S : Cardinality(T) <= Cardinality(S)
  BY <1>1, FS_Subset
<1>4. \A S \in SUBSET Request : \A r \in S : Cardinality(S \ {r}) = Cardinality(S) - 1
  BY <1>1, FS_RemoveElement
<1>5. N # 0
  BY <1>1, FS_EmptySet, RequestAssumption DEF N, RequestAssumption
<1>6. \A S \in SUBSET Request : Cardinality(S) <= N
  BY <1>3 DEF N
<1>7. QED
  BY <1>2, <1>3, <1>4, <1>5, <1>6

(* A row whose counter starts again has room for every request there is.   *)
LEMMA RoomAtZero ==
  ASSUME NEW u \in User, \A r \in Request : requests[r].failed \in Nat
  PROVE  Cardinality(Low(u)) + 2 <= MaxFailedAttempts + N
<1>1. Low(u) \in SUBSET Request
  BY DEF Low
<1>2. Cardinality(Low(u)) \in Nat /\ Cardinality(Low(u)) <= N /\ N \in Nat /\ N >= 1
  BY <1>1, Counts
<1>3. CASE MaxFailedAttempts = 1
  <2>1. Low(u) = {}
    BY <1>3 DEF Low
  <2>2. Cardinality(Low(u)) = 0
    BY <2>1, FS_EmptySet
  <2>3. QED
    BY <1>2, <1>3, <2>2
<1>4. CASE MaxFailedAttempts # 1
  BY <1>2, <1>4, LockoutAssumption DEF LockoutAssumption
<1>5. QED
  BY <1>3, <1>4

(* No step but a wrong password adds to Low, so a step that leaves the     *)
(* counters alone keeps the invariant.                                     *)
SameCounters ==
  /\ attempts' = attempts
  /\ \A u \in User : /\ users'[u].failed = users[u].failed
                     /\ users'[u].lockedUntil = users[u].lockedUntil

LEMMA CountersKept ==
  ASSUME AuthInv, GuessInv, SameCounters, \A u \in User : Low(u)' \subseteq Low(u)
  PROVE  GuessInv'
<1> SUFFICES ASSUME NEW u \in User
             PROVE  /\ attempts'[u] = users'[u].failed
                    /\ users'[u].lockedUntil = 0 =>
                         users'[u].failed + Cardinality(Low(u)') + 2 <= MaxFailedAttempts + N
  BY DEF GuessInv, N
<1>1. Cardinality(Low(u)) \in Nat /\ Cardinality(Low(u)') \in Nat
      /\ Cardinality(Low(u)') <= Cardinality(Low(u)) /\ N \in Nat
  <2>1. Low(u) \in SUBSET Request /\ Low(u)' \in SUBSET Low(u)
    BY DEF Low
  <2>2. QED
    BY <2>1, Counts
<1>2. users[u].failed \in Nat
  BY DEF AuthInv, AccountsTypeOK, Account
<1>3. QED
  BY <1>1, <1>2, LockoutAssumption DEF GuessInv, SameCounters, LockoutAssumption

LEMMA LowShrinks ==
  ASSUME AuthInv, NEW r \in Request, NEW q, Become(r, q), q.pc # "fail", NEW u \in User
  PROVE  Low(u)' = Low(u) \ {r}
<1>1. \A x \in Request : requests'[x] = IF x = r THEN q ELSE requests[x]
  BY DEF AuthInv, AuthTypeOK, Become
<1>2. QED
  BY <1>1 DEF Low

---------------------------------------------------------------------------
LEMMA WrongPasswordCounted ==
  ASSUME AuthInv, GuessInv, NEW r \in Request, WrongPassword(r)
  PROVE  GuessInv'
<1>1. PICK u, q : /\ u = requests[r].user
                  /\ q = [requests[r] EXCEPT !.pc = "fail", !.failed = users[u].failed]
  OBVIOUS
<1>2. /\ requests[r] \in RequestState /\ requests[r].pc = "authenticate" /\ u \in User
      /\ users' = users /\ attempts' = attempts /\ Become(r, q)
  BY <1>1 DEF AuthInv, AuthTypeOK, RequestShape, WrongPassword, At, accountVars, history
<1>3. q.pc = "fail" /\ q.user = u /\ q.failed = users[u].failed
  BY <1>1, <1>2 DEF RequestState
<1>4. \A x \in Request : requests'[x] = IF x = r THEN q ELSE requests[x]
  BY <1>2 DEF AuthInv, AuthTypeOK, Become
<1>5. users[u].failed \in Nat /\ N \in Nat
  BY <1>2, Counts DEF AuthInv, AccountsTypeOK, Account
<1>6. CASE users[u].failed + 1 < MaxFailedAttempts
  <2> SUFFICES ASSUME NEW v \in User
               PROVE  /\ attempts[v] = users[v].failed
                      /\ users[v].lockedUntil = 0 =>
                           users[v].failed + Cardinality(Low(v)') + 2 <= MaxFailedAttempts + N
    BY <1>2 DEF GuessInv, N
  <2>1. CASE v = u
    <3>1. Low(v)' \in SUBSET Request
      BY DEF Low
    <3>2. Cardinality(Low(v)') \in Nat /\ Cardinality(Low(v)') <= N
      BY <3>1, Counts
    <3>3. QED
      BY <1>5, <1>6, <2>1, <3>2, LockoutAssumption DEF GuessInv, LockoutAssumption
  <2>2. CASE v # u
    <3>1. Low(v)' = Low(v)
      BY <1>1, <1>2, <1>3, <1>4, <2>2 DEF Low
    <3>2. QED
      BY <3>1 DEF GuessInv
  <2>3. QED
    BY <2>1, <2>2
<1>7. CASE ~(users[u].failed + 1 < MaxFailedAttempts)
  <2>1. \A v \in User : Low(v)' \subseteq Low(v)
    BY <1>3, <1>4, <1>7 DEF Low
  <2>2. QED
    BY <1>2, <2>1, CountersKept DEF SameCounters
<1>8. QED
  BY <1>6, <1>7

LEMMA FailureCounted ==
  ASSUME AuthInv, GuessInv, NEW r \in Request, RegisterFailure(r)
  PROVE  GuessInv'
<1>1. PICK u, until :
        /\ u = requests[r].user
        /\ until = IF requests[r].failed + 1 >= MaxFailedAttempts
                   THEN requests[r].at + LockoutDuration ELSE 0
  OBVIOUS
<1>2. /\ requests[r].pc = "fail" /\ u \in User
      /\ requests[r].failed \in Nat /\ requests[r].at \in Nat
      /\ RegisterFailedLogin(u, until) /\ Become(r, Idle)
  BY <1>1 DEF AuthInv, AuthTypeOK, RequestState, RequestShape, RegisterFailure, At, Finish
<1>3. PICK n, l : /\ n = users[u].failed + 1
                  /\ l = IF until = 0 THEN users[u].lockedUntil ELSE until
  OBVIOUS
<1>4. users' = [users EXCEPT ![u] = [users[u] EXCEPT !.failed = n, !.lockedUntil = l]]
      /\ attempts' = [attempts EXCEPT ![u] = attempts[u] + 1]
  BY <1>2, <1>3 DEF RegisterFailedLogin
<1>5. /\ users'[u].failed = n /\ users'[u].lockedUntil = l /\ attempts'[u] = attempts[u] + 1
      /\ \A v \in User \ {u} : users'[v] = users[v] /\ attempts'[v] = attempts[v]
  BY <1>2, <1>4 DEF AuthInv, AccountsTypeOK, Account
<1>6. \A v \in User : Low(v)' = Low(v) \ {r}
  BY <1>2, LowShrinks DEF Idle
<1>7. \A v \in User : /\ Low(v) \in SUBSET Request
                      /\ Cardinality(Low(v)) \in Nat /\ Cardinality(Low(v) \ {r}) \in Nat
                      /\ users[v].failed \in Nat
                      /\ N \in Nat
  <2>1. \A v \in User : Low(v) \in SUBSET Request /\ Low(v) \ {r} \in SUBSET Request
    BY DEF Low
  <2>2. QED
    BY <2>1, Counts DEF AuthInv, AccountsTypeOK, Account
<1> SUFFICES ASSUME NEW v \in User
             PROVE  /\ attempts'[v] = users'[v].failed
                    /\ users'[v].lockedUntil = 0 =>
                         users'[v].failed + Cardinality(Low(v)') + 2 <= MaxFailedAttempts + N
  BY DEF GuessInv, N
<1>8. CASE v # u
  <2>1. r \notin Low(v)
    BY <1>1, <1>8 DEF Low
  <2>2. Low(v)' = Low(v)
    BY <1>6, <2>1
  <2>3. QED
    BY <1>5, <1>8, <2>2 DEF GuessInv
<1>9. CASE v = u
  <2>1. attempts'[v] = users'[v].failed
    BY <1>3, <1>5, <1>9 DEF GuessInv
  <2>2. CASE requests[r].failed + 1 >= MaxFailedAttempts
    <3>1. l # 0
      BY <1>1, <1>2, <1>3, <2>2, LockoutAssumption DEF LockoutAssumption
    <3>2. QED
      BY <1>5, <1>9, <2>1, <3>1
  <2>3. CASE ~(requests[r].failed + 1 >= MaxFailedAttempts)
    <3>1. until = 0 /\ l = users[u].lockedUntil
      BY <1>1, <1>3, <2>3
    <3>2. r \in Low(u)
      BY <1>1, <1>2, <2>3, LockoutAssumption DEF Low, LockoutAssumption
    <3>3. Cardinality(Low(u)') = Cardinality(Low(u)) - 1
      BY <1>2, <1>6, <1>7, <3>2, Counts
    <3>4. users'[v].failed = users[v].failed + 1 /\ users'[v].lockedUntil = users[v].lockedUntil
      BY <1>3, <1>5, <1>9, <3>1
    <3>5. ASSUME users[v].lockedUntil = 0
          PROVE  users[v].failed + Cardinality(Low(v)) + 2 <= MaxFailedAttempts + N
      BY <3>5 DEF GuessInv
    <3>6. users[v].failed + 1 + (Cardinality(Low(v)) - 1) + 2
            = users[v].failed + Cardinality(Low(v)) + 2
      <4>1. PICK f, k : f = users[v].failed /\ k = Cardinality(Low(v))
        OBVIOUS
      <4>2. f \in Nat /\ k \in Nat
        BY <1>7, <4>1
      <4>3. f + 1 + (k - 1) + 2 = f + k + 2
        BY <4>2
      <4>4. QED
        BY <4>1, <4>3
    <3>7. QED
      BY <1>9, <2>1, <3>3, <3>4, <3>5, <3>6
  <2>4. QED
    BY <2>2, <2>3
<1>10. QED
  BY <1>8, <1>9

LEMMA SuccessCounted ==
  ASSUME AuthInv, GuessInv, NEW r \in Request, RegisterSuccess(r)
  PROVE  GuessInv'
<1>1. PICK u, q : u = requests[r].user /\ q = [requests[r] EXCEPT !.pc = "open"]
  OBVIOUS
<1>2. /\ requests[r] \in RequestState /\ requests[r].pc = "welcome" /\ u \in User
      /\ RegisterSuccessfulLogin(u) /\ Become(r, q)
  BY <1>1 DEF AuthInv, AuthTypeOK, RequestShape, RegisterSuccess, At, Goto, Become
<1>3. q \in RequestState /\ q.pc = "open"
  BY <1>1, <1>2 DEF RequestState, PC
<1>4. \A x \in Request : requests'[x].failed \in Nat
  BY <1>2, <1>3 DEF AuthInv, AuthTypeOK, Become, RequestState
<1>5. /\ users'[u].failed = 0 /\ attempts'[u] = 0
      /\ \A v \in User \ {u} : users'[v] = users[v] /\ attempts'[v] = attempts[v]
  BY <1>2 DEF RegisterSuccessfulLogin, AuthInv, AccountsTypeOK, Account
<1>6. \A v \in User : Low(v)' = Low(v)
  <2>1. \A v \in User : r \notin Low(v)
    BY <1>2 DEF Low
  <2>2. QED
    BY <1>2, <1>3, <2>1, LowShrinks
<1>7. \A x \in Request : requests[x].failed \in Nat
  BY DEF AuthInv, AuthTypeOK, RequestState
<1>8. Cardinality(Low(u)) + 2 <= MaxFailedAttempts + N /\ Cardinality(Low(u)) \in Nat
  <2>1. Low(u) \in SUBSET Request
    BY DEF Low
  <2>2. QED
    BY <1>2, <1>7, <2>1, Counts, RoomAtZero
<1>9. QED
  BY <1>2, <1>5, <1>6, <1>8 DEF GuessInv, N

---------------------------------------------------------------------------
LEMMA GuessStep ==
  ASSUME TypeInv, GuessInv, [Next]_vars
  PROVE  GuessInv'
<1>1. AuthInv /\ TeamInv /\ clock \in Nat
  BY MaxTimeAssumption DEF TypeInv, MaxTimeAssumption
<1>2. ASSUME SameCounters, UNCHANGED requests  PROVE GuessInv'
  BY <1>1, <1>2, CountersKept DEF Low
<1>3. ASSUME UNCHANGED accountVars  PROVE SameCounters
  BY <1>3 DEF SameCounters, accountVars, history
<1>4. CASE AuthStep
  <2>1. PICK r \in Request :
          \/ Quiet(r)
          \/ WrongPassword(r) \/ RegisterFailure(r) \/ RightPassword(r) \/ RegisterSuccess(r)
          \/ OpenSession(r) \/ Checked(r) \/ Rotate(r)
    BY <1>4, RequestSteps
  <2>2. ASSUME UNCHANGED accountVars, NEW q, Become(r, q), q.pc # "fail"  PROVE GuessInv'
    BY <1>1, <1>3, <2>2, CountersKept, LowShrinks
  <2>3. requests[r] \in RequestState
    BY <1>1 DEF AuthInv, AuthTypeOK
  <2>4. CASE Quiet(r)
    BY <1>1, <2>2, <2>4, QuietStep
  <2>5. CASE RightPassword(r) \/ Checked(r)
    <3>1. PICK pc \in {"welcome", "rotate"} :
            Become(r, [requests[r] EXCEPT !.pc = pc, !.role = users[requests[r].user].role])
      BY <2>5 DEF RightPassword, Checked
    <3>2. PICK q : q = [requests[r] EXCEPT !.pc = pc, !.role = users[requests[r].user].role]
      OBVIOUS
    <3>3. q.pc # "fail"
      BY <2>3, <3>2 DEF RequestState
    <3>4. QED
      BY <2>2, <2>5, <3>1, <3>2, <3>3 DEF RightPassword, Checked, CheckAccount
  <2>6. CASE OpenSession(r)
    <3>1. PICK p \in Token : Become(r, [Idle EXCEPT !.pc = "respond", !.issued = p])
      BY <2>6 DEF OpenSession
    <3>2. PICK q : q = [Idle EXCEPT !.pc = "respond", !.issued = p]
      OBVIOUS
    <3>3. q.pc # "fail"
      BY <3>2 DEF Idle
    <3>4. QED
      BY <2>2, <2>6, <3>1, <3>2, <3>3 DEF OpenSession
  <2>7. CASE Rotate(r)
    <3>1. PICK p \in Token :
            Become(r, [Idle EXCEPT !.pc = "mark", !.token = requests[r].token, !.issued = p])
      BY <2>7 DEF Rotate
    <3>2. PICK q : q = [Idle EXCEPT !.pc = "mark", !.token = requests[r].token, !.issued = p]
      OBVIOUS
    <3>3. q.pc # "fail"
      BY <3>2 DEF Idle
    <3>4. QED
      BY <2>2, <2>7, <3>1, <3>2, <3>3 DEF Rotate
  <2>8. QED
    BY <1>1, <2>1, <2>4, <2>5, <2>6, <2>7, WrongPasswordCounted, FailureCounted, SuccessCounted
<1>5. CASE \E c \in TeamCall : /\ AdminStart(c) \/ TeamStep(c)
                               /\ UNCHANGED <<clock, accessVars, authVars>>
  <2>1. PICK c \in TeamCall : /\ AdminStart(c) \/ TeamStep(c)
                              /\ UNCHANGED <<clock, accessVars, authVars>>
    BY <1>5
  <2>2. CASE SuspendMember(c) \/ SetRole(c)
    <3>1. SameCounters
      BY <1>1, <2>2 DEF SuspendMember, SetRole, Suspend, UpdateRole, SameCounters, AuthInv,
         AccountsTypeOK, Account
    <3>2. QED
      BY <1>2, <2>1, <3>1 DEF authVars
  <2>3. CASE UNCHANGED accountVars
    BY <1>2, <1>3, <2>1, <2>3 DEF authVars
  <2>4. QED
    BY <2>1, <2>2, <2>3 DEF AdminStart, StartRevoke, StartUpdateRole, TeamStep, ReadMember,
       CloseSessions, AbortCall
<1>6. CASE UNCHANGED <<accountVars, authVars>>
  BY <1>2, <1>3, <1>6 DEF authVars
<1>7. QED
  BY <1>4, <1>5, <1>6 DEF Next, vars

(* With any number of logins at once, an account that is not locked has    *)
(* answered at most MaxFailedAttempts + N - 2 wrong passwords since its    *)
(* last good one: the lock may be late, but by no more than that.          *)
THEOREM GuessesBounded == Spec => []GuessesBeforeLock
<1>1. Init => GuessInv
  <2> SUFFICES ASSUME Init, NEW u \in User
               PROVE  attempts[u] = 0 /\ users[u].failed = 0
                      /\ 0 + Cardinality(Low(u)) + 2 <= MaxFailedAttempts + N
    BY DEF GuessInv
  <2>1. attempts[u] = 0 /\ users[u].failed = 0
    BY DEF Init, AccountsInit
  <2>2. \A r \in Request : requests[r].failed \in Nat
    BY DEF Init, AuthInit, Idle
  <2>3. Low(u) \in SUBSET Request
    BY DEF Low
  <2>4. QED
    BY <2>1, <2>2, <2>3, RoomAtZero, Counts
<1>2. TypeInv /\ GuessInv /\ [Next]_vars => GuessInv'
  BY GuessStep
<1>3. TypeInv /\ GuessInv => GuessesBeforeLock
  <2> SUFFICES ASSUME TypeInv, GuessInv, NEW u \in User, users[u].lockedUntil = 0
               PROVE  attempts[u] + 2 <= MaxFailedAttempts + N
    BY DEF GuessesBeforeLock, N
  <2>1. Low(u) \in SUBSET Request
    BY DEF Low
  <2>2. Cardinality(Low(u)) \in Nat /\ N \in Nat /\ users[u].failed \in Nat
    BY <2>1, Counts DEF TypeInv, AuthInv, AccountsTypeOK, Account
  <2>3. QED
    BY <2>2, LockoutAssumption DEF GuessInv, LockoutAssumption
<1>4. QED
  BY <1>1, <1>2, <1>3, TypesAndLocals, PTL DEF Spec
===========================================================================
