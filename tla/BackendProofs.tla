--------------------------- MODULE BackendProofs ---------------------------
(***************************************************************************)
(* Type correctness of Backend, for every value of the constants.  TypeOK  *)
(* is not inductive: to type the row a request is about to read, one has   *)
(* to know that the request holds the name of a row that exists, and a     *)
(* user, a role or a pair at the steps that use them.  RequestShape and    *)
(* CallShape say so; the other proof modules rest on them too.             *)
(***************************************************************************)
EXTENDS Backend, TLAPS

\* Steps between the check of a user row and the signature made on its strength.
Signing == {"welcome", "open", "rotate"}

\* The locals a request has set by the time it stands at each step.
RequestShape(q) ==
  /\ q.pc \in {"authenticate", "fail", "welcome", "open", "account", "rotate", "leave_all"}
       => q.user \in User
  /\ q.pc \in {"welcome", "open", "rotate"} => q.role \in Role
  /\ q.pc \in {"lookup", "account", "rotate", "mark", "cut"} => q.token \in DOMAIN refresh
  /\ q.pc \in {"mark", "respond"} => q.issued \in DOMAIN refresh
  /\ q.pc \in {"leave", "deny"} => {q.token, q.claims} \subseteq DOMAIN refresh \cup {None}
  /\ q.pc = "deny" => q.claims # None

CallShape(k) ==
  /\ k.pc # "idle" => k.actor \in User /\ k.member \in User
  /\ k.pc \in {"read_role", "set_role"} => k.role \in InvitableRole

\* Both halves of a pair exist or neither does.
AuthInv ==
  /\ AccountsTypeOK /\ RefreshTypeOK /\ AccessTypeOK /\ AuthTypeOK
  /\ DOMAIN access = DOMAIN refresh
  /\ \A r \in Request : RequestShape(requests[r])

TeamInv == TeamTypeOK /\ \A c \in TeamCall : CallShape(calls[c])

TypeInv == clock \in 0..MaxTime /\ AuthInv /\ TeamInv

USE NoneAssumption, MaxTimeAssumption, InitialRoleAssumption, LockoutAssumption,
    RefreshTTLAssumption, AccessTTLAssumption
USE DEF NoneAssumption, MaxTimeAssumption, InitialRoleAssumption, LockoutAssumption,
    RefreshTTLAssumption, AccessTTLAssumption

---------------------------------------------------------------------------
(* The statements keep the types of the tables they write. *)

LEMMA AccountStatements ==
  ASSUME AccountsTypeOK, clock \in Nat, NEW u \in User
  PROVE  /\ \A until \in Nat : RegisterFailedLogin(u, until) => AccountsTypeOK'
         /\ RegisterSuccessfulLogin(u) => AccountsTypeOK'
         /\ \A role \in Role : UpdateRole(u, role) => AccountsTypeOK'
         /\ Suspend(u) => AccountsTypeOK'
<1>1. ASSUME NEW until \in Nat, RegisterFailedLogin(u, until)  PROVE AccountsTypeOK'
  <2> DEFINE n == users[u].failed + 1
             l == IF until = 0 THEN users[u].lockedUntil ELSE until
  <2>1. users[u] \in Account /\ n \in Nat /\ l \in Nat
    BY DEF AccountsTypeOK, Account
  <2>2. users' = [users EXCEPT ![u] = [users[u] EXCEPT !.failed = n, !.lockedUntil = l]]
    BY <1>1 DEF RegisterFailedLogin
  <2> HIDE DEF n, l
  <2>3. [users[u] EXCEPT !.failed = n, !.lockedUntil = l] \in Account
    BY <2>1 DEF Account
  <2>4. QED
    BY <1>1, <2>2, <2>3 DEF AccountsTypeOK, RegisterFailedLogin
<1>2. ASSUME RegisterSuccessfulLogin(u)  PROVE AccountsTypeOK'
  BY <1>2 DEF AccountsTypeOK, RegisterSuccessfulLogin, Account
<1>3. ASSUME NEW role \in Role, UpdateRole(u, role)  PROVE AccountsTypeOK'
  BY <1>3 DEF AccountsTypeOK, UpdateRole, Account
<1>4. ASSUME Suspend(u)  PROVE AccountsTypeOK'
  BY <1>4 DEF AccountsTypeOK, Suspend, Account
<1>5. QED
  BY <1>1, <1>2, <1>3, <1>4

LEMMA RefreshStatements ==
  ASSUME RefreshTypeOK
  PROVE  /\ \A p \in Token, u \in User, s \in Token, now \in Nat :
              CreateRefreshToken(p, u, s, now) =>
                RefreshTypeOK' /\ DOMAIN refresh' = DOMAIN refresh \cup {p}
         /\ \A p \in DOMAIN refresh, q \in Token :
              MarkUsed(p, q) => RefreshTypeOK' /\ DOMAIN refresh' = DOMAIN refresh
         /\ \A rows \in SUBSET DOMAIN refresh :
              RevokeRows(rows) => RefreshTypeOK' /\ DOMAIN refresh' = DOMAIN refresh
<1>1. ASSUME NEW p \in Token, NEW u \in User, NEW s \in Token, NEW now \in Nat,
             CreateRefreshToken(p, u, s, now)
      PROVE  RefreshTypeOK' /\ DOMAIN refresh' = DOMAIN refresh \cup {p}
  BY <1>1 DEF RefreshTypeOK, CreateRefreshToken, RefreshRow
<1>2. ASSUME NEW p \in DOMAIN refresh, NEW q \in Token, MarkUsed(p, q)
      PROVE  RefreshTypeOK' /\ DOMAIN refresh' = DOMAIN refresh
  BY <1>2 DEF RefreshTypeOK, MarkUsed, IsUsed, RefreshRow
<1>3. ASSUME NEW rows \in SUBSET DOMAIN refresh, RevokeRows(rows)
      PROVE  RefreshTypeOK' /\ DOMAIN refresh' = DOMAIN refresh
  BY <1>3 DEF RefreshTypeOK, RevokeRows, RefreshRow
<1>4. QED
  BY <1>1, <1>2, <1>3

LEMMA AccessStatements ==
  ASSUME AccessTypeOK, clock \in Nat
  PROVE  /\ \A p \in Token, u \in User, role \in Role, s \in Token, now \in Nat :
              IssueAccess(p, u, role, s, now) =>
                AccessTypeOK' /\ DOMAIN access' = DOMAIN access \cup {p}
         /\ \A p \in Token, ttl \in Int :
              Revoke(p, ttl) => deniedUntil' \in [Token -> Nat]
<1>1. ASSUME NEW p \in Token, NEW u \in User, NEW role \in Role, NEW s \in Token,
             NEW now \in Nat, IssueAccess(p, u, role, s, now)
      PROVE  AccessTypeOK' /\ DOMAIN access' = DOMAIN access \cup {p}
  BY <1>1 DEF AccessTypeOK, IssueAccess, AccessClaims
<1>2. ASSUME NEW p \in Token, NEW ttl \in Int, Revoke(p, ttl)
      PROVE  deniedUntil' \in [Token -> Nat]
  BY <1>2 DEF AccessTypeOK, Revoke
<1>3. QED
  BY <1>1, <1>2

---------------------------------------------------------------------------
(* A request moves to a state of its type, all others stay where they are. *)

LEMMA RequestMove ==
  ASSUME AuthTypeOK, \A x \in Request : RequestShape(requests[x]),
         DOMAIN refresh \subseteq DOMAIN (refresh'),
         NEW r \in Request, NEW q \in RequestState, Become(r, q), RequestShape(q)'
  PROVE  /\ requests' \in [Request -> RequestState]
         /\ \A x \in Request : RequestShape(requests[x])'
<1>1. requests' \in [Request -> RequestState]
  BY DEF AuthTypeOK, Become
<1>2. \A x \in Request : requests'[x] = IF x = r THEN q ELSE requests[x]
  BY DEF AuthTypeOK, Become
<1>3. \A x \in Request : RequestShape(requests[x])'
  BY <1>2 DEF RequestShape
<1>4. QED
  BY <1>1, <1>3

LEMMA Moved ==
  ASSUME AuthInv, AccountsTypeOK', RefreshTypeOK', AccessTypeOK', exchanged' \subseteq Token \X Token,
         DOMAIN refresh \subseteq DOMAIN (refresh'), DOMAIN (access') = DOMAIN (refresh'),
         NEW r \in Request, NEW q \in RequestState, Become(r, q), RequestShape(q)'
  PROVE  AuthInv'
  BY RequestMove DEF AuthInv, AuthTypeOK

LEMMA MovedOnly ==
  ASSUME AuthInv, UNCHANGED <<accountVars, refreshVars, accessVars, exchanged>>,
         NEW r \in Request, NEW q \in RequestState, Become(r, q), RequestShape(q)
  PROVE  AuthInv'
<1>1. AccountsTypeOK' /\ RefreshTypeOK' /\ AccessTypeOK' /\ exchanged' \subseteq Token \X Token
  BY DEF AuthInv, AuthTypeOK, AccountsTypeOK, RefreshTypeOK, AccessTypeOK, accountVars, history,
         refreshVars, accessVars
<1>2. refresh' = refresh /\ access' = access
  BY DEF refreshVars, accessVars
<1>3. RequestShape(q)'
  BY <1>2 DEF RequestShape
<1>4. QED
  BY <1>1, <1>2, <1>3, Moved DEF AuthInv

LEMMA IdleState == Idle \in RequestState /\ RequestShape(Idle) /\ RequestShape(Idle)'
  BY DEF Idle, RequestState, PC, RequestShape

LEMMA LoginTyped ==
  ASSUME AuthInv, clock \in Nat, NEW r \in Request, LoginStep(r)
  PROVE  AuthInv'
<1> USE DEF AuthInv
<1>a. requests[r] \in RequestState /\ RequestShape(requests[r])
  BY DEF AuthTypeOK
<1>1. ASSUME NEW u \in User, LoginStart(r, u)  PROVE AuthInv'
  <2>1. PICK q : q = [Idle EXCEPT !.pc = "authenticate", !.at = clock, !.user = u]
    OBVIOUS
  <2>2. q \in RequestState
    BY <2>1 DEF Idle, RequestState, PC
  <2>3. q.pc = "authenticate" /\ q.user = u
    BY <2>1 DEF Idle
  <2>4. QED
    BY <1>1, <2>1, <2>2, <2>3, MovedOnly DEF LoginStart, Begin, RequestShape
<1>2. ASSUME WrongPassword(r)  PROVE AuthInv'
  <2>1. requests[r].user \in User /\ users[requests[r].user].failed \in Nat
    BY <1>a, <1>2 DEF WrongPassword, At, RequestShape, AccountsTypeOK, Account
  <2>2. PICK q : q = [requests[r] EXCEPT !.pc = "fail", !.failed = users[requests[r].user].failed]
    OBVIOUS
  <2>3. q \in RequestState /\ q.pc = "fail" /\ q.user = requests[r].user
    BY <1>a, <2>1, <2>2 DEF RequestState, PC
  <2>4. QED
    BY <1>2, <2>1, <2>2, <2>3, MovedOnly DEF WrongPassword, RequestShape
<1>3. ASSUME RegisterFailure(r)  PROVE AuthInv'
  <2>1. requests[r].user \in User /\ requests[r].at \in Nat
    BY <1>a, <1>3 DEF RegisterFailure, At, RequestShape, RequestState
  <2>2. PICK until \in Nat : RegisterFailedLogin(requests[r].user, until)
    BY <1>3, <2>1 DEF RegisterFailure
  <2>3. AccountsTypeOK'
    BY <2>1, <2>2, AccountStatements
  <2>4. QED
    BY <1>3, <2>3, IdleState, Moved DEF RegisterFailure, Finish, AuthTypeOK,
       RefreshTypeOK, AccessTypeOK, refreshVars, accessVars
<1>4. ASSUME RightPassword(r)  PROVE AuthInv'
  <2>1. requests[r].user \in User /\ users[requests[r].user].role \in Role
    BY <1>a, <1>4 DEF RightPassword, At, RequestShape, AccountsTypeOK, Account
  <2>2. PICK q : q = [requests[r] EXCEPT !.pc = "welcome", !.role = users[requests[r].user].role]
    OBVIOUS
  <2>3. /\ q \in RequestState /\ q.pc = "welcome" /\ q.user = requests[r].user
        /\ q.role = users[requests[r].user].role
    BY <1>a, <2>1, <2>2 DEF RequestState, PC
  <2>4. QED
    BY <1>4, <2>1, <2>2, <2>3, MovedOnly DEF RightPassword, RequestShape
<1>5. ASSUME RefuseLogin(r)  PROVE AuthInv'
  BY <1>5, IdleState, MovedOnly DEF RefuseLogin, Finish
<1>6. ASSUME RegisterSuccess(r)  PROVE AuthInv'
  <2>1. requests[r].user \in User /\ requests[r].role \in Role
    BY <1>a, <1>6 DEF RegisterSuccess, At, RequestShape
  <2>2. AccountsTypeOK'
    BY <1>6, <2>1, AccountStatements DEF RegisterSuccess
  <2>3. PICK q : q = [requests[r] EXCEPT !.pc = "open"]
    OBVIOUS
  <2>4. /\ q \in RequestState /\ q.pc = "open" /\ q.user = requests[r].user
        /\ q.role = requests[r].role
    BY <1>a, <2>1, <2>3 DEF RequestState, PC
  <2>5. Become(r, q)
    BY <1>6, <2>3 DEF RegisterSuccess, Goto, Become
  <2>6. RequestShape(q)'
    BY <2>1, <2>4 DEF RequestShape
  <2>7. QED
    BY <1>6, <2>2, <2>4, <2>5, <2>6, Moved DEF RegisterSuccess, AuthTypeOK,
       RefreshTypeOK, AccessTypeOK, refreshVars, accessVars
<1>7. ASSUME OpenSession(r)  PROVE AuthInv'
  <2>1. /\ requests[r].user \in User /\ requests[r].role \in Role /\ requests[r].at \in Nat
    BY <1>a, <1>7 DEF OpenSession, At, RequestShape, RequestState
  <2>2. PICK p \in Token :
          /\ IssuePair(p, requests[r].user, requests[r].role, p, requests[r].at)
          /\ Become(r, [Idle EXCEPT !.pc = "respond", !.issued = p])
    BY <1>7 DEF OpenSession
  <2>3. /\ RefreshTypeOK' /\ DOMAIN (refresh') = DOMAIN refresh \cup {p}
        /\ AccessTypeOK' /\ DOMAIN (access') = DOMAIN access \cup {p}
    BY <2>1, <2>2, RefreshStatements, AccessStatements DEF IssuePair
  <2>4. PICK q : q = [Idle EXCEPT !.pc = "respond", !.issued = p]
    OBVIOUS
  <2>5. q \in RequestState /\ q.pc = "respond" /\ q.issued = p
    BY <2>4 DEF Idle, RequestState, PC
  <2>6. RequestShape(q)'
    BY <2>3, <2>5 DEF RequestShape
  <2>7. QED
    BY <1>7, <2>2, <2>3, <2>4, <2>5, <2>6, Moved DEF OpenSession, AuthTypeOK, AccountsTypeOK,
       accountVars, history
<1>8. QED
  BY <1>1, <1>2, <1>3, <1>4, <1>5, <1>6, <1>7 DEF LoginStep

LEMMA RefreshTyped ==
  ASSUME AuthInv, clock \in Nat, NEW r \in Request, RefreshStep(r)
  PROVE  AuthInv'
<1> USE DEF AuthInv
<1>a. requests[r] \in RequestState /\ RequestShape(requests[r])
  BY DEF AuthTypeOK
<1> DEFINE t == requests[r].token
<1>1. ASSUME NEW p \in Token, RefreshStart(r, p)  PROVE AuthInv'
  <2>1. p \in DOMAIN refresh
    BY <1>1 DEF RefreshStart, AccessTypeOK
  <2>2. PICK q : q = [Idle EXCEPT !.pc = "lookup", !.at = clock, !.token = p]
    OBVIOUS
  <2>3. q \in RequestState /\ q.pc = "lookup" /\ q.token = p
    BY <2>2 DEF Idle, RequestState, PC
  <2>4. RequestShape(q)
    BY <2>1, <2>3 DEF RequestShape
  <2>5. QED
    BY <1>1, <2>2, <2>3, <2>4, MovedOnly DEF RefreshStart, Begin
<1>2. ASSUME t \in DOMAIN refresh, ToCut(r),
             UNCHANGED <<accountVars, refreshVars, accessVars, exchanged>>
      PROVE  AuthInv'
  <2>1. PICK q : q = [Idle EXCEPT !.pc = "cut", !.token = t]
    OBVIOUS
  <2>2. q \in RequestState /\ q.pc = "cut" /\ q.token = t
    BY <1>2, <2>1 DEF Idle, RequestState, PC, RefreshTypeOK
  <2>3. RequestShape(q)
    BY <1>2, <2>2 DEF RequestShape
  <2>4. QED
    BY <1>2, <2>1, <2>2, <2>3, MovedOnly DEF ToCut
<1>3. ASSUME Lookup(r)  PROVE AuthInv'
  <2>1. t \in DOMAIN refresh /\ refresh[t].user \in User
    BY <1>a, <1>3 DEF Lookup, At, RequestShape, RefreshTypeOK, RefreshRow
  <2>2. CASE ToCut(r)
    BY <1>2, <1>3, <2>1, <2>2 DEF Lookup
  <2>3. CASE Finish(r)
    BY <1>3, <2>3, IdleState, MovedOnly DEF Lookup, Finish
  <2>4. CASE Become(r, [requests[r] EXCEPT !.pc = "account", !.user = refresh[t].user])
    <3>1. PICK q : q = [requests[r] EXCEPT !.pc = "account", !.user = refresh[t].user]
      OBVIOUS
    <3>2. q \in RequestState /\ q.pc = "account" /\ q.user \in User /\ q.token = t
      BY <1>a, <2>1, <3>1 DEF RequestState, PC
    <3>3. RequestShape(q)
      BY <2>1, <3>2 DEF RequestShape
    <3>4. QED
      BY <1>3, <2>4, <3>1, <3>2, <3>3, MovedOnly DEF Lookup
  <2>5. QED
    BY <1>3, <2>2, <2>3, <2>4 DEF Lookup
<1>4. ASSUME CheckAccount(r)  PROVE AuthInv'
  <2> DEFINE role == users[requests[r].user].role
  <2>1. t \in DOMAIN refresh /\ requests[r].user \in User /\ role \in Role
    BY <1>a, <1>4 DEF CheckAccount, At, RequestShape, AccountsTypeOK, Account
  <2>2. CASE ToCut(r)
    BY <1>2, <1>4, <2>1, <2>2 DEF CheckAccount
  <2>3. CASE Become(r, [requests[r] EXCEPT !.pc = "rotate", !.role = role])
    <3>1. PICK q : q = [requests[r] EXCEPT !.pc = "rotate", !.role = role]
      OBVIOUS
    <3> HIDE DEF role
    <3>2. /\ q \in RequestState /\ q.pc = "rotate" /\ q.role = role
          /\ q.user = requests[r].user /\ q.token = t
      BY <1>a, <2>1, <3>1 DEF RequestState, PC
    <3>3. RequestShape(q)
      BY <2>1, <3>2 DEF RequestShape
    <3>4. QED
      BY <1>4, <2>3, <3>1, <3>2, <3>3, MovedOnly DEF CheckAccount
  <2>4. QED
    BY <1>4, <2>2, <2>3 DEF CheckAccount
<1>5. ASSUME CutSession(r)  PROVE AuthInv'
  <2>1. PICK rows \in SUBSET DOMAIN refresh : RevokeRows(rows)
    BY <1>5 DEF CutSession, RevokeSession, RowsOf
  <2>2. RefreshTypeOK' /\ DOMAIN (refresh') = DOMAIN refresh
    BY <2>1, RefreshStatements
  <2>3. QED
    BY <1>5, <2>2, IdleState, Moved DEF CutSession, Finish, AuthTypeOK, AccountsTypeOK,
       AccessTypeOK, accountVars, history, accessVars
<1>6. ASSUME Rotate(r)  PROVE AuthInv'
  <2>1. /\ requests[r].user \in User /\ requests[r].role \in Role /\ requests[r].at \in Nat
        /\ t \in DOMAIN refresh /\ refresh[t].session \in Token
    BY <1>a, <1>6 DEF Rotate, At, RequestShape, RequestState, RefreshTypeOK, RefreshRow
  <2>2. PICK p \in Token :
          /\ IssuePair(p, requests[r].user, requests[r].role, refresh[t].session, requests[r].at)
          /\ Become(r, [Idle EXCEPT !.pc = "mark", !.token = t, !.issued = p])
    BY <1>6 DEF Rotate
  <2>3. /\ RefreshTypeOK' /\ DOMAIN (refresh') = DOMAIN refresh \cup {p}
        /\ AccessTypeOK' /\ DOMAIN (access') = DOMAIN access \cup {p}
    BY <2>1, <2>2, RefreshStatements, AccessStatements DEF IssuePair
  <2>4. PICK q : q = [Idle EXCEPT !.pc = "mark", !.token = t, !.issued = p]
    OBVIOUS
  <2>5. q \in RequestState /\ q.pc = "mark" /\ q.issued = p /\ q.token = t
    BY <2>1, <2>4 DEF Idle, RequestState, PC, RefreshTypeOK
  <2>6. RequestShape(q)'
    BY <2>1, <2>3, <2>5 DEF RequestShape
  <2>7. QED
    BY <1>6, <2>2, <2>3, <2>4, <2>5, <2>6, Moved DEF Rotate, AuthTypeOK, AccountsTypeOK,
       accountVars, history
<1>7. ASSUME MarkSpent(r)  PROVE AuthInv'
  <2>1. t \in DOMAIN refresh /\ requests[r].issued \in DOMAIN refresh
    BY <1>a, <1>7 DEF MarkSpent, At, RequestShape
  <2>2. RefreshTypeOK' /\ DOMAIN (refresh') = DOMAIN refresh
    BY <1>7, <2>1, RefreshStatements DEF MarkSpent, RefreshTypeOK
  <2>3. PICK q : q = [requests[r] EXCEPT !.pc = "respond"]
    OBVIOUS
  <2>4. q \in RequestState /\ q.pc = "respond" /\ q.issued = requests[r].issued
    BY <1>a, <2>3 DEF RequestState, PC
  <2>5. Become(r, q)
    BY <1>7, <2>3 DEF MarkSpent, Goto, Become
  <2>6. RequestShape(q)'
    BY <2>1, <2>2, <2>4 DEF RequestShape
  <2>7. QED
    BY <1>7, <2>2, <2>4, <2>5, <2>6, Moved DEF MarkSpent, AuthTypeOK, AccountsTypeOK,
       AccessTypeOK, accountVars, history, accessVars
<1>8. QED
  BY <1>1, <1>3, <1>4, <1>5, <1>6, <1>7 DEF RefreshStep

LEMMA LogoutTyped ==
  ASSUME AuthInv, clock \in Nat, NEW r \in Request, LogoutStep(r)
  PROVE  AuthInv'
<1> USE DEF AuthInv
<1>a. requests[r] \in RequestState /\ RequestShape(requests[r])
  BY DEF AuthTypeOK
<1> DEFINE t == requests[r].token
           c == requests[r].claims
<1>1. ASSUME NEW p \in Token \cup {None}, NEW d \in Token \cup {None}, LogoutStart(r, p, d)
      PROVE  AuthInv'
  <2>1. {p, d} \subseteq DOMAIN refresh \cup {None}
    BY <1>1 DEF LogoutStart, AccessTypeOK
  <2>2. PICK q : q = [Idle EXCEPT !.pc = "leave", !.at = clock, !.token = p, !.claims = d]
    OBVIOUS
  <2>3. q \in RequestState /\ q.pc = "leave" /\ q.token = p /\ q.claims = d
    BY <2>2 DEF Idle, RequestState, PC
  <2>4. RequestShape(q)
    BY <2>1, <2>3 DEF RequestShape
  <2>5. QED
    BY <1>1, <2>2, <2>3, <2>4, MovedOnly DEF LogoutStart, Begin
<1>2. ASSUME LogoutDone(r), c \in DOMAIN refresh \cup {None}, AccessTypeOK,
             UNCHANGED <<access, delivered>>, deniedUntil' \in [Token -> Nat]
      PROVE  AccessTypeOK' /\ Become(r, Idle)
  BY <1>2 DEF LogoutDone, Finish, AccessTypeOK
<1>3. ASSUME LeaveSession(r)  PROVE AuthInv'
  <2>1. {t, c} \subseteq DOMAIN refresh \cup {None}
    BY <1>a, <1>3 DEF LeaveSession, At, RequestShape
  <2>2. RefreshTypeOK' /\ DOMAIN (refresh') = DOMAIN refresh
    <3>1. CASE UNCHANGED refreshVars
      BY <3>1 DEF refreshVars, RefreshTypeOK
    <3>2. CASE RevokeSession(SessionLeft(r))
      <4>1. RowsOf(SessionLeft(r)) \in SUBSET DOMAIN refresh
        BY DEF RowsOf
      <4>2. QED
        BY <3>2, <4>1, RefreshStatements DEF RevokeSession
    <3>3. QED
      BY <1>3, <3>1, <3>2 DEF LeaveSession
  <2>3. AccountsTypeOK' /\ exchanged' \subseteq Token \X Token
    BY <1>3 DEF LeaveSession, AccountsTypeOK, accountVars, history, AuthTypeOK
  <2>4. CASE ClaimsSeen(r) # None /\ Goto(r, "deny") /\ UNCHANGED loggedOut
    <3>1. PICK q : q = [requests[r] EXCEPT !.pc = "deny"]
      OBVIOUS
    <3>2. q \in RequestState /\ q.pc = "deny" /\ q.token = t /\ q.claims = c
      BY <1>a, <3>1 DEF RequestState, PC
    <3>3. c # None
      BY <2>4 DEF ClaimsSeen
    <3>4. RequestShape(q)'
      BY <2>1, <2>2, <3>2, <3>3 DEF RequestShape
    <3>5. Become(r, q) /\ AccessTypeOK'
      BY <1>3, <2>4, <3>1 DEF LeaveSession, Goto, Become, AccessTypeOK
    <3>6. QED
      BY <1>3, <2>2, <2>3, <3>2, <3>4, <3>5, Moved DEF LeaveSession
  <2>5. CASE LogoutDone(r)
    <3>1. AccessTypeOK' /\ Become(r, Idle)
      BY <1>2, <1>3, <2>1, <2>5 DEF LeaveSession, AccessTypeOK
    <3>2. QED
      BY <1>3, <2>2, <2>3, <3>1, IdleState, Moved DEF LeaveSession
  <2>6. QED
    BY <1>3, <2>4, <2>5 DEF LeaveSession
<1>4. ASSUME DenyAccess(r)  PROVE AuthInv'
  <2>1. c \in DOMAIN access /\ c \in Token /\ requests[r].at \in Nat
    BY <1>a, <1>4 DEF DenyAccess, At, RequestShape, RequestState, RefreshTypeOK
  <2>2. access[c].expires - requests[r].at \in Int
    BY <2>1 DEF AccessTypeOK, AccessClaims
  <2>3. deniedUntil' \in [Token -> Nat]
    BY <1>4, <2>1, <2>2, AccessStatements DEF DenyAccess
  <2>4. AccessTypeOK' /\ Become(r, Idle)
    BY <1>2, <1>4, <2>1, <2>3 DEF DenyAccess
  <2>5. QED
    BY <1>4, <2>4, IdleState, Moved DEF DenyAccess, AccountsTypeOK, accountVars, history,
       RefreshTypeOK, refreshVars, AuthTypeOK
<1>5. ASSUME NEW u \in User, LogoutAllStart(r, u)  PROVE AuthInv'
  <2>1. PICK q : q = [Idle EXCEPT !.pc = "leave_all", !.user = u]
    OBVIOUS
  <2>2. q \in RequestState /\ q.pc = "leave_all" /\ q.user = u
    BY <2>1 DEF Idle, RequestState, PC
  <2>3. RequestShape(q)
    BY <2>2 DEF RequestShape
  <2>4. QED
    BY <1>5, <2>1, <2>2, <2>3, MovedOnly DEF LogoutAllStart, Begin
<1>6. ASSUME LogoutAll(r)  PROVE AuthInv'
  <2>1. PICK rows \in SUBSET DOMAIN refresh : RevokeRows(rows)
    BY <1>6 DEF LogoutAll, RevokeAllForUser
  <2>2. RefreshTypeOK' /\ DOMAIN (refresh') = DOMAIN refresh
    BY <2>1, RefreshStatements
  <2>3. QED
    BY <1>6, <2>2, IdleState, Moved DEF LogoutAll, Finish, AuthTypeOK, AccountsTypeOK,
       AccessTypeOK, accountVars, history, accessVars
<1>7. QED
  BY <1>1, <1>3, <1>4, <1>5, <1>6 DEF LogoutStep

LEMMA EndTyped ==
  ASSUME AuthInv, NEW r \in Request, Respond(r) \/ Abort(r)
  PROVE  AuthInv'
<1> USE DEF AuthInv
<1>1. ASSUME Respond(r)  PROVE AuthInv'
  <2>1. requests[r] \in RequestState /\ requests[r].issued \in DOMAIN refresh
    BY <1>1 DEF AuthTypeOK, Respond, At, RequestShape
  <2>2. requests[r].token \in Token \cup {None} /\ requests[r].issued \in Token
    BY <2>1 DEF RequestState, RefreshTypeOK
  <2>3. AccessTypeOK'
    BY <1>1, <2>1 DEF Respond, AccessTypeOK
  <2>4. exchanged' \subseteq Token \X Token
    BY <1>1, <2>2 DEF Respond, AuthTypeOK
  <2>5. AccountsTypeOK' /\ RefreshTypeOK' /\ UNCHANGED <<refresh, access>> /\ Become(r, Idle)
    BY <1>1 DEF Respond, Finish, AccountsTypeOK, accountVars, history, RefreshTypeOK, refreshVars
  <2>6. QED
    BY <2>3, <2>4, <2>5, IdleState, Moved
<1>2. ASSUME Abort(r)  PROVE AuthInv'
  BY <1>2, IdleState, MovedOnly DEF Abort, Finish
<1>3. QED
  BY <1>1, <1>2

---------------------------------------------------------------------------
(* Steps of Team keep the types of the tables and of the calls. *)

LEMMA TeamKeepsTables ==
  ASSUME AuthInv, TeamInv, clock \in Nat, NEW c \in TeamCall, AdminStart(c) \/ TeamStep(c),
         UNCHANGED <<clock, accessVars, authVars>>
  PROVE  AuthInv'
<1> USE DEF AuthInv
<1>1. access' = access /\ AccessTypeOK' /\ requests' = requests /\ AuthTypeOK'
  BY DEF accessVars, authVars, AccessTypeOK, AuthTypeOK
<1>2. ASSUME UNCHANGED accountVars  PROVE AccountsTypeOK'
  BY <1>2 DEF accountVars, history, AccountsTypeOK
<1>3. ASSUME UNCHANGED refreshVars  PROVE RefreshTypeOK' /\ DOMAIN (refresh') = DOMAIN refresh
  BY <1>3 DEF refreshVars, RefreshTypeOK
<1>4. AccountsTypeOK' /\ RefreshTypeOK' /\ DOMAIN (refresh') = DOMAIN refresh
  <2>1. CASE AdminStart(c) \/ ReadMember(c) \/ AbortCall(c)
    BY <1>2, <1>3, <2>1 DEF AdminStart, StartRevoke, StartUpdateRole, ReadMember, AbortCall
  <2>2. CASE SuspendMember(c)
    <3>1. calls[c].member \in User
      BY <2>2 DEF TeamInv, CallShape, SuspendMember, CallAt
    <3>2. QED
      BY <1>3, <2>2, <3>1, AccountStatements DEF SuspendMember
  <2>3. CASE CloseSessions(c)
    <3>1. PICK rows \in SUBSET DOMAIN refresh : RevokeRows(rows)
      BY <2>3 DEF CloseSessions, RevokeAllForUser
    <3>2. QED
      BY <1>2, <2>3, <3>1, RefreshStatements DEF CloseSessions
  <2>4. CASE SetRole(c)
    <3>1. calls[c].member \in User /\ calls[c].role \in Role
      BY <2>4 DEF TeamInv, CallShape, SetRole, CallAt, InvitableRole, Role
    <3>2. QED
      BY <1>3, <2>4, <3>1, AccountStatements DEF SetRole
  <2>5. QED
    BY <2>1, <2>2, <2>3, <2>4 DEF TeamStep
<1>5. \A r \in Request : RequestShape(requests[r])'
  BY <1>1, <1>4 DEF RequestShape
<1>6. QED
  BY <1>1, <1>4, <1>5

LEMMA TeamTyped ==
  ASSUME AuthInv, TeamInv, clock \in Nat, NEW c \in TeamCall, AdminStart(c) \/ TeamStep(c)
  PROVE  TeamInv'
<1> USE DEF TeamInv, TeamTypeOK
<1>1. ASSUME NEW k \in CallState, CallShape(k), calls' = [calls EXCEPT ![c] = k]
      PROVE  TeamInv'
  BY <1>1
<1>2. NoCall \in CallState /\ CallShape(NoCall)
  BY DEF NoCall, CallState, TeamPC, CallShape
<1>3. ASSUME NEW p \in delivered, NEW m \in User, StartRevoke(c, access[p].user, m)
      PROVE  TeamInv'
  <2>1. access[p].user \in User
    BY DEF AuthInv, AccessTypeOK, AccessClaims
  <2>2. PICK k : k = [NoCall EXCEPT !.pc = "read_suspend", !.actor = access[p].user, !.member = m]
    OBVIOUS
  <2>3. k \in CallState /\ CallShape(k)
    BY <2>1, <2>2 DEF NoCall, CallState, TeamPC, CallShape
  <2>4. QED
    BY <1>1, <1>3, <2>2, <2>3 DEF StartRevoke
<1>4. ASSUME NEW p \in delivered, NEW m \in User, NEW role \in InvitableRole,
             StartUpdateRole(c, access[p].user, m, role)
      PROVE  TeamInv'
  <2>1. access[p].user \in User
    BY DEF AuthInv, AccessTypeOK, AccessClaims
  <2>2. PICK k : k = [pc |-> "read_role", actor |-> access[p].user, member |-> m, role |-> role]
    OBVIOUS
  <2>3. k \in CallState /\ CallShape(k)
    BY <2>1, <2>2 DEF CallState, TeamPC, CallShape, InvitableRole, Role
  <2>4. QED
    BY <1>1, <1>4, <2>2, <2>3 DEF StartUpdateRole
<1>5. ASSUME NEW pc \in {"suspend", "set_role", "revoke_all"}, CallGoto(c, pc),
             pc = "set_role" => CallAt(c, "read_role"), ~CallAt(c, "idle")
      PROVE  TeamInv'
  <2>1. PICK k : k = [calls[c] EXCEPT !.pc = pc]
    OBVIOUS
  <2>2. k \in CallState /\ CallShape(k)
    BY <1>5, <2>1 DEF CallState, TeamPC, CallShape, CallAt
  <2>3. calls' = [calls EXCEPT ![c] = k]
    BY <1>5, <2>1 DEF CallGoto
  <2>4. QED
    BY <1>1, <2>2, <2>3
<1>6. ASSUME CallFinish(c)  PROVE TeamInv'
  BY <1>1, <1>2, <1>6 DEF CallFinish
<1>7. CASE AdminStart(c)
  BY <1>3, <1>4, <1>7 DEF AdminStart
<1>8. CASE TeamStep(c)
  BY <1>5, <1>6, <1>8 DEF TeamStep, ReadMember, SuspendMember, CloseSessions, SetRole,
     AbortCall, CallAt
<1>9. QED
  BY <1>7, <1>8

---------------------------------------------------------------------------
LEMMA TypeInit ==
  ASSUME Init
  PROVE  TypeInv
<1> USE DEF Init
<1>1. clock \in 0..MaxTime
  OBVIOUS
<1>2. AccountsTypeOK
  BY DEF AccountsInit, AccountsTypeOK, Account
<1>3. /\ RefreshTypeOK /\ AccessTypeOK /\ DOMAIN access = DOMAIN refresh
  BY DEF RefreshInit, RefreshTypeOK, AccessInit, AccessTypeOK, EmptyTable
<1>4. AuthTypeOK /\ \A r \in Request : RequestShape(requests[r])
  BY IdleState DEF AuthInit, AuthTypeOK
<1>5. TeamInv
  BY DEF TeamInit, TeamInv, TeamTypeOK, NoCall, CallState, TeamPC, CallShape
<1>6. QED
  BY <1>1, <1>2, <1>3, <1>4, <1>5 DEF TypeInv, AuthInv

LEMMA TypeStep ==
  ASSUME TypeInv, [Next]_vars
  PROVE  TypeInv'
<1> USE DEF TypeInv
<1>1. clock \in Nat
  OBVIOUS
<1>2. ASSUME UNCHANGED <<accountVars, refreshVars, accessVars, authVars>>  PROVE AuthInv'
  BY <1>2 DEF AuthInv, AccountsTypeOK, RefreshTypeOK, AccessTypeOK, AuthTypeOK, RequestShape,
     accountVars, history, refreshVars, accessVars, authVars
<1>3. ASSUME UNCHANGED calls  PROVE TeamInv'
  BY <1>3 DEF TeamInv, TeamTypeOK, CallShape
<1>4. CASE Tick /\ UNCHANGED <<accountVars, refreshVars, accessVars, authVars, calls>>
  BY <1>2, <1>3, <1>4 DEF Tick
<1>5. CASE AuthStep /\ UNCHANGED <<clock, calls>>
  <2>1. PICK r \in Request : \/ LoginStep(r) \/ RefreshStep(r) \/ LogoutStep(r)
                             \/ Respond(r) \/ Abort(r)
    BY <1>5 DEF AuthStep
  <2>2. AuthInv'
    BY <1>1, <2>1, LoginTyped, RefreshTyped, LogoutTyped, EndTyped
  <2>3. QED
    BY <1>3, <1>5, <2>2
<1>6. CASE \E c \in TeamCall : /\ AdminStart(c) \/ TeamStep(c)
                               /\ UNCHANGED <<clock, accessVars, authVars>>
  BY <1>1, <1>6, TeamKeepsTables, TeamTyped
<1>7. CASE UNCHANGED vars
  BY <1>2, <1>3, <1>7 DEF vars
<1>8. QED
  BY <1>4, <1>5, <1>6, <1>7 DEF Next

(* Every variable keeps its type, and every request and call holds, at     *)
(* each of its steps, the locals that step reads.                          *)
THEOREM TypesAndLocals == Spec => []TypeInv
<1>1. Init => TypeInv
  BY TypeInit
<1>2. TypeInv /\ [Next]_vars => TypeInv'
  BY TypeStep
<1>3. QED
  BY <1>1, <1>2, PTL DEF Spec

(* No interleaving of the usecases leaves a row, a claim or a local of the *)
(* wrong type: no handler reads a row that is not there.                   *)
THEOREM TypeCorrect == Spec => []TypeOK
<1>1. TypeInv => TypeOK
  BY DEF TypeInv, AuthInv, TeamInv, TypeOK
<1>2. QED
  BY <1>1, TypesAndLocals, PTL

---------------------------------------------------------------------------
(* Most steps of a request neither read a user row in order to act on it   *)
(* nor write one nor sign anything.  The proofs of the safety properties   *)
(* treat them all alike.                                                   *)

Quiet(r) ==
  \/ \E u \in User : LoginStart(r, u)
  \/ RefuseLogin(r)
  \/ \E p \in Token : RefreshStart(r, p)
  \/ Lookup(r) \/ (CheckAccount(r) /\ ToCut(r)) \/ CutSession(r) \/ MarkSpent(r)
  \/ LogoutStep(r) \/ Respond(r) \/ Abort(r)

Checked(r) == /\ CheckAccount(r)
              /\ CanLogin(users[requests[r].user], requests[r].at)
              /\ Become(r, [requests[r] EXCEPT !.pc = "rotate",
                                               !.role = users[requests[r].user].role])

LEMMA RequestSteps ==
  ASSUME AuthStep
  PROVE  \E r \in Request :
           \/ Quiet(r)
           \/ WrongPassword(r) \/ RegisterFailure(r) \/ RightPassword(r) \/ RegisterSuccess(r)
           \/ OpenSession(r) \/ Checked(r) \/ Rotate(r)
<1>1. ASSUME NEW r \in Request, CheckAccount(r)
      PROVE  (CheckAccount(r) /\ ToCut(r)) \/ Checked(r)
  BY <1>1 DEF CheckAccount, Checked
<1>2. QED
  BY <1>1 DEF AuthStep, LoginStep, RefreshStep, Quiet

LEMMA QuietStep ==
  ASSUME AuthInv, clock \in Nat, NEW r \in Request, Quiet(r)
  PROVE  /\ UNCHANGED <<accountVars, access>>
         /\ \E q : /\ Become(r, q)
                   /\ q.pc \notin Signing \cup {"fail"}
                   /\ q.at \in {0, clock, requests[r].at}
<1> DEFINE t == requests[r].token
           Goal == \E q : /\ Become(r, q)
                          /\ q.pc \notin Signing \cup {"fail"}
                          /\ q.at \in {0, clock, requests[r].at}
<1>a. requests[r] \in RequestState
  BY DEF AuthInv, AuthTypeOK
<1>1. UNCHANGED <<accountVars, access>>
  BY DEF Quiet, LoginStart, RefuseLogin, RefreshStart, Lookup, CheckAccount, CutSession,
     MarkSpent, LogoutStep, LogoutStart, LeaveSession, DenyAccess, LogoutAllStart, LogoutAll,
     Respond, Abort, accessVars
<1>2. ASSUME NEW q, Become(r, q), q.pc \notin Signing \cup {"fail"},
             q.at \in {0, clock, requests[r].at}
      PROVE  Goal
  BY <1>2
<1>3. ASSUME NEW u \in User, LoginStart(r, u)  PROVE Goal
  <2>1. PICK q : q = [Idle EXCEPT !.pc = "authenticate", !.at = clock, !.user = u]
    OBVIOUS
  <2>2. q.pc \notin Signing \cup {"fail"} /\ q.at = clock
    BY <2>1 DEF Idle, Signing
  <2>3. QED
    BY <1>2, <1>3, <2>1, <2>2 DEF LoginStart, Begin
<1>4. ASSUME NEW p \in Token, RefreshStart(r, p)  PROVE Goal
  <2>1. PICK q : q = [Idle EXCEPT !.pc = "lookup", !.at = clock, !.token = p]
    OBVIOUS
  <2>2. q.pc \notin Signing \cup {"fail"} /\ q.at = clock
    BY <2>1 DEF Idle, Signing
  <2>3. QED
    BY <1>2, <1>4, <2>1, <2>2 DEF RefreshStart, Begin
<1>5. ASSUME NEW p, NEW c, LogoutStart(r, p, c)  PROVE Goal
  <2>1. PICK q : q = [Idle EXCEPT !.pc = "leave", !.at = clock, !.token = p, !.claims = c]
    OBVIOUS
  <2>2. q.pc \notin Signing \cup {"fail"} /\ q.at = clock
    BY <2>1 DEF Idle, Signing
  <2>3. QED
    BY <1>2, <1>5, <2>1, <2>2 DEF LogoutStart, Begin
<1>6. ASSUME NEW u \in User, LogoutAllStart(r, u)  PROVE Goal
  <2>1. PICK q : q = [Idle EXCEPT !.pc = "leave_all", !.user = u]
    OBVIOUS
  <2>2. q.pc \notin Signing \cup {"fail"} /\ q.at = 0
    BY <2>1 DEF Idle, Signing
  <2>3. QED
    BY <1>2, <1>6, <2>1, <2>2 DEF LogoutAllStart, Begin
<1>7. ASSUME ToCut(r)  PROVE Goal
  <2>1. PICK q : q = [Idle EXCEPT !.pc = "cut", !.token = t]
    OBVIOUS
  <2>2. q.pc \notin Signing \cup {"fail"} /\ q.at = 0
    BY <2>1 DEF Idle, Signing
  <2>3. QED
    BY <1>2, <1>7, <2>1, <2>2 DEF ToCut
<1>8. ASSUME Become(r, [requests[r] EXCEPT !.pc = "account", !.user = refresh[t].user])
      PROVE  Goal
  <2>1. PICK q : q = [requests[r] EXCEPT !.pc = "account", !.user = refresh[t].user]
    OBVIOUS
  <2>2. q.pc \notin Signing \cup {"fail"} /\ q.at = requests[r].at
    BY <1>a, <2>1 DEF RequestState, Signing
  <2>3. QED
    BY <1>2, <1>8, <2>1, <2>2
<1>9. ASSUME NEW pc \in {"respond", "deny"}, Goto(r, pc)  PROVE Goal
  <2>1. PICK q : q = [requests[r] EXCEPT !.pc = pc]
    OBVIOUS
  <2>2. q.pc \notin Signing \cup {"fail"} /\ q.at = requests[r].at
    BY <1>a, <2>1 DEF RequestState, Signing
  <2>3. QED
    BY <1>2, <1>9, <2>1, <2>2 DEF Goto, Become
<1>10. ASSUME Finish(r)  PROVE Goal
  BY <1>2, <1>10 DEF Finish, Idle, Signing
<1>11. Goal
  <2>1. CASE Lookup(r)
    BY <1>7, <1>8, <1>10, <2>1 DEF Lookup
  <2>2. CASE LeaveSession(r)
    BY <1>9, <1>10, <2>2 DEF LeaveSession, LogoutDone
  <2>3. CASE MarkSpent(r)
    BY <1>9, <2>3 DEF MarkSpent
  <2>4. CASE RefuseLogin(r) \/ CutSession(r) \/ DenyAccess(r) \/ LogoutAll(r) \/ Respond(r)
             \/ Abort(r)
    BY <1>10, <2>4 DEF RefuseLogin, CutSession, DenyAccess, LogoutDone, LogoutAll, Respond, Abort
  <2>5. QED
    BY <1>3, <1>4, <1>5, <1>6, <1>7, <2>1, <2>2, <2>3, <2>4 DEF Quiet, LogoutStep
<1>12. QED
  BY <1>1, <1>11
===========================================================================
