---------------------------- MODULE AccessProofs ----------------------------
(***************************************************************************)
(* What access tokens are good for.                                        *)
(*                                                                         *)
(* How long a JWT may disagree with the row of its user.  Both properties  *)
(* follow from one relation between a user row and whatever was derived    *)
(* from it at an instant t: if the row has changed since, it changed no    *)
(* earlier than t.  It holds of a request from the moment it has checked   *)
(* the row until it signs, with t the instant it entered, and of a signed  *)
(* JWT, with t the instant it was signed at.                               *)
(***************************************************************************)
EXTENDS BackendProofs

Fresh(u, role, t) ==
  /\ users[u].status = "suspended" => t <= suspendedAt[u]
  /\ role = users[u].role \/ t <= roleChangedAt[u]

RequestFresh(q) ==
  /\ q.at <= clock
  /\ q.pc \in Signing => Fresh(q.user, q.role, q.at)

SignedAt(p) == access[p].expires - AccessTTL

TokenFresh(p) ==
  /\ SignedAt(p) <= clock
  /\ Fresh(access[p].user, access[p].role, SignedAt(p))

StaleInv ==
  /\ \A r \in Request : RequestFresh(requests[r])
  /\ \A p \in DOMAIN access : TokenFresh(p)

---------------------------------------------------------------------------
(* A change of a row happens now, and everything derived was derived before. *)

FreshKept ==
  \A u \in User, role \in Role, t \in Int :
    t <= clock /\ Fresh(u, role, t) => Fresh(u, role, t)'

LEMMA RowChanges ==
  ASSUME AccountsTypeOK, clock \in Nat, NEW v \in User,
         \/ UNCHANGED accountVars
         \/ \E until \in Nat : RegisterFailedLogin(v, until)
         \/ RegisterSuccessfulLogin(v)
         \/ \E role \in Role : UpdateRole(v, role)
         \/ Suspend(v)
  PROVE  FreshKept
<1> USE DEF AccountsTypeOK, Account, Fresh
<1> SUFFICES ASSUME NEW u \in User, NEW role \in Role, NEW t \in Int,
                    t <= clock, Fresh(u, role, t)
             PROVE  Fresh(u, role, t)'
  BY DEF FreshKept
<1>1. CASE UNCHANGED accountVars
  BY <1>1 DEF accountVars, history
<1>2. ASSUME NEW until \in Nat, RegisterFailedLogin(v, until)  PROVE Fresh(u, role, t)'
  <2> DEFINE n == users[v].failed + 1
             l == IF until = 0 THEN users[v].lockedUntil ELSE until
  <2>1. users' = [users EXCEPT ![v] = [users[v] EXCEPT !.failed = n, !.lockedUntil = l]]
        /\ UNCHANGED <<suspendedAt, roleChangedAt>>
    BY <1>2 DEF RegisterFailedLogin
  <2> HIDE DEF n, l
  <2>2. users'[u].status = users[u].status /\ users'[u].role = users[u].role
    BY <2>1
  <2>3. QED
    BY <2>1, <2>2
<1>3. CASE RegisterSuccessfulLogin(v)
  <2>1. users'[u].status = users[u].status /\ users'[u].role = users[u].role
    BY <1>3 DEF RegisterSuccessfulLogin
  <2>2. QED
    BY <1>3, <2>1 DEF RegisterSuccessfulLogin
<1>4. ASSUME NEW new \in Role, UpdateRole(v, new)  PROVE Fresh(u, role, t)'
  <2>1. users'[u].status = users[u].status /\ suspendedAt' = suspendedAt
    BY <1>4 DEF UpdateRole
  <2>2. \/ users'[u].role = users[u].role /\ roleChangedAt'[u] = roleChangedAt[u]
        \/ roleChangedAt'[u] = clock
    BY <1>4 DEF UpdateRole
  <2>3. QED
    BY <2>1, <2>2
<1>5. CASE Suspend(v)
  <2>1. users'[u].role = users[u].role /\ roleChangedAt' = roleChangedAt
    BY <1>5 DEF Suspend
  <2>2. \/ users'[u].status = users[u].status /\ suspendedAt'[u] = suspendedAt[u]
        \/ suspendedAt'[u] = clock
    BY <1>5 DEF Suspend
  <2>3. QED
    BY <2>1, <2>2
<1>6. QED
  BY <1>1, <1>2, <1>3, <1>4, <1>5

LEMMA SameRows ==
  ASSUME UNCHANGED accountVars
  PROVE  FreshKept
  BY DEF Fresh, FreshKept, accountVars, history

(* What that says of the requests and tokens a step leaves alone. *)
LEMMA Kept ==
  ASSUME AuthInv, StaleInv, FreshKept, clock \in Nat, clock' \in Nat, clock <= clock'
  PROVE  /\ \A r \in Request : requests'[r] = requests[r] => RequestFresh(requests[r])'
         /\ \A p \in DOMAIN access : access'[p] = access[p] => TokenFresh(p)'
<1>1. ASSUME NEW r \in Request, requests'[r] = requests[r]  PROVE RequestFresh(requests[r])'
  <2> DEFINE q == requests[r]
  <2>1. q.at \in Nat /\ q.at <= clock /\ RequestShape(q)
    BY DEF AuthInv, AuthTypeOK, RequestState, StaleInv, RequestFresh
  <2>2. q.pc \in Signing => Fresh(q.user, q.role, q.at)'
    BY <1>1, <2>1 DEF StaleInv, RequestFresh, FreshKept, RequestShape, Signing, Fresh
  <2>3. QED
    BY <1>1, <2>1, <2>2 DEF RequestFresh, Fresh
<1>2. ASSUME NEW p \in DOMAIN access, access'[p] = access[p]  PROVE TokenFresh(p)'
  <2>1. access[p].user \in User /\ access[p].role \in Role /\ access[p].expires \in Nat
    BY DEF AuthInv, AccessTypeOK, AccessClaims
  <2>2. SignedAt(p) \in Int /\ SignedAt(p) <= clock
    <3>1. TokenFresh(p)
      BY DEF StaleInv
    <3>2. SignedAt(p) \in Int
      BY <2>1, AccessTTLAssumption DEF SignedAt, AccessTTLAssumption
    <3>3. QED
      BY <3>1, <3>2 DEF TokenFresh
  <2>3. Fresh(access[p].user, access[p].role, SignedAt(p))'
    BY <1>2, <2>1, <2>2 DEF StaleInv, TokenFresh, FreshKept, SignedAt, Fresh
  <2>4. QED
    BY <1>2, <2>1, <2>2, <2>3 DEF TokenFresh, SignedAt
<1>3. QED
  BY <1>1, <1>2

---------------------------------------------------------------------------
(* A request moves, signing nothing. *)
LEMMA Aged ==
  ASSUME AuthInv, StaleInv, FreshKept, UNCHANGED <<clock, access>>, clock \in Nat,
         NEW r \in Request, NEW q, Become(r, q), RequestFresh(q)'
  PROVE  StaleInv'
<1>1. \A x \in Request : RequestFresh(requests[x])'
  <2> SUFFICES ASSUME NEW x \in Request  PROVE RequestFresh(requests[x])'
    OBVIOUS
  <2>1. requests'[x] = IF x = r THEN q ELSE requests[x]
    BY DEF AuthInv, AuthTypeOK, Become
  <2>2. CASE x = r
    BY <2>1, <2>2 DEF RequestFresh
  <2>3. CASE x # r
    BY <2>1, <2>3, Kept
  <2>4. QED
    BY <2>2, <2>3
<1>2. \A p \in DOMAIN access : TokenFresh(p)'
  BY Kept
<1>3. QED
  BY <1>1, <1>2 DEF StaleInv

(* A request that signs gives the pair what it had checked of the row. *)
LEMMA Signed ==
  ASSUME AuthInv, StaleInv, UNCHANGED <<clock, accountVars>>, clock \in Nat,
         NEW r \in Request, requests[r].pc \in Signing, NEW s, NEW p \in Token,
         IssuePair(p, requests[r].user, requests[r].role, s, requests[r].at),
         NEW q, Become(r, q), q.at = 0, q.pc \notin Signing
  PROVE  StaleInv'
<1> DEFINE u == requests[r].user
           role == requests[r].role
           at == requests[r].at
<1>1. u \in User /\ role \in Role /\ at \in Nat /\ at <= clock /\ Fresh(u, role, at)
  BY DEF AuthInv, AuthTypeOK, RequestState, RequestShape, Signing, StaleInv, RequestFresh
<1> HIDE DEF u, role, at
<1>2. p \notin DOMAIN access /\ DOMAIN (access') = DOMAIN access \cup {p}
  BY DEF IssuePair, IssueAccess, AuthInv
<1>3. access'[p] = [user |-> u, role |-> role, session |-> s, expires |-> at + AccessTTL]
  BY DEF IssuePair, IssueAccess, u, role, at
<1>4. \A o \in DOMAIN access : access'[o] = access[o]
  BY <1>2 DEF IssuePair, IssueAccess
<1>5. FreshKept
  BY <1>1, RowChanges DEF AuthInv
<1>6. ASSUME NEW o \in DOMAIN access  PROVE TokenFresh(o)'
  BY <1>4, <1>5, Kept
<1>7. TokenFresh(p)'
  <2>1. SignedAt(p)' = at
    BY <1>1, <1>3, AccessTTLAssumption DEF SignedAt, AccessTTLAssumption
  <2>2. Fresh(access[p].user, access[p].role, SignedAt(p))'
    BY <1>1, <1>3, <2>1 DEF Fresh, accountVars, history
  <2>3. QED
    BY <1>1, <2>1, <2>2 DEF TokenFresh
<1>8. ASSUME NEW x \in Request  PROVE RequestFresh(requests[x])'
  <2>1. requests'[x] = IF x = r THEN q ELSE requests[x]
    BY DEF AuthInv, AuthTypeOK, Become
  <2>2. CASE x = r
    BY <2>1, <2>2 DEF RequestFresh
  <2>3. CASE x # r
    BY <1>5, <2>1, <2>3, Kept
  <2>4. QED
    BY <2>2, <2>3
<1>9. QED
  BY <1>2, <1>6, <1>7, <1>8 DEF StaleInv

---------------------------------------------------------------------------
LEMMA RequestsStale ==
  ASSUME AuthInv, StaleInv, clock \in Nat, UNCHANGED clock, AuthStep
  PROVE  StaleInv'
<1>1. PICK r \in Request :
        \/ Quiet(r)
        \/ WrongPassword(r) \/ RegisterFailure(r) \/ RightPassword(r) \/ RegisterSuccess(r)
        \/ OpenSession(r) \/ Checked(r) \/ Rotate(r)
  BY RequestSteps
<1> DEFINE u == requests[r].user
<1>a. requests[r] \in RequestState /\ RequestShape(requests[r]) /\ RequestFresh(requests[r])
  BY DEF AuthInv, AuthTypeOK, StaleInv
<1>b. requests[r].at \in Nat /\ requests[r].at <= clock
  BY <1>a DEF RequestState, RequestFresh
<1>c. ASSUME UNCHANGED accountVars  PROVE FreshKept
  BY <1>c, SameRows
<1>2. ASSUME NEW q, Become(r, q), q.at \in {0, clock, requests[r].at}, q.pc \notin Signing,
             UNCHANGED access, FreshKept
      PROVE  StaleInv'
  <2>1. q.at <= clock
    BY <1>2, <1>b
  <2>2. RequestFresh(q)'
    BY <1>2, <2>1 DEF RequestFresh
  <2>3. QED
    BY <1>2, <2>2, Aged
<1>3. CASE Quiet(r)
  BY <1>2, <1>3, <1>c, QuietStep
<1>4. CASE WrongPassword(r)
  <2>1. PICK q : q = [requests[r] EXCEPT !.pc = "fail", !.failed = users[u].failed]
    OBVIOUS
  <2>2. q.at = requests[r].at /\ q.pc \notin Signing
    BY <1>a, <2>1 DEF RequestState, Signing
  <2>3. QED
    BY <1>2, <1>4, <1>c, <2>1, <2>2 DEF WrongPassword, accessVars
<1>5. CASE RegisterFailure(r)
  <2>1. u \in User
    BY <1>a, <1>5 DEF RegisterFailure, At, RequestShape
  <2>2. \E until \in Nat : RegisterFailedLogin(u, until)
    BY <1>5, <1>b, LockoutAssumption DEF RegisterFailure, LockoutAssumption
  <2>3. FreshKept
    BY <2>1, <2>2, RowChanges DEF AuthInv
  <2>4. QED
    BY <1>2, <1>5, <2>3 DEF RegisterFailure, Finish, Idle, Signing, accessVars
<1>6. CASE RightPassword(r)
  <2>1. PICK q : q = [requests[r] EXCEPT !.pc = "welcome", !.role = users[u].role]
    OBVIOUS
  <2>2. q.role = users[u].role /\ q.at = requests[r].at /\ q.user = u
    BY <1>a, <2>1 DEF RequestState
  <2>3. users[u].status = "active"
    BY <1>6 DEF RightPassword, CanLogin
  <2>4. RequestFresh(q)'
    BY <1>6, <1>b, <2>2, <2>3 DEF RightPassword, RequestFresh, Fresh, accountVars, history
  <2>5. QED
    BY <1>6, <1>c, <2>1, <2>4, Aged DEF RightPassword, accessVars
<1>7. CASE RegisterSuccess(r)
  <2>1. u \in User /\ requests[r].role \in Role /\ Fresh(u, requests[r].role, requests[r].at)
    BY <1>a, <1>7 DEF RegisterSuccess, At, RequestShape, RequestFresh, Signing
  <2>2. FreshKept
    BY <1>7, <2>1, RowChanges DEF RegisterSuccess, AuthInv
  <2>3. PICK q : q = [requests[r] EXCEPT !.pc = "open"]
    OBVIOUS
  <2>4. q.at = requests[r].at /\ q.user = u /\ q.role = requests[r].role
    BY <1>a, <2>3 DEF RequestState
  <2>5. RequestFresh(q)'
    BY <1>b, <2>1, <2>2, <2>4 DEF RequestFresh, FreshKept, Fresh
  <2>6. QED
    BY <1>7, <2>2, <2>3, <2>5, Aged DEF RegisterSuccess, Goto, Become, accessVars
<1>8. CASE OpenSession(r)
  <2>1. PICK p \in Token : /\ IssuePair(p, u, requests[r].role, p, requests[r].at)
                           /\ Become(r, [Idle EXCEPT !.pc = "respond", !.issued = p])
    BY <1>8 DEF OpenSession
  <2>2. PICK q : q = [Idle EXCEPT !.pc = "respond", !.issued = p]
    OBVIOUS
  <2>3. q.at = 0 /\ q.pc \notin Signing /\ requests[r].pc \in Signing
    BY <1>8, <2>2 DEF OpenSession, At, Idle, Signing
  <2>4. QED
    BY <1>8, <2>1, <2>2, <2>3, Signed DEF OpenSession
<1>9. CASE Checked(r)
  <2>1. PICK q : q = [requests[r] EXCEPT !.pc = "rotate", !.role = users[u].role]
    OBVIOUS
  <2>2. q.role = users[u].role /\ q.at = requests[r].at /\ q.user = u
    BY <1>a, <2>1 DEF RequestState
  <2>3. users[u].status = "active" /\ UNCHANGED <<accountVars, access>>
    BY <1>9 DEF Checked, CheckAccount, CanLogin, accessVars
  <2>4. RequestFresh(q)'
    BY <1>b, <2>2, <2>3 DEF RequestFresh, Fresh, accountVars, history
  <2>5. QED
    BY <1>9, <1>c, <2>1, <2>3, <2>4, Aged DEF Checked
<1>10. CASE Rotate(r)
  <2> DEFINE t == requests[r].token
  <2>1. PICK p \in Token :
          /\ IssuePair(p, u, requests[r].role, refresh[t].session, requests[r].at)
          /\ Become(r, [Idle EXCEPT !.pc = "mark", !.token = t, !.issued = p])
    BY <1>10 DEF Rotate
  <2>2. PICK q : q = [Idle EXCEPT !.pc = "mark", !.token = t, !.issued = p]
    OBVIOUS
  <2>3. q.at = 0 /\ q.pc \notin Signing /\ requests[r].pc \in Signing
    BY <1>10, <2>2 DEF Rotate, At, Idle, Signing
  <2>4. QED
    BY <1>10, <2>1, <2>2, <2>3, Signed DEF Rotate
<1>11. QED
  BY <1>1, <1>3, <1>4, <1>5, <1>6, <1>7, <1>8, <1>9, <1>10

---------------------------------------------------------------------------
LEMMA StaleStep ==
  ASSUME TypeInv, StaleInv, [Next]_vars
  PROVE  StaleInv'
<1>1. AuthInv /\ TeamInv /\ clock \in Nat
  BY MaxTimeAssumption DEF TypeInv, MaxTimeAssumption
<1>2. ASSUME FreshKept, UNCHANGED <<access, requests>>, clock' \in Nat, clock <= clock'
      PROVE  StaleInv'
  BY <1>1, <1>2, Kept DEF StaleInv
<1>3. CASE Tick /\ UNCHANGED <<accountVars, refreshVars, accessVars, authVars, calls>>
  BY <1>1, <1>2, <1>3, SameRows DEF Tick, accessVars, authVars
<1>4. CASE AuthStep /\ UNCHANGED <<clock, calls>>
  BY <1>1, <1>4, RequestsStale
<1>5. CASE \E c \in TeamCall : /\ AdminStart(c) \/ TeamStep(c)
                               /\ UNCHANGED <<clock, accessVars, authVars>>
  <2>1. PICK c \in TeamCall : /\ AdminStart(c) \/ TeamStep(c)
                              /\ UNCHANGED <<clock, accessVars, authVars>>
    BY <1>5
  <2>2. CASE UNCHANGED accountVars
    BY <1>1, <1>2, <2>1, <2>2, SameRows DEF accessVars, authVars
  <2>3. CASE SuspendMember(c) \/ SetRole(c)
    <3>1. /\ calls[c].member \in User
          /\ SetRole(c) => calls[c].role \in Role
      BY <1>1, <2>3 DEF TeamInv, CallShape, SuspendMember, SetRole, CallAt, InvitableRole, Role
    <3>2. FreshKept
      BY <1>1, <2>3, <3>1, RowChanges DEF SuspendMember, SetRole, AuthInv
    <3>3. QED
      BY <1>1, <1>2, <2>1, <3>2 DEF accessVars, authVars
  <2>4. QED
    BY <2>1, <2>2, <2>3 DEF AdminStart, StartRevoke, StartUpdateRole, TeamStep, ReadMember,
       CloseSessions, AbortCall
<1>6. CASE UNCHANGED vars
  BY <1>1, <1>2, <1>6, SameRows DEF vars, accessVars, authVars
<1>7. QED
  BY <1>3, <1>4, <1>5, <1>6 DEF Next

(* What is about to be signed, and what has been, is as fresh as the last  *)
(* change of the account, or was signed for an instant before it.          *)
THEOREM Staleness == Spec => []StaleInv
<1>1. Init => StaleInv
  BY DEF Init, AuthInit, AccessInit, EmptyTable, Idle, StaleInv, RequestFresh, Signing
<1>2. TypeInv /\ StaleInv /\ [Next]_vars => StaleInv'
  BY StaleStep
<1>3. QED
  BY <1>1, <1>2, TypesAndLocals, PTL DEF Spec

(* However long a Login or a Refresh takes between its check of the row    *)
(* and its signature, the JWT it signs dies within AccessTTL of a          *)
(* suspension that came in between.                                        *)
THEOREM SuspensionBounded == Spec => []SuspensionBoundsAccess
<1>1. TypeInv /\ StaleInv => SuspensionBoundsAccess
  <2> SUFFICES ASSUME TypeInv, StaleInv, NEW p \in DOMAIN access,
                      users[access[p].user].status = "suspended"
               PROVE  access[p].expires <= suspendedAt[access[p].user] + AccessTTL
    BY DEF SuspensionBoundsAccess
  <2>1. access[p].expires \in Nat /\ suspendedAt[access[p].user] \in Nat
    BY DEF TypeInv, AuthInv, AccessTypeOK, AccessClaims, AccountsTypeOK
  <2>2. SignedAt(p) <= suspendedAt[access[p].user]
    BY DEF StaleInv, TokenFresh, Fresh
  <2>3. QED
    BY <2>1, <2>2, AccessTTLAssumption DEF SignedAt, AccessTTLAssumption
<1>2. QED
  BY <1>1, TypesAndLocals, Staleness, PTL

(* The same of a change of role: no JWT carries the old one for longer.    *)
THEOREM RoleChangeBounded == Spec => []RoleChangeBoundsAccess
<1>1. TypeInv /\ StaleInv => RoleChangeBoundsAccess
  <2> SUFFICES ASSUME TypeInv, StaleInv, NEW p \in DOMAIN access,
                      access[p].role # users[access[p].user].role
               PROVE  access[p].expires <= roleChangedAt[access[p].user] + AccessTTL
    BY DEF RoleChangeBoundsAccess
  <2>1. access[p].expires \in Nat /\ roleChangedAt[access[p].user] \in Nat
    BY DEF TypeInv, AuthInv, AccessTypeOK, AccessClaims, AccountsTypeOK
  <2>2. SignedAt(p) <= roleChangedAt[access[p].user]
    BY DEF StaleInv, TokenFresh, Fresh
  <2>3. QED
    BY <2>1, <2>2, AccessTTLAssumption DEF SignedAt, AccessTTLAssumption
<1>2. QED
  BY <1>1, TypesAndLocals, Staleness, PTL

---------------------------------------------------------------------------
(***************************************************************************)
(* Logout called with the claims of its caller, as auth_test.go calls it:  *)
(* the deny key it writes lives at least as long as the token it denies.   *)
(* The usecase computes the remaining lifetime from the instant it read on *)
(* entry, and Redis counts it from the instant it runs the command, which  *)
(* can only be later.                                                      *)
(***************************************************************************)

Denied(p) == access[p].expires <= clock \/ access[p].expires <= deniedUntil[p]

DenyInv == \A p \in loggedOut : Denied(p)

LEMMA DenyKept ==
  ASSUME AuthInv, DenyInv, clock \in Nat, clock' \in Nat, clock <= clock',
         UNCHANGED <<deniedUntil, loggedOut>>,
         \A p \in DOMAIN access : access'[p] = access[p]
  PROVE  DenyInv'
<1> SUFFICES ASSUME NEW p \in loggedOut  PROVE Denied(p)'
  BY DEF DenyInv
<1>1. p \in DOMAIN access /\ access[p].expires \in Nat
  BY DEF AuthInv, AccessTypeOK, AccessClaims
<1>2. QED
  BY <1>1 DEF DenyInv, Denied

LEMMA KeyOutlivesToken ==
  ASSUME AuthInv, StaleInv, DenyInv, clock \in Nat, UNCHANGED clock,
         NEW r \in Request, DenyAccess(r)
  PROVE  DenyInv'
<1>0. PICK c, e, at :
        c = requests[r].claims /\ e = access[c].expires /\ at = requests[r].at
  OBVIOUS
<1>1. /\ c \in DOMAIN access /\ c \in Token /\ e \in Nat
      /\ at \in Nat /\ at <= clock
      /\ deniedUntil \in [Token -> Nat] /\ loggedOut \subseteq Token
      /\ requests \in [Request -> RequestState]
  BY <1>0 DEF AuthInv, AuthTypeOK, RequestState, RequestShape, DenyAccess, At, AccessTypeOK,
     AccessClaims, StaleInv, RequestFresh
<1>2. access' = access /\ Revoke(c, e - at) /\ loggedOut' \subseteq loggedOut \cup {c}
  BY <1>0 DEF DenyAccess, LogoutDone
<1>3. \A p \in Token : access[p].expires \in Nat /\ Denied(p) /\ p # c => Denied(p)'
  BY <1>1, <1>2 DEF Denied, Revoke
<1>4. Denied(c)'
  <2>1. CASE e - at > 0
    <3>1. deniedUntil'[c] = clock + (e - at)
      BY <1>1, <1>2, <2>1 DEF Revoke
    <3>2. e <= clock + (e - at)
      BY <1>1
    <3>3. QED
      BY <1>0, <1>2, <3>1, <3>2 DEF Denied
  <2>2. CASE e - at <= 0
    <3>1. e <= clock
      BY <1>1, <2>2
    <3>2. QED
      BY <1>0, <1>2, <3>1 DEF Denied
  <2>3. QED
    BY <1>1, <2>1, <2>2
<1>5. \A p \in loggedOut : access[p].expires \in Nat
  BY DEF AuthInv, AccessTypeOK, AccessClaims
<1>6. QED
  BY <1>1, <1>2, <1>3, <1>4, <1>5 DEF DenyInv

LEMMA DenyStep ==
  ASSUME ~RoutedLogout, TypeInv, StaleInv, DenyInv, [Next]_vars
  PROVE  DenyInv'
<1>1. AuthInv /\ clock \in Nat
  BY MaxTimeAssumption DEF TypeInv, MaxTimeAssumption
<1>2. ASSUME UNCHANGED accessVars, clock' \in Nat, clock <= clock'  PROVE DenyInv'
  BY <1>1, <1>2, DenyKept DEF accessVars
<1>3. ASSUME NEW r \in Request, UNCHANGED clock,
             LoginStep(r) \/ RefreshStep(r) \/ LogoutStep(r) \/ Respond(r) \/ Abort(r)
      PROVE  DenyInv'
  <2>1. ASSUME NEW p, NEW u, NEW role, NEW s, NEW now, IssuePair(p, u, role, s, now)
        PROVE  DenyInv'
    <3>1. \A o \in DOMAIN access : access'[o] = access[o]
      BY <2>1, <1>1 DEF IssuePair, IssueAccess, AuthInv
    <3>2. QED
      BY <1>1, <1>3, <2>1, <3>1, DenyKept DEF IssuePair, IssueAccess
  <2>2. CASE OpenSession(r) \/ Rotate(r)
    BY <2>1, <2>2 DEF OpenSession, Rotate
  <2>3. CASE DenyAccess(r)
    BY <1>1, <1>3, <2>3, KeyOutlivesToken
  <2>4. CASE LeaveSession(r)
    <3>1. UNCHANGED <<access, deniedUntil, loggedOut>>
      BY <2>4 DEF LeaveSession, ClaimsSeen, LogoutDone
    <3>2. QED
      BY <1>1, <1>3, <3>1, DenyKept
  <2>5. CASE Respond(r)
    BY <1>1, <1>3, <2>5, DenyKept DEF Respond
  <2>6. CASE UNCHANGED accessVars
    BY <1>1, <1>2, <1>3, <2>6
  <2>7. QED
    BY <1>3, <2>2, <2>3, <2>4, <2>5, <2>6 DEF LoginStep, LoginStart, WrongPassword,
       RegisterFailure, RightPassword, RefuseLogin, RegisterSuccess, RefreshStep, RefreshStart,
       Lookup, CheckAccount, CutSession, MarkSpent, LogoutStep, LogoutStart, LogoutAllStart,
       LogoutAll, Abort
<1>4. QED
  BY <1>1, <1>2, <1>3 DEF Next, Tick, AuthStep, vars

(* Of Logout as auth_test.go calls it, not as router.go mounts it: where    *)
(* the claims reach the usecase, an access token that went into a Logout   *)
(* which returned is refused from then on, however many calls run at once  *)
(* and however late the Redis command runs.                                *)
LEMMA LogoutDeniesGivenClaims ==
  ASSUME ~RoutedLogout
  PROVE  Spec => []LogoutKillsAccess
<1>1. Init => DenyInv
  BY DEF Init, AccessInit, DenyInv
<1>2. TypeInv /\ StaleInv /\ DenyInv /\ [Next]_vars => DenyInv'
  BY DenyStep
<1>3. TypeInv /\ DenyInv => LogoutKillsAccess
  <2> SUFFICES ASSUME TypeInv, DenyInv, NEW p \in loggedOut  PROVE ~Accepts(p)
    BY DEF LogoutKillsAccess
  <2>1. /\ access[p].expires \in Nat /\ deniedUntil[p] \in Nat /\ clock \in Nat
    BY MaxTimeAssumption DEF TypeInv, AuthInv, AccessTypeOK, AccessClaims, MaxTimeAssumption
  <2>2. QED
    BY <2>1 DEF DenyInv, Denied, Accepts
<1>4. QED
  BY <1>1, <1>2, <1>3, TypesAndLocals, Staleness, PTL DEF Spec
---------------------------------------------------------------------------
(* Logout as router.go:62 mounts it, outside middleware.Auth: no call ever *)
(* gets as far as the deny key, so that the check of the revocation list   *)
(* in the middleware never refuses anything.                               *)

OnlyExpiryEndsAccess == \A p \in DOMAIN access : Accepts(p) <=> clock < access[p].expires

NoKeyInv ==
  /\ deniedUntil = [p \in Token |-> 0]
  /\ requests \in [Request -> RequestState]
  /\ \A r \in Request : ~At(r, "deny")

LEMMA NoKeyKept ==
  ASSUME NoKeyInv, requests' \in [Request -> RequestState], NEW r \in Request, NEW q, Become(r, q),
         q.pc # "deny", UNCHANGED deniedUntil
  PROVE  NoKeyInv'
  BY DEF NoKeyInv, Become, At

LEMMA NoKeyGone ==
  ASSUME NoKeyInv, requests' \in [Request -> RequestState], NEW r \in Request, NEW pc, Goto(r, pc),
         pc # "deny", UNCHANGED deniedUntil
  PROVE  NoKeyInv'
<1>1. PICK q : q = [requests[r] EXCEPT !.pc = pc]
  OBVIOUS
<1>2. Become(r, q) /\ q.pc = pc
  BY <1>1 DEF Goto, Become, NoKeyInv, RequestState
<1>3. QED
  BY <1>2, NoKeyKept

LEMMA NoKeyFinished ==
  ASSUME NoKeyInv, requests' \in [Request -> RequestState], NEW r \in Request, Finish(r),
         UNCHANGED deniedUntil
  PROVE  NoKeyInv'
<1>1. PICK q : q = Idle
  OBVIOUS
<1>2. Become(r, q) /\ q.pc # "deny"
  BY <1>1 DEF Finish, Idle
<1>3. QED
  BY <1>2, NoKeyKept

LEMMA NoKeyStep ==
  ASSUME RoutedLogout, NoKeyInv, requests' \in [Request -> RequestState], [Next]_vars
  PROVE  NoKeyInv'
<1>1. CASE UNCHANGED <<requests, deniedUntil>>
  BY <1>1 DEF NoKeyInv, At
<1>2. ASSUME NEW r \in Request,
             LoginStep(r) \/ RefreshStep(r) \/ LogoutStep(r) \/ Respond(r) \/ Abort(r)
      PROVE  NoKeyInv'
  <2>1. CASE LoginStep(r)
    <3>1. ASSUME NEW u \in User, LoginStart(r, u)  PROVE NoKeyInv'
      <4>1. PICK q : q = [Idle EXCEPT !.pc = "authenticate", !.at = clock, !.user = u]
        OBVIOUS
      <4>2. Become(r, q) /\ q.pc = "authenticate" /\ UNCHANGED deniedUntil
        BY <3>1, <4>1 DEF LoginStart, Begin, Idle, accessVars
      <4>3. QED
        BY <4>2, NoKeyKept
    <3>2. CASE WrongPassword(r)
      <4>1. PICK q : q = [requests[r] EXCEPT !.pc = "fail", !.failed = users[requests[r].user].failed]
        OBVIOUS
      <4>2. Become(r, q) /\ q.pc = "fail" /\ UNCHANGED deniedUntil
        BY <3>2, <4>1 DEF WrongPassword, accessVars, NoKeyInv, RequestState
      <4>3. QED
        BY <4>2, NoKeyKept
    <3>3. CASE RegisterFailure(r) \/ RefuseLogin(r)
      BY <3>3, NoKeyFinished DEF RegisterFailure, RefuseLogin, accessVars
    <3>4. CASE RightPassword(r)
      <4>1. PICK q : q = [requests[r] EXCEPT !.pc = "welcome", !.role = users[requests[r].user].role]
        OBVIOUS
      <4>2. Become(r, q) /\ q.pc = "welcome" /\ UNCHANGED deniedUntil
        BY <3>4, <4>1 DEF RightPassword, accessVars, NoKeyInv, RequestState
      <4>3. QED
        BY <4>2, NoKeyKept
    <3>5. CASE RegisterSuccess(r)
      BY <3>5, NoKeyGone DEF RegisterSuccess, accessVars
    <3>6. CASE OpenSession(r)
      <4>1. PICK p \in Token : Become(r, [Idle EXCEPT !.pc = "respond", !.issued = p])
        BY <3>6 DEF OpenSession
      <4>2. PICK q : q = [Idle EXCEPT !.pc = "respond", !.issued = p]
        OBVIOUS
      <4>3. Become(r, q) /\ q.pc = "respond" /\ UNCHANGED deniedUntil
        BY <3>6, <4>1, <4>2 DEF OpenSession, IssuePair, IssueAccess, Idle
      <4>4. QED
        BY <4>3, NoKeyKept
    <3>7. QED
      BY <2>1, <3>1, <3>2, <3>3, <3>4, <3>5, <3>6 DEF LoginStep
  <2>2. CASE RefreshStep(r)
    <3>1. ASSUME NEW p \in Token, RefreshStart(r, p)  PROVE NoKeyInv'
      <4>1. PICK q : q = [Idle EXCEPT !.pc = "lookup", !.at = clock, !.token = p]
        OBVIOUS
      <4>2. Become(r, q) /\ q.pc = "lookup" /\ UNCHANGED deniedUntil
        BY <3>1, <4>1 DEF RefreshStart, Begin, Idle, accessVars
      <4>3. QED
        BY <4>2, NoKeyKept
    <3>2. ASSUME ToCut(r), UNCHANGED deniedUntil  PROVE NoKeyInv'
      <4>1. PICK q : q = [Idle EXCEPT !.pc = "cut", !.token = requests[r].token]
        OBVIOUS
      <4>2. Become(r, q) /\ q.pc = "cut"
        BY <3>2, <4>1 DEF ToCut, Idle
      <4>3. QED
        BY <3>2, <4>2, NoKeyKept
    <3>3. CASE Lookup(r)
      <4>1. PICK q : q = [requests[r] EXCEPT !.pc = "account", !.user = refresh[requests[r].token].user]
        OBVIOUS
      <4>2. q.pc = "account"
        BY <4>1 DEF NoKeyInv, RequestState
      <4>3. ToCut(r) \/ Finish(r) \/ Become(r, q)
        BY <3>3, <4>1 DEF Lookup
      <4>4. UNCHANGED deniedUntil
        BY <3>3 DEF Lookup, accessVars
      <4>5. QED
        BY <3>2, <4>2, <4>3, <4>4, NoKeyKept, NoKeyFinished
    <3>4. CASE CheckAccount(r)
      <4>1. PICK q : q = [requests[r] EXCEPT !.pc = "rotate", !.role = users[requests[r].user].role]
        OBVIOUS
      <4>2. q.pc = "rotate"
        BY <4>1 DEF NoKeyInv, RequestState
      <4>3. ToCut(r) \/ Become(r, q)
        BY <3>4, <4>1 DEF CheckAccount
      <4>4. UNCHANGED deniedUntil
        BY <3>4 DEF CheckAccount, accessVars
      <4>5. QED
        BY <3>2, <4>2, <4>3, <4>4, NoKeyKept
    <3>5. CASE CutSession(r)
      BY <3>5, NoKeyFinished DEF CutSession, accessVars
    <3>6. CASE Rotate(r)
      <4>1. PICK p \in Token :
              Become(r, [Idle EXCEPT !.pc = "mark", !.token = requests[r].token, !.issued = p])
        BY <3>6 DEF Rotate
      <4>2. PICK q : q = [Idle EXCEPT !.pc = "mark", !.token = requests[r].token, !.issued = p]
        OBVIOUS
      <4>3. Become(r, q) /\ q.pc = "mark" /\ UNCHANGED deniedUntil
        BY <3>6, <4>1, <4>2 DEF Rotate, IssuePair, IssueAccess, Idle
      <4>4. QED
        BY <4>3, NoKeyKept
    <3>7. CASE MarkSpent(r)
      BY <3>7, NoKeyGone DEF MarkSpent, accessVars
    <3>8. QED
      BY <2>2, <3>1, <3>3, <3>4, <3>5, <3>6, <3>7 DEF RefreshStep
  <2>3. CASE LogoutStep(r)
    <3>1. ASSUME NEW p, NEW c, LogoutStart(r, p, c)  PROVE NoKeyInv'
      <4>1. PICK q : q = [Idle EXCEPT !.pc = "leave", !.at = clock, !.token = p, !.claims = c]
        OBVIOUS
      <4>2. Become(r, q) /\ q.pc = "leave" /\ UNCHANGED deniedUntil
        BY <3>1, <4>1 DEF LogoutStart, Begin, Idle, accessVars
      <4>3. QED
        BY <4>2, NoKeyKept
    \* The step that would go on to the deny key: it has no claims to go on with.
    <3>2. CASE LeaveSession(r)
      <4>1. LogoutDone(r) /\ UNCHANGED deniedUntil
        BY <3>2 DEF LeaveSession, ClaimsSeen
      <4>2. QED
        BY <4>1, NoKeyFinished DEF LogoutDone
    <3>3. ~DenyAccess(r)
      BY DEF DenyAccess, NoKeyInv
    <3>4. ASSUME NEW u, LogoutAllStart(r, u)  PROVE NoKeyInv'
      <4>1. PICK q : q = [Idle EXCEPT !.pc = "leave_all", !.user = u]
        OBVIOUS
      <4>2. Become(r, q) /\ q.pc = "leave_all" /\ UNCHANGED deniedUntil
        BY <3>4, <4>1 DEF LogoutAllStart, Begin, Idle, accessVars
      <4>3. QED
        BY <4>2, NoKeyKept
    <3>5. CASE LogoutAll(r)
      BY <3>5, NoKeyFinished DEF LogoutAll, accessVars
    <3>6. QED
      BY <2>3, <3>1, <3>2, <3>3, <3>4, <3>5 DEF LogoutStep
  <2>4. CASE Respond(r) \/ Abort(r)
    BY <2>4, NoKeyFinished DEF Respond, Abort, accessVars
  <2>5. QED
    BY <1>2, <2>1, <2>2, <2>3, <2>4
<1>3. QED
  BY <1>1, <1>2 DEF Next, AuthStep, Tick, vars, accessVars, authVars

(* Over the routes of router.go nothing but its own expiry ends an access  *)
(* token: no Logout, no LogoutAll and no removal from the team shortens    *)
(* its life by an instant, in whatever order and however many at once.     *)
THEOREM LogoutEndsNothing ==
  ASSUME RoutedLogout
  PROVE  Spec => []OnlyExpiryEndsAccess
<1>1. Init => NoKeyInv
  BY DEF Init, AccessInit, AuthInit, NoKeyInv, At, Idle, RequestState, PC
<1>2. TypeInv' => requests' \in [Request -> RequestState]
  BY DEF TypeInv, AuthInv, AuthTypeOK
<1>3. TypeInv' /\ NoKeyInv /\ [Next]_vars => NoKeyInv'
  BY <1>2, NoKeyStep
<1>4. TypeInv /\ NoKeyInv => OnlyExpiryEndsAccess
  <2> SUFFICES ASSUME TypeInv, NoKeyInv, NEW p \in DOMAIN access
               PROVE  Accepts(p) <=> clock < access[p].expires
    BY DEF OnlyExpiryEndsAccess
  <2>1. p \in Token /\ clock \in Nat
    BY DEF TypeInv, AuthInv, AccessTypeOK
  <2>2. deniedUntil[p] = 0
    BY <2>1 DEF NoKeyInv
  <2>3. deniedUntil[p] <= clock
    BY <2>1, <2>2
  <2>4. QED
    BY <2>3 DEF Accepts
<1>5. QED
  BY <1>1, <1>3, <1>4, TypesAndLocals, PTL DEF Spec
=============================================================================
