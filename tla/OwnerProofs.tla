---------------------------- MODULE OwnerProofs ----------------------------
(***************************************************************************)
(* The middleware authorizes a member change by the role in a JWT, never   *)
(* by the row, and Team.Revoke reads the member in one statement and       *)
(* suspends them in another.  Neither can go wrong for owners, because     *)
(* nobody becomes an owner and no owner ceases to be an active one: the    *)
(* members a call has passed ReadMember with stay non-owners.              *)
(***************************************************************************)
EXTENDS BackendProofs

Owners == {u \in User : InitialRole[u] = "owner"}

RowsOwned ==
  /\ \A u \in User : users[u].role = "owner" <=> u \in Owners
  /\ \A u \in Owners : users[u].status = "active"

RequestOwned(q) == q.pc \in Signing /\ q.role = "owner" => q.user \in Owners

TokenOwned(p) == access[p].role = "owner" => access[p].user \in Owners

CallOwned(k) ==
  /\ k.pc # "idle" => k.actor \in Owners
  /\ k.pc \in {"suspend", "revoke_all", "set_role"} => k.member \notin Owners

OwnerInv ==
  /\ RowsOwned
  /\ \A r \in Request : RequestOwned(requests[r])
  /\ \A p \in DOMAIN access : TokenOwned(p)
  /\ \A c \in TeamCall : CallOwned(calls[c])

---------------------------------------------------------------------------
(* The matrix lets nobody but an owner change a member. *)
LEMMA OnlyOwnersMay ==
  ASSUME NEW role \in Role, NEW action \in {"update", "delete"},
         Can(role, "super_admin", action)
  PROVE  role = "owner"
  BY DEF Can, defaultPolicy, Owner, readOnly, Role

LEMMA OwnersAdminister ==
  ASSUME AuthInv, OwnerInv, NEW p \in delivered, NEW action \in {"update", "delete"},
         Authorized(p, action)
  PROVE  access[p].user \in Owners
<1>1. p \in DOMAIN access /\ access[p].role \in Role
  BY DEF AuthInv, AccessTypeOK, AccessClaims
<1>2. QED
  BY <1>1, OnlyOwnersMay DEF Authorized, OwnerInv, TokenOwned

---------------------------------------------------------------------------
(* A request moves, signing nothing. *)
LEMMA MovedOwned ==
  ASSUME AuthInv, OwnerInv, RowsOwned', UNCHANGED <<access, calls>>,
         NEW r \in Request, NEW q, Become(r, q), RequestOwned(q)
  PROVE  OwnerInv'
<1>1. \A x \in Request : requests'[x] = IF x = r THEN q ELSE requests[x]
  BY DEF AuthInv, AuthTypeOK, Become
<1>2. \A x \in Request : RequestOwned(requests[x])'
  BY <1>1 DEF OwnerInv, RequestOwned
<1>3. QED
  BY <1>2 DEF OwnerInv, TokenOwned, CallOwned

LEMMA EndsOwned ==
  ASSUME AuthInv, OwnerInv, RowsOwned', UNCHANGED <<access, calls>>,
         NEW r \in Request, NEW q, Become(r, q), q.pc \notin Signing
  PROVE  OwnerInv'
  BY MovedOwned DEF RequestOwned

LEMMA SignedOwned ==
  ASSUME AuthInv, OwnerInv, RowsOwned', UNCHANGED calls,
         NEW r \in Request, requests[r].pc \in Signing, NEW s, NEW p \in Token,
         IssuePair(p, requests[r].user, requests[r].role, s, requests[r].at),
         NEW q, Become(r, q), q.pc \notin Signing
  PROVE  OwnerInv'
<1>1. \A x \in Request : requests'[x] = IF x = r THEN q ELSE requests[x]
  BY DEF AuthInv, AuthTypeOK, Become
<1>2. \A x \in Request : RequestOwned(requests[x])'
  BY <1>1 DEF OwnerInv, RequestOwned
<1>3. \A o \in DOMAIN (access') : TokenOwned(o)'
  <2>1. requests[r].role = "owner" => requests[r].user \in Owners
    BY DEF OwnerInv, RequestOwned
  <2>2. access'[p].user = requests[r].user /\ access'[p].role = requests[r].role
    BY DEF IssuePair, IssueAccess
  <2>3. \A o \in DOMAIN (access') : o = p \/ (o \in DOMAIN access /\ access'[o] = access[o])
    BY DEF IssuePair, IssueAccess, AuthInv
  <2>4. QED
    BY <2>1, <2>2, <2>3 DEF OwnerInv, TokenOwned
<1>4. QED
  BY <1>2, <1>3 DEF OwnerInv, CallOwned

LEMMA SameRowsOwned == RowsOwned /\ UNCHANGED accountVars => RowsOwned'
  BY DEF RowsOwned, accountVars

LEMMA RequestsOwned ==
  ASSUME AuthInv, OwnerInv, clock \in Nat, UNCHANGED calls, AuthStep
  PROVE  OwnerInv'
<1>1. PICK r \in Request :
        \/ Quiet(r)
        \/ WrongPassword(r) \/ RegisterFailure(r) \/ RightPassword(r) \/ RegisterSuccess(r)
        \/ OpenSession(r) \/ Checked(r) \/ Rotate(r)
  BY RequestSteps
<1> DEFINE u == requests[r].user
<1>a. requests[r] \in RequestState /\ RequestShape(requests[r]) /\ RequestOwned(requests[r])
  BY DEF AuthInv, AuthTypeOK, OwnerInv
<1>b. RowsOwned
  BY DEF OwnerInv
<1>c. ASSUME UNCHANGED accountVars  PROVE RowsOwned'
  BY <1>b, <1>c, SameRowsOwned
<1>2. CASE Quiet(r)
  BY <1>2, <1>c, EndsOwned, QuietStep
<1>3. CASE WrongPassword(r)
  <2>1. PICK q : q = [requests[r] EXCEPT !.pc = "fail", !.failed = users[u].failed]
    OBVIOUS
  <2>2. q.pc \notin Signing
    BY <1>a, <2>1 DEF RequestState, Signing
  <2>3. QED
    BY <1>3, <1>c, <2>1, <2>2, EndsOwned DEF WrongPassword, accessVars
<1>4. CASE RegisterFailure(r)
  <2>1. PICK until : RegisterFailedLogin(u, until)
    BY <1>4 DEF RegisterFailure
  <2> DEFINE n == users[u].failed + 1
             l == IF until = 0 THEN users[u].lockedUntil ELSE until
  <2>2. users' = [users EXCEPT ![u] = [users[u] EXCEPT !.failed = n, !.lockedUntil = l]]
    BY <2>1 DEF RegisterFailedLogin
  <2> HIDE DEF n, l
  <2>3. \A v \in User : users'[v].role = users[v].role /\ users'[v].status = users[v].status
    BY <2>2 DEF AuthInv, AccountsTypeOK, Account
  <2>4. RowsOwned'
    BY <1>b, <2>3 DEF RowsOwned, Owners
  <2>5. QED
    BY <1>4, <2>4, EndsOwned DEF RegisterFailure, Finish, Idle, Signing, accessVars
<1>5. CASE RightPassword(r)
  <2>1. PICK q : q = [requests[r] EXCEPT !.pc = "welcome", !.role = users[u].role]
    OBVIOUS
  <2>2. q.role = users[u].role /\ q.user = u /\ u \in User
    BY <1>5, <1>a, <2>1 DEF RequestState, RightPassword, At, RequestShape
  <2>3. RequestOwned(q)
    BY <1>b, <2>2 DEF RequestOwned, RowsOwned
  <2>4. QED
    BY <1>5, <1>c, <2>1, <2>3, MovedOwned DEF RightPassword, accessVars
<1>6. CASE RegisterSuccess(r)
  <2>1. RowsOwned'
    BY <1>6, <1>b DEF RegisterSuccess, RegisterSuccessfulLogin, RowsOwned, Owners, AuthInv,
       AccountsTypeOK, Account
  <2>2. PICK q : q = [requests[r] EXCEPT !.pc = "open"]
    OBVIOUS
  <2>3. q.user = u /\ q.role = requests[r].role /\ requests[r].pc \in Signing
    BY <1>6, <1>a, <2>2 DEF RequestState, RegisterSuccess, At, Signing
  <2>4. RequestOwned(q)
    BY <1>a, <2>3 DEF RequestOwned
  <2>5. QED
    BY <1>6, <2>1, <2>2, <2>4, MovedOwned DEF RegisterSuccess, Goto, Become, accessVars
<1>7. CASE OpenSession(r)
  <2>1. PICK p \in Token : /\ IssuePair(p, u, requests[r].role, p, requests[r].at)
                           /\ Become(r, [Idle EXCEPT !.pc = "respond", !.issued = p])
    BY <1>7 DEF OpenSession
  <2>2. PICK q : q = [Idle EXCEPT !.pc = "respond", !.issued = p]
    OBVIOUS
  <2>3. q.pc \notin Signing /\ requests[r].pc \in Signing
    BY <1>7, <2>2 DEF OpenSession, At, Idle, Signing
  <2>4. QED
    BY <1>7, <1>c, <2>1, <2>2, <2>3, SignedOwned DEF OpenSession
<1>8. CASE Checked(r)
  <2>1. PICK q : q = [requests[r] EXCEPT !.pc = "rotate", !.role = users[u].role]
    OBVIOUS
  <2>2. q.role = users[u].role /\ q.user = u /\ u \in User
    BY <1>8, <1>a, <2>1 DEF RequestState, Checked, CheckAccount, At, RequestShape
  <2>3. RequestOwned(q)
    BY <1>b, <2>2 DEF RequestOwned, RowsOwned
  <2>4. QED
    BY <1>8, <1>c, <2>1, <2>3, MovedOwned DEF Checked, CheckAccount, accessVars
<1>9. CASE Rotate(r)
  <2> DEFINE t == requests[r].token
  <2>1. PICK p \in Token :
          /\ IssuePair(p, u, requests[r].role, refresh[t].session, requests[r].at)
          /\ Become(r, [Idle EXCEPT !.pc = "mark", !.token = t, !.issued = p])
    BY <1>9 DEF Rotate
  <2>2. PICK q : q = [Idle EXCEPT !.pc = "mark", !.token = t, !.issued = p]
    OBVIOUS
  <2>3. q.pc \notin Signing /\ requests[r].pc \in Signing
    BY <1>9, <2>2 DEF Rotate, At, Idle, Signing
  <2>4. QED
    BY <1>9, <1>c, <2>1, <2>2, <2>3, SignedOwned DEF Rotate
<1>10. QED
  BY <1>1, <1>2, <1>3, <1>4, <1>5, <1>6, <1>7, <1>8, <1>9

---------------------------------------------------------------------------
LEMMA TeamOwned ==
  ASSUME AuthInv, TeamInv, OwnerInv, NEW c \in TeamCall, AdminStart(c) \/ TeamStep(c),
         UNCHANGED <<accessVars, authVars>>
  PROVE  OwnerInv'
<1> USE DEF TeamInv, TeamTypeOK
<1>1. RowsOwned /\ CallOwned(calls[c]) /\ CallShape(calls[c]) /\ calls[c] \in CallState
  BY DEF OwnerInv
<1>2. ASSUME RowsOwned', NEW k, calls' = [calls EXCEPT ![c] = k], CallOwned(k)
      PROVE  OwnerInv'
  <2>1. \A d \in TeamCall : CallOwned(calls[d])'
    BY <1>2 DEF OwnerInv, CallOwned
  <2>2. access' = access /\ requests' = requests
    BY DEF accessVars, authVars
  <2>3. QED
    BY <1>2, <2>1, <2>2 DEF OwnerInv, RequestOwned, TokenOwned
<1>3. CASE AdminStart(c)
  <2>1. RowsOwned'
    BY <1>1, <1>3, SameRowsOwned DEF AdminStart, StartRevoke, StartUpdateRole
  <2>2. PICK p \in delivered, m \in User :
          \/ Authorized(p, "delete") /\ StartRevoke(c, access[p].user, m)
          \/ /\ Authorized(p, "update")
             /\ \E role \in InvitableRole : StartUpdateRole(c, access[p].user, m, role)
    BY <1>3 DEF AdminStart
  <2>3. access[p].user \in Owners
    BY <2>2, OwnersAdminister
  <2>4. CASE StartRevoke(c, access[p].user, m)
    <3>1. PICK k : k = [NoCall EXCEPT !.pc = "read_suspend", !.actor = access[p].user,
                                      !.member = m]
      OBVIOUS
    <3>2. CallOwned(k)
      BY <2>3, <3>1 DEF NoCall, CallOwned
    <3>3. QED
      BY <1>2, <2>1, <2>4, <3>1, <3>2 DEF StartRevoke
  <2>5. ASSUME NEW role \in InvitableRole, StartUpdateRole(c, access[p].user, m, role)
        PROVE  OwnerInv'
    <3>1. PICK k : k = [pc |-> "read_role", actor |-> access[p].user, member |-> m,
                        role |-> role]
      OBVIOUS
    <3>2. CallOwned(k)
      BY <2>3, <3>1 DEF CallOwned
    <3>3. QED
      BY <1>2, <2>1, <2>5, <3>1, <3>2 DEF StartUpdateRole
  <2>6. QED
    BY <2>2, <2>4, <2>5
<1>4. ASSUME RowsOwned', NEW pc \in {"suspend", "set_role", "revoke_all"}, CallGoto(c, pc),
             ~CallAt(c, "idle"), calls[c].member \notin Owners
      PROVE  OwnerInv'
  <2>1. PICK k : k = [calls[c] EXCEPT !.pc = pc]
    OBVIOUS
  <2>2. CallOwned(k)
    BY <1>1, <1>4, <2>1 DEF CallOwned, CallState, CallAt
  <2>3. QED
    BY <1>2, <1>4, <2>1, <2>2 DEF CallGoto
<1>5. ASSUME RowsOwned', CallFinish(c)  PROVE OwnerInv'
  BY <1>2, <1>5 DEF CallFinish, CallOwned, NoCall
<1>6. CASE ReadMember(c)
  <2>1. RowsOwned'
    BY <1>1, <1>6, SameRowsOwned DEF ReadMember
  <2>2. CASE CallFinish(c)
    BY <1>5, <2>1, <2>2
  <2>3. CASE /\ users[calls[c].member].role # "owner" /\ ~CallAt(c, "idle")
             /\ \E pc \in {"suspend", "set_role"} : CallGoto(c, pc)
    <3>1. calls[c].member \in User
      BY <1>1, <2>3 DEF CallShape, CallAt
    <3>2. calls[c].member \notin Owners
      BY <1>1, <2>3, <3>1 DEF RowsOwned
    <3>3. QED
      BY <1>4, <2>1, <2>3, <3>2
  <2>4. QED
    BY <1>6, <2>2, <2>3 DEF ReadMember, CallAt
<1>7. CASE SuspendMember(c)
  <2>1. calls[c].member \notin Owners /\ calls[c].member \in User
    BY <1>1, <1>7 DEF SuspendMember, CallAt, CallOwned, CallShape
  <2>2. RowsOwned'
    BY <1>1, <1>7, <2>1 DEF SuspendMember, Suspend, RowsOwned, Owners, AuthInv, AccountsTypeOK,
       Account
  <2>3. QED
    BY <1>4, <1>7, <2>1, <2>2 DEF SuspendMember, CallAt
<1>8. CASE SetRole(c)
  <2>1. /\ calls[c].member \notin Owners /\ calls[c].member \in User
        /\ calls[c].role # "owner"
    BY <1>1, <1>8 DEF SetRole, CallAt, CallOwned, CallShape, InvitableRole
  <2>2. RowsOwned'
    BY <1>1, <1>8, <2>1 DEF SetRole, UpdateRole, RowsOwned, Owners, AuthInv, AccountsTypeOK,
       Account
  <2>3. QED
    BY <1>5, <1>8, <2>2 DEF SetRole
<1>9. CASE CloseSessions(c) \/ AbortCall(c)
  BY <1>1, <1>5, <1>9, SameRowsOwned DEF CloseSessions, AbortCall
<1>10. QED
  BY <1>3, <1>6, <1>7, <1>8, <1>9 DEF TeamStep

LEMMA OwnerInit ==
  ASSUME Init
  PROVE  OwnerInv
  BY InitialRoleAssumption DEF InitialRoleAssumption, Init, AccountsInit, AuthInit, AccessInit,
     TeamInit, EmptyTable, Idle, NoCall, OwnerInv, RowsOwned, Owners, RequestOwned, TokenOwned,
     CallOwned, Signing

LEMMA OwnerStep ==
  ASSUME TypeInv, OwnerInv, [Next]_vars
  PROVE  OwnerInv'
<1>1. AuthInv /\ TeamInv /\ clock \in Nat
  BY MaxTimeAssumption DEF TypeInv, MaxTimeAssumption
<1>2. ASSUME UNCHANGED <<accountVars, accessVars, authVars, calls>>  PROVE OwnerInv'
  <2>1. RowsOwned'
    BY <1>2, SameRowsOwned DEF OwnerInv
  <2>2. UNCHANGED <<access, requests, calls>>
    BY <1>2 DEF accessVars, authVars
  <2>3. QED
    BY <2>1, <2>2 DEF OwnerInv, RequestOwned, TokenOwned, CallOwned
<1>3. CASE AuthStep /\ UNCHANGED <<clock, calls>>
  BY <1>1, <1>3, RequestsOwned
<1>4. CASE \E c \in TeamCall : /\ AdminStart(c) \/ TeamStep(c)
                               /\ UNCHANGED <<clock, accessVars, authVars>>
  BY <1>1, <1>4, TeamOwned
<1>5. QED
  BY <1>2, <1>3, <1>4 DEF Next, vars

(* The owners are those of the start, all active, whatever the team calls  *)
(* under way do: an owner is neither made, nor demoted, nor removed.       *)
THEOREM OwnersStay == Spec => []OwnerInv
<1>1. TypeInv /\ OwnerInv /\ [Next]_vars => OwnerInv'
  BY OwnerStep
<1>2. QED
  BY <1>1, OwnerInit, TypesAndLocals, PTL DEF Spec

(* Whatever the age of the JWT that admitted it, a member change under way *)
(* is made by somebody who is an active owner at this moment.              *)
THEOREM OwnersOnly == Spec => []OnlyOwnersAdminister
<1>1. TypeInv /\ OwnerInv => OnlyOwnersAdminister
  <2> SUFFICES ASSUME TypeInv, OwnerInv, NEW c \in TeamCall, calls[c].pc # "idle"
               PROVE  /\ users[calls[c].actor].role = "owner"
                      /\ users[calls[c].actor].status = "active"
    BY DEF OnlyOwnersAdminister
  <2>1. calls[c].actor \in Owners
    BY DEF OwnerInv, CallOwned
  <2>2. QED
    BY <2>1 DEF OwnerInv, RowsOwned, Owners
<1>2. QED
  BY <1>1, OwnersStay, TypesAndLocals, PTL
===========================================================================
