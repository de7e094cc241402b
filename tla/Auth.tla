------------------------------- MODULE Auth -------------------------------
(***************************************************************************)
(* The Auth usecase (internal/usecase/auth.go).  A request is one          *)
(* goroutine serving one HTTP call.  It reads the clock once, on entry,    *)
(* and then issues its SQL and Redis commands one at a time; each command  *)
(* is a step, and any other request may run between two of them.           *)
(***************************************************************************)
EXTENDS Accounts, RefreshTokens, AccessTokens, FiniteSets

CONSTANTS Request,      \* request slots: how many calls run at once
          Offered,      \* the calls clients make (a model narrows them)
          RoutedLogout, \* TRUE: Logout as router.go wires it, outside middleware.Auth
          FailureBound  \* bound: no wrong password once the counter is this high

ASSUME RequestAssumption == IsFiniteSet(Request) /\ Request # {}
ASSUME RoutedLogoutAssumption == RoutedLogout \in BOOLEAN
ASSUME FailureBoundAssumption == FailureBound \in Nat

VARIABLES requests,   \* the local variables of every request
          exchanged   \* history: <<p, q>> when pair q answered a Refresh with p

authVars == <<requests, exchanged>>

\* pc names the command the request issues next.
PC == {"idle", "authenticate", "fail", "welcome", "open",
       "lookup", "account", "rotate", "mark", "cut", "respond",
       "leave", "deny", "leave_all"}

\* at: the instant read on entry.  token: the refresh token presented.
\* role, failed: fields of the user row as it was when read.  issued: the
\* pair created.  claims: the access token the client sent with a Logout.
\* A field is dropped (None, 0) at the step after which the handler no longer
\* reads that local.
RequestState == [pc : PC, at : Nat, user : User \cup {None},
                 token : Token \cup {None}, role : Role \cup {None}, failed : Nat,
                 issued : Token \cup {None}, claims : Token \cup {None}]

Idle == [pc |-> "idle", at |-> 0, user |-> None, token |-> None, role |-> None,
         failed |-> 0, issued |-> None, claims |-> None]

AuthTypeOK ==
  /\ requests \in [Request -> RequestState]
  /\ exchanged \subseteq Token \X Token

AuthInit ==
  /\ requests = [r \in Request |-> Idle]
  /\ exchanged = {}

---------------------------------------------------------------------------
At(r, pc) == requests[r].pc = pc
Become(r, state) == requests' = [requests EXCEPT ![r] = state]
Begin(r, state) == At(r, "idle") /\ Become(r, state)
Goto(r, pc) == requests' = [requests EXCEPT ![r].pc = pc]
Finish(r) == Become(r, Idle)

\* Mutant: the expiry counted from the moment of signing, not of entry.
IssuePairLate(p, u, role, s, now) ==
  /\ p \notin DOMAIN refresh
  /\ IssueAccess(p, u, role, s, clock)
  /\ CreateRefreshToken(p, u, s, now)

\* issuePairWithID: sign the JWT and insert the refresh row under the same now.
IssuePair(p, u, role, s, now) ==
  /\ p \notin DOMAIN refresh
  /\ IssueAccess(p, u, role, s, now)
  /\ CreateRefreshToken(p, u, s, now)

---------------------------------------------------------------------------
(* Login *)

LoginStart(r, u) ==
  /\ "login" \in Offered
  /\ Begin(r, [Idle EXCEPT !.pc = "authenticate", !.at = clock, !.user = u])
  /\ UNCHANGED <<accountVars, refreshVars, accessVars, exchanged>>

\* Password.Authenticate reads the row, then the hash does not match.
WrongPassword(r) ==
  LET u == requests[r].user IN
  /\ At(r, "authenticate")
  /\ users[u].failed < FailureBound
  /\ Become(r, [requests[r] EXCEPT !.pc = "fail", !.failed = users[u].failed])
  /\ UNCHANGED <<accountVars, refreshVars, accessVars, exchanged>>

\* Mutant: the threshold test off by one.
RegisterFailureLate(r) ==
  LET until == IF requests[r].failed + 1 > MaxFailedAttempts
               THEN requests[r].at + LockoutDuration ELSE 0
  IN
  /\ At(r, "fail")
  /\ RegisterFailedLogin(requests[r].user, until)
  /\ Finish(r)
  /\ UNCHANGED <<refreshVars, accessVars, exchanged>>

\* registerFailure: the threshold is compared with the row as it was READ.
RegisterFailure(r) ==
  LET until == IF requests[r].failed + 1 >= MaxFailedAttempts
               THEN requests[r].at + LockoutDuration ELSE 0
  IN
  /\ At(r, "fail")
  /\ RegisterFailedLogin(requests[r].user, until)
  /\ Finish(r)
  /\ UNCHANGED <<refreshVars, accessVars, exchanged>>

\* Mutant: the role never copied out of the row.
RightPasswordNoRole(r) ==
  /\ At(r, "authenticate")
  /\ CanLogin(users[requests[r].user], requests[r].at)
  /\ Goto(r, "welcome")
  /\ UNCHANGED <<accountVars, refreshVars, accessVars, exchanged>>

\* The hash matches and EnsureCanLogin lets the row through.
RightPassword(r) ==
  LET u == requests[r].user IN
  /\ At(r, "authenticate")
  /\ CanLogin(users[u], requests[r].at)
  /\ Become(r, [requests[r] EXCEPT !.pc = "welcome", !.role = users[u].role])
  /\ UNCHANGED <<accountVars, refreshVars, accessVars, exchanged>>

\* The hash matches, but the account is locked or suspended.
RefuseLogin(r) ==
  /\ At(r, "authenticate")
  /\ ~CanLogin(users[requests[r].user], requests[r].at)
  /\ Finish(r)
  /\ UNCHANGED <<accountVars, refreshVars, accessVars, exchanged>>

RegisterSuccess(r) ==
  /\ At(r, "welcome")
  /\ RegisterSuccessfulLogin(requests[r].user)
  /\ Goto(r, "open")
  /\ UNCHANGED <<refreshVars, accessVars, exchanged>>

\* A new login is a new rotation chain.
OpenSession(r) ==
  /\ At(r, "open")
  /\ \E p \in Token :
       /\ IssuePair(p, requests[r].user, requests[r].role, p, requests[r].at)
       /\ Become(r, [Idle EXCEPT !.pc = "respond", !.issued = p])
  /\ UNCHANGED <<accountVars, exchanged>>

---------------------------------------------------------------------------
(* Refresh *)

\* A client presents a refresh token it was given, spent ones included.
RefreshStart(r, p) ==
  /\ "refresh" \in Offered
  /\ p \in delivered
  /\ Begin(r, [Idle EXCEPT !.pc = "lookup", !.at = clock, !.token = p])
  /\ UNCHANGED <<accountVars, refreshVars, accessVars, exchanged>>

ToCut(r) == Become(r, [Idle EXCEPT !.pc = "cut", !.token = requests[r].token])

\* Mutant: a used token is taken for a usable one.
LookupRevokedOnly(r) ==
  LET row == refresh[requests[r].token] IN
  /\ At(r, "lookup")
  /\ \/ IsRevoked(row) /\ ToCut(r)
     \/ ~IsRevoked(row) /\ IsExpired(row, requests[r].at) /\ Finish(r)
     \/ /\ ~IsRevoked(row) /\ ~IsExpired(row, requests[r].at)
        /\ Become(r, [requests[r] EXCEPT !.pc = "account", !.user = row.user])
  /\ UNCHANGED <<accountVars, refreshVars, accessVars, exchanged>>

\* GetByHash: a spent token is a replay, whether or not it has expired too.
Lookup(r) ==
  LET row == refresh[requests[r].token]
      spent == IsUsed(row) \/ IsRevoked(row)
  IN
  /\ At(r, "lookup")
  /\ \/ spent /\ ToCut(r)
     \/ ~spent /\ IsExpired(row, requests[r].at) /\ Finish(r)
     \/ /\ ~spent /\ ~IsExpired(row, requests[r].at)
        /\ Become(r, [requests[r] EXCEPT !.pc = "account", !.user = row.user])
  /\ UNCHANGED <<accountVars, refreshVars, accessVars, exchanged>>

\* Mutant: the role carried over from the previous access token.
CheckAccountOldRole(r) ==
  LET account == users[requests[r].user] IN
  /\ At(r, "account")
  /\ \/ /\ CanLogin(account, requests[r].at)
        /\ Become(r, [requests[r] EXCEPT !.pc = "rotate",
                                          !.role = access[requests[r].token].role])
     \/ ~CanLogin(account, requests[r].at) /\ ToCut(r)
  /\ UNCHANGED <<accountVars, refreshVars, accessVars, exchanged>>

\* GetByID and EnsureCanLogin: the role of the new pair is the row's.
CheckAccount(r) ==
  LET account == users[requests[r].user] IN
  /\ At(r, "account")
  /\ \/ /\ CanLogin(account, requests[r].at)
        /\ Become(r, [requests[r] EXCEPT !.pc = "rotate", !.role = account.role])
     \/ ~CanLogin(account, requests[r].at) /\ ToCut(r)
  /\ UNCHANGED <<accountVars, refreshVars, accessVars, exchanged>>

\* Mutant: only the presented token revoked, not its chain.
CutTokenOnly(r) ==
  /\ At(r, "cut")
  /\ RevokeRows({requests[r].token})
  /\ Finish(r)
  /\ UNCHANGED <<accountVars, accessVars, exchanged>>

\* A replayed token, or an account that may no longer log in: the whole
\* chain is revoked and the client gets no pair.
CutSession(r) ==
  /\ At(r, "cut")
  /\ RevokeSession(refresh[requests[r].token].session)
  /\ Finish(r)
  /\ UNCHANGED <<accountVars, accessVars, exchanged>>

\* The successor is inserted first, so that replaced_by refers to a row.
Rotate(r) ==
  /\ At(r, "rotate")
  /\ \E p \in Token :
       /\ IssuePair(p, requests[r].user, requests[r].role,
                    refresh[requests[r].token].session, requests[r].at)
       /\ Become(r, [Idle EXCEPT !.pc = "mark", !.token = requests[r].token, !.issued = p])
  /\ UNCHANGED <<accountVars, exchanged>>

\* MarkUsed reports no error when it finds the token already used.
MarkSpent(r) ==
  /\ At(r, "mark")
  /\ MarkUsed(requests[r].token, requests[r].issued)
  /\ Goto(r, "respond")
  /\ UNCHANGED <<accountVars, accessVars, exchanged>>

\* The answer to a Login or a Refresh reaches the client.
Respond(r) ==
  /\ At(r, "respond")
  /\ delivered' = delivered \cup {requests[r].issued}
  /\ exchanged' = IF requests[r].token = None THEN exchanged
                  ELSE exchanged \cup {<<requests[r].token, requests[r].issued>>}
  /\ Finish(r)
  /\ UNCHANGED <<accountVars, refreshVars, access, deniedUntil, loggedOut>>

---------------------------------------------------------------------------
(* Logout and LogoutAll *)

\* The client sends the refresh cookie p and the access token c it has.
LogoutStart(r, p, c) ==
  /\ "logout" \in Offered
  /\ {p, c} \subseteq delivered \cup {None}
  /\ (c # None /\ ~RoutedLogout) => Accepts(c)
  /\ Begin(r, [Idle EXCEPT !.pc = "leave", !.at = clock, !.token = p, !.claims = c])
  /\ UNCHANGED <<accountVars, refreshVars, accessVars, exchanged>>

\* What middleware.ClaimsFrom gives the handler: nothing, on a route that
\* middleware.Auth does not guard.
ClaimsSeen(r) == IF RoutedLogout THEN None ELSE requests[r].claims

\* The cookie's session wins over the session of the claims.
SessionLeft(r) ==
  CASE requests[r].token # None -> refresh[requests[r].token].session
    [] requests[r].token = None /\ ClaimsSeen(r) # None -> access[ClaimsSeen(r)].session
    [] OTHER -> None

LogoutDone(r) ==
  /\ loggedOut' = loggedOut \cup ({requests[r].claims} \ {None})
  /\ Finish(r)

LeaveSession(r) ==
  /\ At(r, "leave")
  /\ IF SessionLeft(r) # None THEN RevokeSession(SessionLeft(r)) ELSE UNCHANGED refreshVars
  /\ \/ ClaimsSeen(r) # None /\ Goto(r, "deny") /\ UNCHANGED loggedOut
     \/ ClaimsSeen(r) = None /\ LogoutDone(r)
  /\ UNCHANGED <<accountVars, access, delivered, deniedUntil, exchanged>>

\* Mutant: the remaining lifetime rounded down by one unit.
DenyAccessShort(r) ==
  /\ At(r, "deny")
  /\ Revoke(requests[r].claims, access[requests[r].claims].expires - requests[r].at - 1)
  /\ LogoutDone(r)
  /\ UNCHANGED <<accountVars, refreshVars, access, delivered, exchanged>>

DenyAccess(r) ==
  /\ At(r, "deny")
  /\ Revoke(requests[r].claims, access[requests[r].claims].expires - requests[r].at)
  /\ LogoutDone(r)
  /\ UNCHANGED <<accountVars, refreshVars, access, delivered, exchanged>>

LogoutAllStart(r, u) ==
  /\ "logout_all" \in Offered
  /\ Begin(r, [Idle EXCEPT !.pc = "leave_all", !.user = u])
  /\ UNCHANGED <<accountVars, refreshVars, accessVars, exchanged>>

LogoutAll(r) ==
  /\ At(r, "leave_all")
  /\ RevokeAllForUser(requests[r].user)
  /\ Finish(r)
  /\ UNCHANGED <<accountVars, accessVars, exchanged>>

---------------------------------------------------------------------------
\* The next command fails, the client goes away, or the process dies: what
\* was committed stays, what was only in memory is lost.
Abort(r) ==
  /\ ~At(r, "idle")
  /\ Finish(r)
  /\ UNCHANGED <<accountVars, refreshVars, accessVars, exchanged>>

LoginStep(r) ==
  \/ \E u \in User : LoginStart(r, u)
  \/ WrongPassword(r) \/ RegisterFailure(r) \/ RightPassword(r) \/ RefuseLogin(r)
  \/ RegisterSuccess(r) \/ OpenSession(r)

RefreshStep(r) ==
  \/ \E p \in Token : RefreshStart(r, p)
  \/ Lookup(r) \/ CheckAccount(r) \/ CutSession(r) \/ Rotate(r) \/ MarkSpent(r)

LogoutStep(r) ==
  \/ \E p, c \in Token \cup {None} : LogoutStart(r, p, c)
  \/ LeaveSession(r) \/ DenyAccess(r)
  \/ \E u \in User : LogoutAllStart(r, u)
  \/ LogoutAll(r)

AuthStep == \E r \in Request :
  \/ LoginStep(r) \/ RefreshStep(r) \/ LogoutStep(r) \/ Respond(r) \/ Abort(r)
===========================================================================
