------------------------------ MODULE Backend ------------------------------
(***************************************************************************)
(* The authentication core of the server: the Auth and Team usecases over  *)
(* one database, one Redis and one clock, behind middleware.Auth and       *)
(* middleware.Require as router.go wires them.                             *)
(***************************************************************************)
EXTENDS Auth, Team, Authz

vars == <<clock, accountVars, refreshVars, accessVars, authVars, calls>>

Init ==
  /\ clock = 0
  /\ AccountsInit /\ RefreshInit /\ AccessInit /\ AuthInit /\ TeamInit

\* The claims of an accepted bearer token decide, not the row of the caller.
Authorized(p, action) == Accepts(p) /\ Can(access[p].role, "super_admin", action)

AdminStart(c) == \E p \in delivered, m \in User :
  \/ /\ "revoke" \in Offered /\ Authorized(p, "delete")
     /\ StartRevoke(c, access[p].user, m)
  \/ /\ "role" \in Offered /\ Authorized(p, "update")
     /\ \E role \in InvitableRole : StartUpdateRole(c, access[p].user, m, role)

Next ==
  \/ Tick /\ UNCHANGED <<accountVars, refreshVars, accessVars, authVars, calls>>
  \/ AuthStep /\ UNCHANGED <<clock, calls>>
  \/ \E c \in TeamCall : /\ AdminStart(c) \/ TeamStep(c)
                         /\ UNCHANGED <<clock, accessVars, authVars>>

Spec == Init /\ [][Next]_vars

---------------------------------------------------------------------------
TypeOK ==
  /\ clock \in 0..MaxTime
  /\ AccountsTypeOK /\ RefreshTypeOK /\ AccessTypeOK /\ AuthTypeOK /\ TeamTypeOK

(* A suspended member's access dies by itself: Team.Revoke cannot deny the *)
(* JWTs already signed, but no token of theirs, not even one a Login or a  *)
(* Refresh already under way signs later, outlives the suspension by more  *)
(* than AccessTTL (comment of LogoutAll: they expire by themselves).  The  *)
(* panel promises more: RevokedLosesAccessAtOnce.                          *)
SuspensionBoundsAccess ==
  \A p \in DOMAIN access :
    LET u == access[p].user IN
    users[u].status = "suspended" => access[p].expires <= suspendedAt[u] + AccessTTL

(* What the panel tells the owner who revokes (TeamPage.tsx:257 and :304): *)
(* the member loses access at once and the active sessions are closed.  No *)
(* token of a session that a suspension has closed is accepted any more.   *)
RevokedLosesAccessAtOnce ==
  \A p \in delivered :
    users[access[p].user].status = "suspended" /\ access[p].session \in closed => ~Accepts(p)

(* The role inside a JWT is the member's present role, or the JWT expires  *)
(* within AccessTTL of the change (UpdateRole leaves the sessions alone).  *)
RoleChangeBoundsAccess ==
  \A p \in DOMAIN access :
    LET u == access[p].user IN
    access[p].role = users[u].role \/ access[p].expires <= roleChangedAt[u] + AccessTTL

(* Whoever has a role change or a removal under way is an active owner NOW, *)
(* although the middleware only saw the role in a JWT of any age.           *)
OnlyOwnersAdminister ==
  \A c \in TeamCall :
    calls[c].pc # "idle" =>
      /\ users[calls[c].actor].role = "owner"
      /\ users[calls[c].actor].status = "active"

(* The lockout: with N request slots, an account that is not locked has   *)
(* answered at most MaxFailedAttempts + N - 2 wrong passwords since its    *)
(* last good one (registerFailure compares a stale counter, and the        *)
(* increment is atomic).                                                   *)
GuessesBeforeLock ==
  \A u \in User : users[u].lockedUntil = 0 =>
    attempts[u] + 2 <= MaxFailedAttempts + Cardinality(Request)

(* What the comment of RegisterFailedLogin promises of parallel attempts:  *)
(* the wrong password that reaches the threshold locks the account.        *)
LockedAtThreshold ==
  \A u \in User : attempts[u] >= MaxFailedAttempts => users[u].lockedUntil # 0

(* An access token presented to a Logout that has returned is never        *)
(* accepted again: the deny key outlives the token.                        *)
LogoutKillsAccess == \A p \in loggedOut : ~Accepts(p)

(* A refresh token is exchanged for at most one pair. *)
OneExchangePerToken ==
  \A e, f \in exchanged : e[1] = f[1] => e = f

(* Once a session has been revoked, all of it stays revoked: no usable     *)
(* refresh token ever appears in it.                                       *)
ClosedSessionsStayClosed ==
  \A p \in DOMAIN refresh : refresh[p].session \in closed => refresh[p].revoked

\* The table implements the abstract rotation chains.
Chains == INSTANCE RotationChain WITH
            session   <- [p \in DOMAIN refresh |-> refresh[p].session],
            successor <- [p \in DOMAIN refresh |-> refresh[p].replacedBy],
            dead      <- {p \in DOMAIN refresh : refresh[p].revoked}

(* Every statement sequence of every interleaving keeps that promise. *)
ChainsHold == Chains!Spec
===========================================================================
