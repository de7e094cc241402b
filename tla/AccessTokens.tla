---------------------------- MODULE AccessTokens ----------------------------
(***************************************************************************)
(* Access JWTs (internal/pkg/jwt), the Redis revocation list               *)
(* (internal/pkg/redisx) and the check middleware.Auth makes of a bearer   *)
(* token.  The signature scheme is taken to be sound: the only tokens that *)
(* parse are the issued ones, with the claims they were signed with.       *)
(***************************************************************************)
EXTENDS TokenPairs

CONSTANT AccessTTL
ASSUME AccessTTLAssumption == AccessTTL \in Nat \ {0}

VARIABLES access,      \* claims of every signed JWT, by token pair
          delivered,   \* pairs whose response reached a client
          deniedUntil, \* expiry of the key revoked:jti:<p>, 0 for no key
          loggedOut    \* history: access tokens presented to a Logout that returned

accessVars == <<access, delivered, deniedUntil, loggedOut>>

AccessClaims == [user : User, role : Role, session : Token, expires : Nat]

AccessTypeOK ==
  /\ access \in [DOMAIN access -> AccessClaims]
  /\ DOMAIN access \subseteq Token
  /\ delivered \subseteq DOMAIN access
  /\ deniedUntil \in [Token -> Nat]
  /\ loggedOut \subseteq DOMAIN access

AccessInit ==
  /\ access = EmptyTable
  /\ delivered = {}
  /\ deniedUntil = [p \in Token |-> 0]
  /\ loggedOut = {}

---------------------------------------------------------------------------
IssueAccess(p, u, role, s, now) ==
  /\ access' = [q \in DOMAIN access \cup {p} |->
                  IF q = p THEN [user |-> u, role |-> role, session |-> s,
                                 expires |-> now + AccessTTL]
                           ELSE access[q]]
  /\ UNCHANGED <<delivered, deniedUntil, loggedOut>>

\* SET key with a TTL counted from the moment Redis runs the command; Revoke
\* skips a ttl that is not positive.
Revoke(p, ttl) ==
  deniedUntil' = IF ttl > 0 THEN [deniedUntil EXCEPT ![p] = clock + ttl] ELSE deniedUntil

\* middleware.Auth: Parse wants an unexpired token, IsRevoked must answer "no".
\* (An unreachable Redis answers 503: the request is refused, nothing changes.)
Accepts(p) == clock < access[p].expires /\ deniedUntil[p] <= clock
===========================================================================
