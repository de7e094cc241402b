----------------------------- MODULE Accounts -----------------------------
(***************************************************************************)
(* Table super_admin_users.  Every action below is one autocommit SQL      *)
(* statement of queries/super_admin.sql; the usecases call them one by one *)
(* with no transaction around them, so other requests run in between.      *)
(***************************************************************************)
EXTENDS Domain

CONSTANTS InitialRole,       \* role of every row when the model starts
          MaxFailedAttempts, \* AuthConfig, after withDefaults
          LockoutDuration

ASSUME InitialRoleAssumption == InitialRole \in [User -> Role]
ASSUME LockoutAssumption ==
         MaxFailedAttempts \in Nat \ {0} /\ LockoutDuration \in Nat \ {0}

VARIABLES
  users,         \* the rows; lockedUntil = 0 is locked_until IS NULL
  \* history, read by the properties only
  attempts,      \* attempts[u]: wrong passwords answered since u last logged in
  suspendedAt,   \* when u lost its active status
  roleChangedAt  \* when u last got another role

history == <<attempts, suspendedAt, roleChangedAt>>
accountVars == <<users, history>>

Account == [role : Role, status : {"active", "suspended"},
            failed : Nat, lockedUntil : Nat]

AccountsTypeOK ==
  /\ users \in [User -> Account]
  /\ attempts \in [User -> Nat]
  /\ suspendedAt \in [User -> Nat]
  /\ roleChangedAt \in [User -> Nat]

AccountsInit ==
  /\ users = [u \in User |-> [role |-> InitialRole[u], status |-> "active",
                              failed |-> 0, lockedUntil |-> 0]]
  /\ attempts = [u \in User |-> 0]
  /\ suspendedAt = [u \in User |-> 0]
  /\ roleChangedAt = [u \in User |-> 0]

---------------------------------------------------------------------------
\* SuperAdminUser.IsLocked and EnsureCanLogin.
IsLocked(account, now) == now < account.lockedUntil
CanLogin(account, now) == ~IsLocked(account, now) /\ account.status = "active"

\* failed_login_attempts + 1; until = 0 is the NULL COALESCE skips.
RegisterFailedLogin(u, until) ==
  /\ users' = [users EXCEPT ![u] =
       [users[u] EXCEPT !.failed = users[u].failed + 1,
                        !.lockedUntil = IF until = 0 THEN users[u].lockedUntil ELSE until]]
  /\ attempts' = [attempts EXCEPT ![u] = @ + 1]
  /\ UNCHANGED <<suspendedAt, roleChangedAt>>

RegisterSuccessfulLogin(u) ==
  /\ users' = [users EXCEPT ![u] = [@ EXCEPT !.failed = 0, !.lockedUntil = 0]]
  /\ attempts' = [attempts EXCEPT ![u] = 0]
  /\ UNCHANGED <<suspendedAt, roleChangedAt>>

UpdateRole(u, role) ==
  /\ users' = [users EXCEPT ![u].role = role]
  /\ roleChangedAt' = IF role = users[u].role THEN roleChangedAt
                      ELSE [roleChangedAt EXCEPT ![u] = clock]
  /\ UNCHANGED <<attempts, suspendedAt>>

\* UpdateStatus with the only value any caller passes.
Suspend(u) ==
  /\ users' = [users EXCEPT ![u].status = "suspended"]
  /\ suspendedAt' = IF users[u].status = "suspended" THEN suspendedAt
                    ELSE [suspendedAt EXCEPT ![u] = clock]
  /\ UNCHANGED <<attempts, roleChangedAt>>
===========================================================================
