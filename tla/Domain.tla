------------------------------ MODULE Domain ------------------------------
(***************************************************************************)
(* The vocabulary every backend module shares (internal/domain), and the   *)
(* clock the usecases read through domain.Clock.                           *)
(***************************************************************************)
EXTENDS Integers

CONSTANTS User,     \* rows of super_admin_users
          None,     \* NULL, uuid.Nil, an absent cookie or header
          MaxTime   \* bound: the last instant the model's clock shows

ASSUME MaxTimeAssumption == MaxTime \in Nat

VARIABLE clock      \* what Clock.Now() returns

Role == {"owner", "admin", "support", "viewer"}

\* Whom Team.Invite and Team.UpdateRole may make of somebody: never an owner.
InvitableRole == {"admin", "support", "viewer"}

EmptyTable == [p \in {} |-> p]

Tick == /\ clock < MaxTime
        /\ clock' = clock + 1
===========================================================================
