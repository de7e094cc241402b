------------------------------- MODULE Team -------------------------------
(***************************************************************************)
(* The Team usecase (internal/usecase/team.go): how one member changes     *)
(* another's role or takes their access away.  As in Auth, a call runs one *)
(* SQL statement per step and other calls run in between.                  *)
(***************************************************************************)
EXTENDS Accounts, RefreshTokens

CONSTANT TeamCall   \* slots for the calls under way
VARIABLE calls

\* pc names the next statement; actor is the caller the middleware admitted.
TeamPC == {"idle", "read_suspend", "read_role", "suspend", "revoke_all", "set_role"}
CallState == [pc : TeamPC, actor : User \cup {None}, member : User \cup {None},
              role : Role \cup {None}]

NoCall == [pc |-> "idle", actor |-> None, member |-> None, role |-> None]

TeamTypeOK == calls \in [TeamCall -> CallState]
TeamInit == calls = [c \in TeamCall |-> NoCall]

---------------------------------------------------------------------------
CallAt(c, pc) == calls[c].pc = pc
CallGoto(c, pc) == calls' = [calls EXCEPT ![c].pc = pc]
CallFinish(c) == calls' = [calls EXCEPT ![c] = NoCall]

StartRevoke(c, actor, m) ==
  /\ CallAt(c, "idle")
  /\ calls' = [calls EXCEPT ![c] = [NoCall EXCEPT !.pc = "read_suspend",
                                                  !.actor = actor, !.member = m]]
  /\ UNCHANGED <<accountVars, refreshVars>>

StartUpdateRole(c, actor, m, role) ==
  /\ CallAt(c, "idle")
  /\ role \in InvitableRole
  /\ calls' = [calls EXCEPT ![c] = [pc |-> "read_role", actor |-> actor,
                                    member |-> m, role |-> role]]
  /\ UNCHANGED <<accountVars, refreshVars>>

\* Mutant: UpdateRole without the test for an owner.
ReadMemberAnyRole(c) ==
  LET owner == users[calls[c].member].role = "owner" IN
  /\ \/ CallAt(c, "read_suspend") /\ ~owner /\ CallGoto(c, "suspend")
     \/ CallAt(c, "read_role") /\ CallGoto(c, "set_role")
     \/ CallAt(c, "read_suspend") /\ owner /\ CallFinish(c)
  /\ UNCHANGED <<accountVars, refreshVars>>

\* GetByID; an owner can be neither demoted nor removed.
ReadMember(c) ==
  LET owner == users[calls[c].member].role = "owner" IN
  /\ \/ CallAt(c, "read_suspend") /\ ~owner /\ CallGoto(c, "suspend")
     \/ CallAt(c, "read_role") /\ ~owner /\ CallGoto(c, "set_role")
     \/ calls[c].pc \in {"read_suspend", "read_role"} /\ owner /\ CallFinish(c)
  /\ UNCHANGED <<accountVars, refreshVars>>

SuspendMember(c) ==
  /\ CallAt(c, "suspend")
  /\ Suspend(calls[c].member)
  /\ CallGoto(c, "revoke_all")
  /\ UNCHANGED refreshVars

CloseSessions(c) ==
  /\ CallAt(c, "revoke_all")
  /\ RevokeAllForUser(calls[c].member)
  /\ CallFinish(c)
  /\ UNCHANGED accountVars

SetRole(c) ==
  /\ CallAt(c, "set_role")
  /\ UpdateRole(calls[c].member, calls[c].role)
  /\ CallFinish(c)
  /\ UNCHANGED refreshVars

\* A statement fails or the process dies between two of them.
AbortCall(c) ==
  /\ ~CallAt(c, "idle")
  /\ CallFinish(c)
  /\ UNCHANGED <<accountVars, refreshVars>>

TeamStep(c) ==
  \/ ReadMember(c) \/ SuspendMember(c) \/ CloseSessions(c) \/ SetRole(c) \/ AbortCall(c)
===========================================================================
