---------------------------- MODULE Invitations ----------------------------
(***************************************************************************)
(* Table super_admin_invitations.  There is no way to accept an invitation *)
(* yet, so accepted_at stays NULL and every row is pending; HasPending     *)
(* does not look at expires_at.                                            *)
(***************************************************************************)
EXTENDS Domain, Sequences

CONSTANTS Invitee,       \* emails of people who are not in the team
          InvitationTTL
ASSUME InvitationTTLAssumption == InvitationTTL \in Nat \ {0}

VARIABLE invitations   \* the rows, in order of insertion

InvitationRow == [email : Invitee, role : InvitableRole, expires : Nat]

InvitationsTypeOK == invitations \in Seq(InvitationRow)

HasPending(email) == \E i \in DOMAIN invitations : invitations[i].email = email

\* Mutant: the table without super_admin_invitations_pending_email_idx.
CreateInvitationUnchecked(email, role, now) ==
  invitations' = Append(invitations, [email |-> email, role |-> role,
                                      expires |-> now + InvitationTTL])

\* The INSERT; the partial unique index on pending rows refuses a second one.
CreateInvitation(email, role, now) ==
  /\ ~HasPending(email)
  /\ invitations' = Append(invitations, [email |-> email, role |-> role,
                                         expires |-> now + InvitationTTL])
===========================================================================
