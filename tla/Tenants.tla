------------------------------ MODULE Tenants ------------------------------
(***************************************************************************)
(* Table tenants: the clients of the panel.  One operator per statement of *)
(* queries/tenant.sql.  An activation code and its expiry are always       *)
(* written together, so codeExpires stands for both.                       *)
(***************************************************************************)
EXTENDS Domain

CONSTANTS Tenant,    \* row ids
          Email,
          TrialDays, \* what the form offers; 0 is "no trial"
          CodeTTL    \* activationCodeTTL

ASSUME TrialDaysAssumption == TrialDays \subseteq Nat
ASSUME CodeTTLAssumption == CodeTTL \in Nat \ {0}

VARIABLES tenants,  \* the rows, by id
          removed   \* history: ids of deleted rows

tenantVars == <<tenants, removed>>

TenantStatus == {"active", "trial", "paused"}

\* trialEnds = 0 and codeExpires = 0 are NULL; reason says whether
\* suspended_reason is set.
TenantRow == [email : Email, status : TenantStatus, trialEnds : Nat,
              reason : BOOLEAN, codeExpires : Nat]

TenantsTypeOK ==
  /\ tenants \in [DOMAIN tenants -> TenantRow]
  /\ DOMAIN tenants \subseteq Tenant
  /\ removed \subseteq Tenant \ DOMAIN tenants

---------------------------------------------------------------------------
TenantExists(t) == t \in DOMAIN tenants

\* The UNIQUE constraint on email.
TenantEmailTaken(email) == \E t \in DOMAIN tenants : tenants[t].email = email

CreateTenant(t, email, days, now) ==
  /\ t \in Tenant \ (DOMAIN tenants \cup removed)
  /\ tenants' = [o \in DOMAIN tenants \cup {t} |->
       IF o = t THEN [email |-> email,
                      status |-> IF days > 0 THEN "trial" ELSE "active",
                      trialEnds |-> IF days > 0 THEN now + days ELSE 0,
                      reason |-> FALSE, codeExpires |-> now + CodeTTL]
                ELSE tenants[o]]
  /\ UNCHANGED removed

\* Suspend passes a reason, Resume NULL; neither looks at the old status nor
\* touches trial_ends_at.
UpdateTenantStatus(t, status) ==
  /\ tenants' = [tenants EXCEPT ![t].status = status, ![t].reason = (status = "paused")]
  /\ UNCHANGED removed

SetTenantActivationCode(t, until) ==
  /\ tenants' = [tenants EXCEPT ![t].codeExpires = until]
  /\ UNCHANGED removed

\* DeleteTenant is :exec and reports no error when no row is left to delete.
DeleteTenant(t) ==
  /\ tenants' = [o \in DOMAIN tenants \ {t} |-> tenants[o]]
  /\ removed' = removed \cup {t}
===========================================================================
