----------------------------- MODULE DeskProofs -----------------------------
(***************************************************************************)
(* Type correctness and the safety of Desk's tables, for every set of      *)
(* members, clients, tickets and concurrent jobs.                          *)
(*                                                                         *)
(* TypeOK is not inductive: UpdateTicket writes jobs[j].choice into a row  *)
(* and has to know that it is a status when the job is one of "status".    *)
(* JobShape says what the local variables of a job hold at each statement, *)
(* and that the route's permission was granted when the job began; that    *)
(* the caller keeps it follows, because the role in a token is constant.   *)
(* StampInv, JournalInv and OverlapInv, each under a heading of its own    *)
(* below, rest on DeskInv.                                                 *)
(***************************************************************************)
EXTENDS Desk, FiniteSetTheorems, TLAPS

JobShape(q) == q.pc # "idle" =>
  /\ q.actor \in User /\ q.kind \in Kind /\ Permits(q.actor, q.kind)
  /\ q.pc = "insert" => q.email \in Email
  /\ q.pc = "update" =>
       \/ q.kind \in {"suspend", "resume", "code"} /\ q.tenant \in Tenant
       \/ q.kind = "assign"
       \/ q.kind = "status" /\ q.choice \in TicketStatus
       \/ q.kind = "priority" /\ q.choice \in TicketPriority
  /\ q.pc = "read" => q.kind \in {"delete", "reply"}
  /\ q.pc = "remove" => q.tenant \in Tenant
  /\ q.pc \in {"pending", "invite"} => q.email \in Invitee /\ q.choice \in InvitableRole

JobsOK == jobs \in [Job -> JobState] /\ \A j \in Job : JobShape(jobs[j])

TenantsOK ==
  /\ TenantsTypeOK
  /\ \A s, t \in DOMAIN tenants : tenants[s].email = tenants[t].email => s = t

TicketsOK == TicketsTypeOK /\ NoOrphans

InvitationsOK ==
  /\ InvitationsTypeOK
  /\ \A i, j \in DOMAIN invitations : invitations[i].email = invitations[j].email => i = j

JournalOK ==
  /\ journal \in Seq(Entry)
  /\ \A i \in DOMAIN journal : Permits(journal[i].actor, journal[i].action)

RestOK ==
  /\ clock \in 0..MaxTime
  /\ template \in [by : User \cup {None}, at : Nat]
  /\ started \in 0..JobBound
  /\ effects \in [Kind -> Nat]

DeskInv == JobsOK /\ TenantsOK /\ TicketsOK /\ InvitationsOK /\ JournalOK /\ RestOK

Numbers == CodeTTL \in Nat /\ InvitationTTL \in Nat /\ MaxTime \in Nat /\ JobBound \in Nat
           /\ TrialDays \subseteq Nat

LEMMA NumbersHold == Numbers
  BY CodeTTLAssumption, InvitationTTLAssumption, MaxTimeAssumption, JobBoundAssumption,
     TrialDaysAssumption
     DEF Numbers, CodeTTLAssumption, InvitationTTLAssumption, MaxTimeAssumption,
         JobBoundAssumption, TrialDaysAssumption

LEMMA Kinds ==
  Kind = {"create", "suspend", "resume", "code", "delete", "reply", "assign", "status",
          "priority", "invite", "template"}
  BY DEF Kind, Route

LEMMA IdleIsAJob == Idle \in JobState /\ JobShape(Idle)
  BY DEF Idle, JobState, JobShape, PC

---------------------------------------------------------------------------
(* One job moves on. *)
LEMMA MovedJob ==
  ASSUME JobsOK, NEW j \in Job, NEW q \in JobState, JobShape(q),
         jobs' = [jobs EXCEPT ![j] = q]
  PROVE  JobsOK'
<1>1. jobs' \in [Job -> JobState]
  BY DEF JobsOK
<1>2. \A o \in Job : jobs'[o] = IF o = j THEN q ELSE jobs[o]
  BY DEF JobsOK
<1>3. \A o \in Job : JobShape(jobs'[o])
  BY <1>2 DEF JobsOK
<1>4. QED
  BY <1>1, <1>3 DEF JobsOK

LEMMA FinishedJob ==
  ASSUME JobsOK, NEW j \in Job, Finish(j)
  PROVE  JobsOK'
  BY MovedJob, IdleIsAJob DEF Finish

(* A job goes on to a statement that needs nothing new of its locals. *)
LEMMA GoneTo ==
  ASSUME JobsOK, NEW j \in Job, ~At(j, "idle"),
         NEW pc \in {"remove", "lookup", "audit"}, pc = "remove" => jobs[j].tenant \in Tenant,
         Goto(j, pc)
  PROVE  JobsOK'
<1>1. PICK q : q = [jobs[j] EXCEPT !.pc = pc]
  OBVIOUS
<1>2. jobs[j] \in JobState /\ JobShape(jobs[j])
  BY DEF JobsOK
<1>3. q \in JobState
  BY <1>1, <1>2 DEF JobState, PC
<1>4. JobShape(q)
  BY <1>1, <1>2 DEF JobShape, JobState, At
<1>5. jobs' = [jobs EXCEPT ![j] = q]
  BY <1>1 DEF Goto
<1>6. QED
  BY <1>3, <1>4, <1>5, MovedJob

(* A job goes on to a statement that asks nothing of its locals but their types. *)
LEMMA Continued ==
  ASSUME JobsOK, NEW j \in Job, ~At(j, "idle"), NEW q \in JobState,
         q.pc \in {"audit", "lookup", "stamp", "send"},
         q.actor = jobs[j].actor, q.kind = jobs[j].kind,
         jobs' = [jobs EXCEPT ![j] = q]
  PROVE  JobsOK'
<1>1. JobShape(q)
  BY DEF JobShape, JobsOK, At
<1>2. QED
  BY <1>1, MovedJob

(* A call that the route lets through becomes a job. *)
LEMMA Begun ==
  ASSUME DeskInv, NEW j \in Job, NEW actor \in User, NEW kind \in Kind,
         NEW state \in JobState, state.pc # "idle",
         NEW q, q = [state EXCEPT !.actor = actor, !.kind = kind, !.at = clock],
         Permits(actor, kind) => JobShape(q),
         Begin(j, actor, kind, state), UNCHANGED clock
  PROVE  DeskInv'
<1>1. clock \in Nat
  BY NumbersHold DEF DeskInv, RestOK, Numbers
<1>2. q \in JobState
  BY <1>1 DEF JobState
<1>3. JobsOK'
  BY <1>2, MovedJob DEF Begin, DeskInv
<1>4. RestOK'
  BY NumbersHold DEF Begin, NothingCommitted, DeskInv, RestOK, Numbers
<1>5. (TenantsOK /\ TicketsOK /\ InvitationsOK /\ JournalOK)'
  BY DEF Begin, NothingCommitted, tenantVars, ticketVars, DeskInv, TenantsOK, TicketsOK,
         InvitationsOK, JournalOK, TenantsTypeOK, TicketsTypeOK, InvitationsTypeOK, NoOrphans,
         TenantExists, TicketExists
<1>6. QED
  BY <1>3, <1>4, <1>5 DEF DeskInv

---------------------------------------------------------------------------
(* The calls begin. *)
LEMMA StartCreateStep ==
  ASSUME DeskInv, NEW j \in Job, NEW actor \in User, StartCreate(j, actor), UNCHANGED clock
  PROVE  DeskInv'
<1>1. PICK email \in Email, days \in TrialDays :
        Begin(j, actor, "create", [Idle EXCEPT !.pc = "insert", !.email = email, !.days = days])
  BY DEF StartCreate
<1>2. PICK state : state = [Idle EXCEPT !.pc = "insert", !.email = email, !.days = days]
  OBVIOUS
<1>3. PICK q : q = [state EXCEPT !.actor = actor, !.kind = "create", !.at = clock]
  OBVIOUS
<1>4. state \in JobState /\ state.pc = "insert" /\ state.email = email
  BY <1>2, IdleIsAJob DEF JobState, PC, Idle
<1>5. Permits(actor, "create") => JobShape(q)
  BY <1>3, <1>4, Kinds DEF JobShape, JobState
<1>6. QED
  BY <1>1, <1>2, <1>3, <1>4, <1>5, Kinds, Begun

LEMMA StartOnTenantStep ==
  ASSUME DeskInv, NEW j \in Job, NEW actor \in User, StartOnTenant(j, actor), UNCHANGED clock
  PROVE  DeskInv'
<1>1. PICK t \in DOMAIN tenants \cup removed :
        \/ \E kind \in {"suspend", "resume", "code"} :
             Begin(j, actor, kind, [Idle EXCEPT !.pc = "update", !.tenant = t])
        \/ Begin(j, actor, "delete", [Idle EXCEPT !.pc = "read", !.tenant = t])
  BY DEF StartOnTenant
<1>2. t \in Tenant
  BY DEF DeskInv, TenantsOK, TenantsTypeOK
<1>3. ASSUME NEW kind \in {"suspend", "resume", "code", "delete"}, NEW pc \in {"update", "read"},
             pc = "read" <=> kind = "delete",
             Begin(j, actor, kind, [Idle EXCEPT !.pc = pc, !.tenant = t])
      PROVE  DeskInv'
  <2>1. PICK state : state = [Idle EXCEPT !.pc = pc, !.tenant = t]
    OBVIOUS
  <2>2. PICK q : q = [state EXCEPT !.actor = actor, !.kind = kind, !.at = clock]
    OBVIOUS
  <2>3. state \in JobState /\ state.pc = pc /\ state.tenant = t
    BY <1>2, <2>1, IdleIsAJob DEF JobState, PC, Idle
  <2>4. kind \in Kind
    BY Kinds
  <2>5. Permits(actor, kind) => JobShape(q)
    BY <1>2, <1>3, <2>2, <2>3, <2>4 DEF JobShape, JobState
  <2>6. QED
    BY <1>3, <2>1, <2>2, <2>3, <2>4, <2>5, Begun
<1>4. QED
  BY <1>1, <1>3

LEMMA StartOnTicketStep ==
  ASSUME DeskInv, NEW j \in Job, NEW actor \in User, StartOnTicket(j, actor), UNCHANGED clock
  PROVE  DeskInv'
<1>1. PICK k \in Ticket :
        \/ Begin(j, actor, "reply", [Idle EXCEPT !.pc = "read", !.ticket = k])
        \/ Begin(j, actor, "assign", [Idle EXCEPT !.pc = "update", !.ticket = k])
        \/ \E s \in SetTo \cap TicketStatus :
             Begin(j, actor, "status", [Idle EXCEPT !.pc = "update", !.ticket = k, !.choice = s])
        \/ \E p \in SetTo \cap TicketPriority :
             Begin(j, actor, "priority", [Idle EXCEPT !.pc = "update", !.ticket = k, !.choice = p])
  BY DEF StartOnTicket
<1>2. ASSUME NEW kind \in {"reply", "assign"}, NEW pc \in {"update", "read"},
             pc = "read" <=> kind = "reply",
             Begin(j, actor, kind, [Idle EXCEPT !.pc = pc, !.ticket = k])
      PROVE  DeskInv'
  <2>1. PICK state : state = [Idle EXCEPT !.pc = pc, !.ticket = k]
    OBVIOUS
  <2>2. PICK q : q = [state EXCEPT !.actor = actor, !.kind = kind, !.at = clock]
    OBVIOUS
  <2>3. state \in JobState /\ state.pc = pc
    BY <2>1, IdleIsAJob DEF JobState, PC, Idle
  <2>4. kind \in Kind
    BY Kinds
  <2>5. Permits(actor, kind) => JobShape(q)
    BY <1>2, <2>2, <2>3, <2>4 DEF JobShape, JobState
  <2>6. QED
    BY <1>2, <2>1, <2>2, <2>3, <2>4, <2>5, Begun
<1>3. ASSUME NEW kind \in {"status", "priority"}, NEW choice \in TicketStatus \cup TicketPriority,
             kind = "status" => choice \in TicketStatus,
             kind = "priority" => choice \in TicketPriority,
             Begin(j, actor, kind, [Idle EXCEPT !.pc = "update", !.ticket = k, !.choice = choice])
      PROVE  DeskInv'
  <2>1. PICK state : state = [Idle EXCEPT !.pc = "update", !.ticket = k, !.choice = choice]
    OBVIOUS
  <2>2. PICK q : q = [state EXCEPT !.actor = actor, !.kind = kind, !.at = clock]
    OBVIOUS
  <2>3. state \in JobState /\ state.pc = "update" /\ state.choice = choice
    BY <2>1, IdleIsAJob DEF JobState, PC, Idle
  <2>4. kind \in Kind
    BY Kinds
  <2>5. Permits(actor, kind) => JobShape(q)
    BY <1>3, <2>2, <2>3, <2>4 DEF JobShape, JobState
  <2>6. QED
    BY <1>3, <2>1, <2>2, <2>3, <2>4, <2>5, Begun
<1>4. QED
  BY <1>1, <1>2, <1>3

LEMMA StartInviteStep ==
  ASSUME DeskInv, NEW j \in Job, NEW actor \in User, StartInvite(j, actor), UNCHANGED clock
  PROVE  DeskInv'
<1>1. PICK email \in Invitee, role \in InvitableRole \cap SetTo :
        Begin(j, actor, "invite", [Idle EXCEPT !.pc = "pending", !.email = email, !.choice = role])
  BY DEF StartInvite
<1>2. PICK state : state = [Idle EXCEPT !.pc = "pending", !.email = email, !.choice = role]
  OBVIOUS
<1>3. PICK q : q = [state EXCEPT !.actor = actor, !.kind = "invite", !.at = clock]
  OBVIOUS
<1>4. state \in JobState /\ state.pc = "pending" /\ state.email = email /\ state.choice = role
  BY <1>2, IdleIsAJob DEF JobState, PC, Idle
<1>5. Permits(actor, "invite") => JobShape(q)
  BY <1>3, <1>4, Kinds DEF JobShape, JobState
<1>6. QED
  BY <1>1, <1>2, <1>3, <1>4, <1>5, Kinds, Begun

LEMMA StartTemplateStep ==
  ASSUME DeskInv, NEW j \in Job, NEW actor \in User, StartTemplate(j, actor), UNCHANGED clock
  PROVE  DeskInv'
<1>1. PICK state : state = [Idle EXCEPT !.pc = "save"]
  OBVIOUS
<1>2. PICK q : q = [state EXCEPT !.actor = actor, !.kind = "template", !.at = clock]
  OBVIOUS
<1>3. state \in JobState /\ state.pc = "save"
  BY <1>1, IdleIsAJob DEF JobState, PC, Idle
<1>4. Permits(actor, "template") => JobShape(q)
  BY <1>2, <1>3, Kinds DEF JobShape, JobState
<1>5. QED
  BY <1>1, <1>2, <1>3, <1>4, Kinds, Begun DEF StartTemplate

LEMMA StartStep ==
  ASSUME DeskInv, NEW j \in Job, Start(j), UNCHANGED clock
  PROVE  DeskInv'
  BY StartCreateStep, StartOnTenantStep, StartOnTicketStep, StartInviteStep, StartTemplateStep
     DEF Start

---------------------------------------------------------------------------
(* What a step leaves alone stays right. *)
LEMMA SameTenants == ASSUME TenantsOK, UNCHANGED tenantVars PROVE TenantsOK'
  BY DEF TenantsOK, TenantsTypeOK, tenantVars

LEMMA SameTickets == ASSUME TicketsOK, UNCHANGED <<tenantVars, ticketVars>> PROVE TicketsOK'
  BY DEF TicketsOK, TicketsTypeOK, NoOrphans, TenantExists, TicketExists, tenantVars, ticketVars

LEMMA SameInvitations == ASSUME InvitationsOK, UNCHANGED invitations PROVE InvitationsOK'
  BY DEF InvitationsOK, InvitationsTypeOK

LEMMA SameJournal == ASSUME JournalOK, UNCHANGED journal PROVE JournalOK'
  BY DEF JournalOK

LEMMA SameRest ==
  ASSUME RestOK, UNCHANGED <<clock, template, started, effects>>
  PROVE  RestOK'
  BY DEF RestOK

(* A change is counted under the kind of its job. *)
LEMMA Counted ==
  ASSUME DeskInv, NEW j \in Job, ~At(j, "idle"), Committed(j),
         UNCHANGED <<clock, template, started>>
  PROVE  RestOK'
<1>1. jobs[j].kind \in Kind
  BY DEF DeskInv, JobsOK, JobShape, At
<1>2. effects' \in [Kind -> Nat]
  BY <1>1 DEF DeskInv, RestOK, Committed
<1>3. QED
  BY <1>2 DEF DeskInv, RestOK

(* A step that changes nothing but its job. *)
LEMMA OnlyTheJob ==
  ASSUME DeskInv, JobsOK', NothingCommitted, UNCHANGED <<journal, started, clock>>
  PROVE  DeskInv'
  BY SameTenants, SameTickets, SameInvitations, SameJournal, SameRest
     DEF DeskInv, NothingCommitted

(* A call that ends without a change. *)
LEMMA NothingDone ==
  ASSUME DeskInv, NEW j \in Job, Finish(j), NothingCommitted,
         UNCHANGED <<journal, started, clock>>
  PROVE  DeskInv'
  BY FinishedJob, OnlyTheJob DEF DeskInv

---------------------------------------------------------------------------
(* Statements on clients *)

LEMMA InsertTenantStep ==
  ASSUME DeskInv, NEW j \in Job, InsertTenant(j), UNCHANGED clock
  PROVE  DeskInv'
<1>1. CASE Finish(j) /\ UNCHANGED <<tenantVars, effects>>
  BY <1>1, NothingDone DEF InsertTenant, NothingCommitted
<1>2. ASSUME NEW t \in Tenant, ~TenantEmailTaken(jobs[j].email),
             CreateTenant(t, jobs[j].email, jobs[j].days, jobs[j].at),
             jobs' = [jobs EXCEPT ![j].pc = "audit", ![j].tenant = t, ![j].named = TRUE],
             Committed(j)
      PROVE  DeskInv'
  <2>1. jobs[j] \in JobState /\ JobShape(jobs[j]) /\ ~At(j, "idle") /\ At(j, "insert")
    BY DEF DeskInv, JobsOK, InsertTenant, At
  <2>2. jobs[j].email \in Email /\ jobs[j].days \in Nat /\ jobs[j].at \in Nat /\ CodeTTL \in Nat
    <3>1. jobs[j].email \in Email
      BY <2>1 DEF JobShape, At
    <3>2. jobs[j].days \in TrialDays \cup {0} /\ jobs[j].at \in Nat
      BY <2>1 DEF JobState
    <3>3. \A d \in TrialDays : d \in Nat
      BY NumbersHold, Zenon DEF Numbers
    <3>4. jobs[j].days \in Nat
      BY <3>2, <3>3
    <3>5. CodeTTL \in Nat
      BY NumbersHold DEF Numbers
    <3>6. QED
      BY <3>1, <3>2, <3>4, <3>5
  <2>3. JobsOK'
    <3>1. PICK q : q = [jobs[j] EXCEPT !.pc = "audit", !.tenant = t, !.named = TRUE]
      OBVIOUS
    <3>2. q \in JobState /\ q.pc = "audit" /\ q.actor = jobs[j].actor /\ q.kind = jobs[j].kind
      BY <2>1, <3>1 DEF JobState, PC
    <3>3. jobs' = [jobs EXCEPT ![j] = q]
      BY <1>2, <3>1 DEF DeskInv, JobsOK
    <3>4. QED
      BY <2>1, <3>2, <3>3, Continued DEF DeskInv
  <2>4. PICK row : row = [email |-> jobs[j].email,
                          status |-> IF jobs[j].days > 0 THEN "trial" ELSE "active",
                          trialEnds |-> IF jobs[j].days > 0 THEN jobs[j].at + jobs[j].days ELSE 0,
                          reason |-> FALSE, codeExpires |-> jobs[j].at + CodeTTL]
    OBVIOUS
  <2>5. row \in TenantRow /\ row.email = jobs[j].email
    BY <2>2, <2>4 DEF TenantRow, TenantStatus
  <2>6. /\ t \in Tenant \ (DOMAIN tenants \cup removed)
        /\ tenants' = [o \in DOMAIN tenants \cup {t} |-> IF o = t THEN row ELSE tenants[o]]
        /\ removed' = removed
    BY <1>2, <2>4 DEF CreateTenant
  <2>7. TenantsOK'
    BY <1>2, <2>5, <2>6 DEF DeskInv, TenantsOK, TenantsTypeOK, TenantEmailTaken
  <2>8. TicketsOK'
    BY <2>6 DEF InsertTenant, ticketVars, DeskInv, TicketsOK, TicketsTypeOK, NoOrphans,
                TenantExists, TicketExists
  <2>9. RestOK'
    BY <1>2, <2>1, Counted DEF InsertTenant
  <2>10. QED
    BY <2>3, <2>7, <2>8, <2>9, SameInvitations, SameJournal DEF DeskInv, InsertTenant
<1>3. QED
  BY <1>1, <1>2 DEF InsertTenant

LEMMA ChangedTenant ==
  ASSUME TenantsOK, NEW t \in DOMAIN tenants, NEW row \in TenantRow, row.email = tenants[t].email,
         tenants' = [tenants EXCEPT ![t] = row], UNCHANGED removed
  PROVE  TenantsOK' /\ DOMAIN (tenants') = DOMAIN tenants
<1>1. /\ DOMAIN (tenants') = DOMAIN tenants
      /\ \A o \in DOMAIN tenants : tenants'[o] = IF o = t THEN row ELSE tenants[o]
  BY DEF TenantsOK, TenantsTypeOK
<1>2. \A o \in DOMAIN tenants : tenants'[o] \in TenantRow /\ tenants'[o].email = tenants[o].email
  BY <1>1 DEF TenantsOK, TenantsTypeOK
<1>3. tenants' = [o \in DOMAIN (tenants') |-> tenants'[o]]
  OBVIOUS
<1>4. tenants' \in [DOMAIN (tenants') -> TenantRow]
  BY <1>1, <1>2, <1>3
<1>5. QED
  BY <1>1, <1>2, <1>4 DEF TenantsOK, TenantsTypeOK

LEMMA TenantsKept ==
  ASSUME TicketsOK, UNCHANGED ticketVars, DOMAIN (tenants') = DOMAIN tenants
  PROVE  TicketsOK'
  BY DEF TicketsOK, TicketsTypeOK, NoOrphans, TenantExists, TicketExists, ticketVars

LEMMA UpdateTenantStep ==
  ASSUME DeskInv, NEW j \in Job, UpdateTenant(j), UNCHANGED clock
  PROVE  DeskInv'
<1> DEFINE t == jobs[j].tenant
<1>1. CASE Finish(j) /\ UNCHANGED <<tenantVars, effects>>
  BY <1>1, NothingDone DEF UpdateTenant, NothingCommitted
<1>2. ASSUME TenantExists(t), jobs[j].kind \in {"suspend", "resume", "code"},
             CASE jobs[j].kind = "suspend" -> UpdateTenantStatus(t, "paused")
               [] jobs[j].kind = "resume"  -> UpdateTenantStatus(t, "active")
               [] jobs[j].kind = "code"    -> SetTenantActivationCode(t, jobs[j].at + CodeTTL),
             jobs' = [jobs EXCEPT ![j].pc = "audit", ![j].named = TRUE],
             Committed(j)
      PROVE  DeskInv'
  <2>1. jobs[j] \in JobState /\ ~At(j, "idle")
    BY DEF DeskInv, JobsOK, UpdateTenant, At
  <2>2. JobsOK'
    <3>1. PICK q : q = [jobs[j] EXCEPT !.pc = "audit", !.named = TRUE]
      OBVIOUS
    <3>2. q \in JobState /\ q.pc = "audit" /\ q.actor = jobs[j].actor /\ q.kind = jobs[j].kind
      BY <2>1, <3>1 DEF JobState, PC
    <3>3. jobs' = [jobs EXCEPT ![j] = q]
      BY <1>2, <3>1 DEF DeskInv, JobsOK
    <3>4. QED
      BY <2>1, <3>2, <3>3, Continued DEF DeskInv
  <2>3. tenants[t] \in TenantRow /\ t \in DOMAIN tenants
    BY <1>2 DEF DeskInv, TenantsOK, TenantsTypeOK, TenantExists
  <2>4. jobs[j].at + CodeTTL \in Nat
    BY <2>1, NumbersHold DEF JobState, Numbers
  <2>5. TenantsOK' /\ DOMAIN (tenants') = DOMAIN tenants
    <3>1. CASE \E status \in TenantStatus : UpdateTenantStatus(t, status)
      <4>1. PICK status \in TenantStatus : UpdateTenantStatus(t, status)
        BY <3>1
      <4>2. PICK row : row = [tenants[t] EXCEPT !.status = status, !.reason = (status = "paused")]
        OBVIOUS
      <4>3. row \in TenantRow /\ row.email = tenants[t].email
        BY <2>3, <4>2 DEF TenantRow
      <4>4. tenants' = [tenants EXCEPT ![t] = row] /\ removed' = removed
        BY <4>1, <4>2, <2>3 DEF UpdateTenantStatus, DeskInv, TenantsOK, TenantsTypeOK
      <4>5. QED
        BY <2>3, <4>3, <4>4, ChangedTenant DEF DeskInv
    <3>2. CASE SetTenantActivationCode(t, jobs[j].at + CodeTTL)
      <4>1. PICK row : row = [tenants[t] EXCEPT !.codeExpires = jobs[j].at + CodeTTL]
        OBVIOUS
      <4>2. row \in TenantRow /\ row.email = tenants[t].email
        BY <2>3, <2>4, <4>1 DEF TenantRow
      <4>3. tenants' = [tenants EXCEPT ![t] = row] /\ removed' = removed
        BY <3>2, <4>1, <2>3 DEF SetTenantActivationCode, DeskInv, TenantsOK, TenantsTypeOK
      <4>4. QED
        BY <2>3, <4>2, <4>3, ChangedTenant DEF DeskInv
    <3>3. QED
      BY <1>2, <3>1, <3>2 DEF TenantStatus
  <2>6. TicketsOK'
    BY <2>5, TenantsKept DEF UpdateTenant, DeskInv
  <2>7. RestOK'
    BY <1>2, <2>1, Counted DEF UpdateTenant
  <2>8. QED
    BY <2>2, <2>5, <2>6, <2>7, SameInvitations, SameJournal DEF DeskInv, UpdateTenant
<1>3. QED
  BY <1>1, <1>2 DEF UpdateTenant

LEMMA ReadTenantStep ==
  ASSUME DeskInv, NEW j \in Job, ReadTenant(j), UNCHANGED clock
  PROVE  DeskInv'
<1>1. CASE Finish(j)
  BY <1>1, NothingDone DEF ReadTenant
<1>2. CASE TenantExists(jobs[j].tenant) /\ Goto(j, "remove")
  <2>1. jobs[j].tenant \in Tenant
    BY <1>2 DEF DeskInv, TenantsOK, TenantsTypeOK, TenantExists
  <2>2. ~At(j, "idle")
    BY DEF ReadTenant, At
  <2>3. JobsOK'
    BY <1>2, <2>1, <2>2, GoneTo DEF DeskInv
  <2>4. QED
    BY <2>3, OnlyTheJob DEF ReadTenant
<1>3. QED
  BY <1>1, <1>2 DEF ReadTenant

LEMMA RemoveTenantStep ==
  ASSUME DeskInv, NEW j \in Job, RemoveTenant(j), UNCHANGED clock
  PROVE  DeskInv'
<1>1. jobs[j] \in JobState /\ JobShape(jobs[j]) /\ ~At(j, "idle") /\ At(j, "remove")
  BY DEF DeskInv, JobsOK, RemoveTenant, At
<1>2. PICK t : t = jobs[j].tenant
  OBVIOUS
<1>3. t \in Tenant
  BY <1>1, <1>2 DEF JobShape, At
<1>4. JobsOK'
  <2>1. PICK q : q = [jobs[j] EXCEPT !.pc = "audit", !.named = TRUE]
    OBVIOUS
  <2>2. q \in JobState /\ q.pc = "audit" /\ q.actor = jobs[j].actor /\ q.kind = jobs[j].kind
    BY <1>1, <2>1 DEF JobState, PC
  <2>3. jobs' = [jobs EXCEPT ![j] = q]
    BY <2>1 DEF DeskInv, JobsOK, RemoveTenant
  <2>4. QED
    BY <1>1, <2>2, <2>3, Continued DEF DeskInv
<1>5. /\ tenants' = [o \in DOMAIN tenants \ {t} |-> tenants[o]]
      /\ removed' = removed \cup {t}
  BY <1>2 DEF RemoveTenant, DeleteTenant
<1>6. TenantsOK'
  BY <1>3, <1>5 DEF DeskInv, TenantsOK, TenantsTypeOK
<1>7. PICK kept : kept = {k \in DOMAIN tickets : tickets[k].tenant # t}
  OBVIOUS
<1>8. /\ tickets' = [k \in kept |-> tickets[k]]
      /\ messages' = [m \in {o \in DOMAIN messages : messages[o].ticket \in kept} |-> messages[m]]
  BY <1>2, <1>7 DEF RemoveTenant, CascadeDelete
<1>9. TicketsTypeOK'
  BY <1>7, <1>8 DEF DeskInv, TicketsOK, TicketsTypeOK
<1>10. NoOrphans'
  <2>1. \A k \in DOMAIN (tickets') : tickets'[k].tenant \in DOMAIN (tenants')
    BY <1>5, <1>7, <1>8 DEF DeskInv, TicketsOK, NoOrphans, TenantExists
  <2>2. \A m \in DOMAIN (messages') : messages'[m].ticket \in DOMAIN (tickets')
    BY <1>8
  <2>3. QED
    BY <2>1, <2>2 DEF NoOrphans, TenantExists, TicketExists
<1>11. RestOK'
  <2>1. CASE Committed(j)
    BY <1>1, <2>1, Counted DEF RemoveTenant
  <2>2. CASE UNCHANGED effects
    BY <2>2 DEF RemoveTenant, DeskInv, RestOK
  <2>3. QED
    BY <2>1, <2>2 DEF RemoveTenant
<1>12. QED
  BY <1>4, <1>6, <1>9, <1>10, <1>11, SameInvitations, SameJournal
     DEF DeskInv, TicketsOK, RemoveTenant

---------------------------------------------------------------------------
(* Statements on tickets *)

LEMMA ChangedTicket ==
  ASSUME TenantsOK, TicketsOK, UNCHANGED tenantVars, NEW k \in DOMAIN tickets,
         NEW row \in TicketRow, row.tenant = tickets[k].tenant, SetTicket(k, row)
  PROVE  TicketsOK'
<1>1. /\ DOMAIN (tickets') = DOMAIN tickets
      /\ \A o \in DOMAIN tickets : tickets'[o] = IF o = k THEN row ELSE tickets[o]
      /\ messages' = messages
  BY DEF TicketsOK, TicketsTypeOK, SetTicket
<1>2. tickets' = [o \in DOMAIN (tickets') |-> tickets'[o]]
  BY DEF SetTicket
<1>3. tickets' \in [DOMAIN (tickets') -> TicketRow]
  BY <1>1, <1>2 DEF TicketsOK, TicketsTypeOK
<1>4. QED
  BY <1>1, <1>3 DEF TicketsOK, TicketsTypeOK, NoOrphans, TenantExists, TicketExists, tenantVars

LEMMA UpdateTicketStep ==
  ASSUME DeskInv, NEW j \in Job, UpdateTicket(j), UNCHANGED clock
  PROVE  DeskInv'
<1> DEFINE k == jobs[j].ticket
<1>1. CASE Finish(j) /\ UNCHANGED <<ticketVars, effects>>
  BY <1>1, NothingDone DEF UpdateTicket, NothingCommitted
<1>2. ASSUME TicketExists(k), jobs[j].kind \in TicketKind,
             CASE jobs[j].kind = "assign"   -> AssignTicket(k, jobs[j].actor)
               [] jobs[j].kind = "status"   -> UpdateTicketStatus(k, jobs[j].choice)
               [] jobs[j].kind = "priority" -> UpdateTicketPriority(k, jobs[j].choice),
             jobs' = [jobs EXCEPT ![j].pc = "lookup", ![j].tenant = tickets[k].tenant],
             Committed(j)
      PROVE  DeskInv'
  <2>1. jobs[j] \in JobState /\ JobShape(jobs[j]) /\ ~At(j, "idle") /\ At(j, "update")
    BY DEF DeskInv, JobsOK, UpdateTicket, At
  <2>2. k \in DOMAIN tickets /\ tickets[k] \in TicketRow /\ tickets[k].tenant \in Tenant
    BY <1>2 DEF DeskInv, TicketsOK, TicketsTypeOK, TicketExists, TicketRow
  <2>3. JobsOK'
    <3>1. PICK t : t = tickets[k].tenant
      OBVIOUS
    <3>2. PICK q : q = [jobs[j] EXCEPT !.pc = "lookup", !.tenant = t]
      OBVIOUS
    <3>3. q \in JobState /\ q.pc = "lookup" /\ q.actor = jobs[j].actor /\ q.kind = jobs[j].kind
      BY <2>1, <2>2, <3>1, <3>2 DEF JobState, PC
    <3>4. jobs' = [jobs EXCEPT ![j] = q]
      BY <1>2, <3>1, <3>2 DEF DeskInv, JobsOK
    <3>5. QED
      BY <2>1, <3>3, <3>4, Continued DEF DeskInv
  <2>4. \/ jobs[j].kind = "assign" /\ jobs[j].actor \in User
        \/ jobs[j].kind = "status" /\ jobs[j].choice \in TicketStatus
        \/ jobs[j].kind = "priority" /\ jobs[j].choice \in TicketPriority
    BY <1>2, <2>1 DEF JobShape, At, TicketKind
  <2>5. TenantsOK' /\ tenantVars' = tenantVars
    BY SameTenants DEF UpdateTicket, DeskInv
  <2>6. TicketsOK'
    <3>1. CASE jobs[j].kind = "assign"
      <4>1. PICK row : row = [tickets[k] EXCEPT !.assignee = jobs[j].actor]
        OBVIOUS
      <4>2. row \in TicketRow /\ row.tenant = tickets[k].tenant
        BY <2>2, <2>4, <3>1, <4>1 DEF TicketRow
      <4>3. SetTicket(k, row)
        BY <1>2, <3>1, <4>1 DEF AssignTicket
      <4>4. QED
        BY <2>2, <2>5, <4>2, <4>3, ChangedTicket DEF DeskInv
    <3>2. CASE jobs[j].kind = "status"
      <4>1. PICK row : row = [tickets[k] EXCEPT !.status = jobs[j].choice]
        OBVIOUS
      <4>2. row \in TicketRow /\ row.tenant = tickets[k].tenant
        BY <2>2, <2>4, <3>2, <4>1 DEF TicketRow
      <4>3. SetTicket(k, row)
        BY <1>2, <3>2, <4>1 DEF UpdateTicketStatus
      <4>4. QED
        BY <2>2, <2>5, <4>2, <4>3, ChangedTicket DEF DeskInv
    <3>3. CASE jobs[j].kind = "priority"
      <4>1. PICK row : row = [tickets[k] EXCEPT !.priority = jobs[j].choice]
        OBVIOUS
      <4>2. row \in TicketRow /\ row.tenant = tickets[k].tenant
        BY <2>2, <2>4, <3>3, <4>1 DEF TicketRow
      <4>3. SetTicket(k, row)
        BY <1>2, <3>3, <4>1 DEF UpdateTicketPriority
      <4>4. QED
        BY <2>2, <2>5, <4>2, <4>3, ChangedTicket DEF DeskInv
    <3>4. QED
      BY <2>4, <3>1, <3>2, <3>3
  <2>7. RestOK'
    BY <1>2, <2>1, Counted DEF UpdateTicket
  <2>8. QED
    BY <2>3, <2>5, <2>6, <2>7, SameInvitations, SameJournal DEF DeskInv, UpdateTicket
<1>3. QED
  BY <1>1, <1>2 DEF UpdateTicket

LEMMA ReadTicketStep ==
  ASSUME DeskInv, NEW j \in Job, ReadTicket(j), UNCHANGED clock
  PROVE  DeskInv'
<1> DEFINE k == jobs[j].ticket
<1>1. CASE Finish(j)
  BY <1>1, NothingDone DEF ReadTicket
<1>2. ASSUME TicketExists(k),
             jobs' = [jobs EXCEPT ![j].pc = "stamp", ![j].tenant = tickets[k].tenant]
      PROVE  DeskInv'
  <2>1. jobs[j] \in JobState /\ ~At(j, "idle")
    BY DEF DeskInv, JobsOK, ReadTicket, At
  <2>2. PICK t : t = tickets[k].tenant
    OBVIOUS
  <2>3. t \in Tenant
    BY <1>2, <2>2 DEF DeskInv, TicketsOK, TicketsTypeOK, TicketExists, TicketRow
  <2>4. PICK q : q = [jobs[j] EXCEPT !.pc = "stamp", !.tenant = t]
    OBVIOUS
  <2>5. q \in JobState /\ q.pc = "stamp" /\ q.actor = jobs[j].actor /\ q.kind = jobs[j].kind
    BY <2>1, <2>3, <2>4 DEF JobState, PC
  <2>6. jobs' = [jobs EXCEPT ![j] = q]
    BY <1>2, <2>2, <2>4 DEF DeskInv, JobsOK
  <2>7. JobsOK'
    BY <2>1, <2>5, <2>6, Continued DEF DeskInv
  <2>8. QED
    BY <2>7, OnlyTheJob DEF ReadTicket
<1>3. QED
  BY <1>1, <1>2 DEF ReadTicket

LEMMA StampMessageStep ==
  ASSUME DeskInv, NEW j \in Job, StampMessage(j), UNCHANGED clock
  PROVE  DeskInv'
<1>1. jobs[j] \in JobState /\ ~At(j, "idle") /\ clock \in Nat
  BY NumbersHold DEF DeskInv, JobsOK, StampMessage, At, RestOK, Numbers
<1>2. PICK q : q = [jobs[j] EXCEPT !.pc = "send", !.sent = clock]
  OBVIOUS
<1>3. q \in JobState /\ q.pc = "send" /\ q.actor = jobs[j].actor /\ q.kind = jobs[j].kind
  BY <1>1, <1>2 DEF JobState, PC
<1>4. jobs' = [jobs EXCEPT ![j] = q]
  BY <1>2 DEF StampMessage, DeskInv, JobsOK
<1>5. JobsOK'
  BY <1>1, <1>3, <1>4, Continued DEF DeskInv
<1>6. QED
  BY <1>5, OnlyTheJob DEF StampMessage

LEMMA InsertMessageStep ==
  ASSUME DeskInv, NEW j \in Job, InsertMessage(j), UNCHANGED clock
  PROVE  DeskInv'
<1>1. CASE Finish(j) /\ UNCHANGED <<ticketVars, effects>>
  BY <1>1, NothingDone DEF InsertMessage, NothingCommitted
<1>2. ASSUME TicketExists(jobs[j].ticket), NEW m \in Message,
             CreateTicketMessage(m, jobs[j].ticket, jobs[j].actor, jobs[j].sent),
             Goto(j, "lookup"), Committed(j)
      PROVE  DeskInv'
  <2>1. jobs[j] \in JobState /\ JobShape(jobs[j]) /\ ~At(j, "idle")
    BY DEF DeskInv, JobsOK, InsertMessage, At
  <2>2. PICK k : k = jobs[j].ticket
    OBVIOUS
  <2>3. k \in DOMAIN tickets /\ k \in Ticket /\ tickets[k] \in TicketRow
    BY <1>2, <2>2 DEF DeskInv, TicketsOK, TicketsTypeOK, TicketExists
  <2>4. jobs[j].actor \in User /\ jobs[j].sent \in Nat /\ clock \in Nat
    BY <2>1, NumbersHold DEF JobShape, JobState, At, DeskInv, RestOK, Numbers
  <2>5. PICK row : row = [ticket |-> k, author |-> jobs[j].actor, sent |-> jobs[j].sent,
                          stored |-> clock]
    OBVIOUS
  <2>6. row \in MessageRow /\ row.ticket = k
    BY <2>3, <2>4, <2>5 DEF MessageRow
  <2>7. messages' = [o \in DOMAIN messages \cup {m} |-> IF o = m THEN row ELSE messages[o]]
    BY <1>2, <2>2, <2>5 DEF CreateTicketMessage, InsertRow
  <2>8. PICK touched : touched = [tickets[k] EXCEPT !.lastMessage = jobs[j].sent]
    OBVIOUS
  <2>9. touched \in TicketRow /\ touched.tenant = tickets[k].tenant
    BY <2>3, <2>4, <2>8 DEF TicketRow
  <2>10. tickets' = [o \in DOMAIN tickets |-> IF o = k THEN touched ELSE tickets[o]]
    BY <1>2, <2>2, <2>3, <2>8 DEF CreateTicketMessage, DeskInv, TicketsOK, TicketsTypeOK
  <2>11. TicketsTypeOK'
    <3>1. messages' \in [DOMAIN (messages') -> MessageRow] /\ DOMAIN (messages') \subseteq Message
      BY <2>6, <2>7 DEF DeskInv, TicketsOK, TicketsTypeOK
    <3>2. tickets' \in [DOMAIN (tickets') -> TicketRow] /\ DOMAIN (tickets') \subseteq Ticket
      BY <2>9, <2>10 DEF DeskInv, TicketsOK, TicketsTypeOK
    <3>3. QED
      BY <3>1, <3>2 DEF TicketsTypeOK
  <2>12. NoOrphans'
    BY <2>3, <2>6, <2>7, <2>9, <2>10
       DEF DeskInv, TicketsOK, NoOrphans, TenantExists, TicketExists, InsertMessage, tenantVars
  <2>13. JobsOK'
    BY <1>2, <2>1, GoneTo DEF DeskInv
  <2>14. RestOK'
    BY <1>2, <2>1, Counted DEF InsertMessage
  <2>15. QED
    BY <2>11, <2>12, <2>13, <2>14, SameTenants, SameInvitations, SameJournal
       DEF DeskInv, TicketsOK, InsertMessage
<1>3. QED
  BY <1>1, <1>2 DEF InsertMessage

LEMMA LookupTenantStep ==
  ASSUME DeskInv, NEW j \in Job, LookupTenant(j), UNCHANGED clock
  PROVE  DeskInv'
<1>1. PICK name \in BOOLEAN : jobs' = [jobs EXCEPT ![j].pc = "audit", ![j].named = name]
  BY DEF LookupTenant
<1>2. jobs[j] \in JobState /\ ~At(j, "idle")
  BY DEF DeskInv, JobsOK, LookupTenant, At
<1>3. PICK q : q = [jobs[j] EXCEPT !.pc = "audit", !.named = name]
  OBVIOUS
<1>4. q \in JobState /\ q.pc = "audit" /\ q.actor = jobs[j].actor /\ q.kind = jobs[j].kind
  BY <1>2, <1>3 DEF JobState, PC
<1>5. jobs' = [jobs EXCEPT ![j] = q]
  BY <1>1, <1>3 DEF DeskInv, JobsOK
<1>6. JobsOK'
  BY <1>2, <1>4, <1>5, Continued DEF DeskInv
<1>7. QED
  BY <1>6, OnlyTheJob DEF LookupTenant

---------------------------------------------------------------------------
(* Invitations and the template *)

LEMMA CheckPendingStep ==
  ASSUME DeskInv, NEW j \in Job, CheckPending(j), UNCHANGED clock
  PROVE  DeskInv'
<1>1. CASE Finish(j)
  BY <1>1, NothingDone DEF CheckPending
<1>2. CASE jobs' = [jobs EXCEPT ![j].pc = "invite", ![j].at = clock]
  <2>1. jobs[j] \in JobState /\ JobShape(jobs[j]) /\ At(j, "pending") /\ clock \in Nat
    BY NumbersHold DEF DeskInv, JobsOK, CheckPending, At, RestOK, Numbers
  <2>2. PICK q : q = [jobs[j] EXCEPT !.pc = "invite", !.at = clock]
    OBVIOUS
  <2>3. q \in JobState
    BY <2>1, <2>2 DEF JobState, PC
  <2>4. JobShape(q)
    BY <2>1, <2>2 DEF JobShape, JobState, At
  <2>5. jobs' = [jobs EXCEPT ![j] = q]
    BY <1>2, <2>2 DEF DeskInv, JobsOK
  <2>6. JobsOK'
    BY <2>3, <2>4, <2>5, MovedJob DEF DeskInv
  <2>7. QED
    BY <2>6, OnlyTheJob DEF CheckPending
<1>3. QED
  BY <1>1, <1>2 DEF CheckPending

LEMMA InsertInvitationStep ==
  ASSUME DeskInv, NEW j \in Job, InsertInvitation(j), UNCHANGED clock
  PROVE  DeskInv'
<1>1. CASE Finish(j) /\ UNCHANGED <<invitations, effects>>
  BY <1>1, NothingDone DEF InsertInvitation, NothingCommitted
<1>2. CASE /\ CreateInvitation(jobs[j].email, jobs[j].choice, jobs[j].at)
           /\ Goto(j, "audit")
           /\ Committed(j)
  <2>1. jobs[j] \in JobState /\ JobShape(jobs[j]) /\ ~At(j, "idle") /\ At(j, "invite")
    BY DEF DeskInv, JobsOK, InsertInvitation, At
  <2>2. jobs[j].email \in Invitee /\ jobs[j].choice \in InvitableRole /\ jobs[j].at \in Nat
    BY <2>1 DEF JobShape, JobState, At
  <2>3. PICK row : row = [email |-> jobs[j].email, role |-> jobs[j].choice,
                          expires |-> jobs[j].at + InvitationTTL]
    OBVIOUS
  <2>4. row \in InvitationRow /\ row.email = jobs[j].email
    BY <2>2, <2>3, NumbersHold DEF InvitationRow, Numbers
  <2>5. invitations' = Append(invitations, row) /\ ~HasPending(row.email)
    BY <1>2, <2>3, <2>4 DEF CreateInvitation
  <2>6. invitations \in Seq(InvitationRow)
    BY DEF DeskInv, InvitationsOK, InvitationsTypeOK
  <2>7. /\ invitations' \in Seq(InvitationRow)
        /\ \A i \in DOMAIN (invitations') :
             \/ i \in DOMAIN invitations /\ invitations'[i] = invitations[i]
             \/ i = Len(invitations) + 1 /\ invitations'[i] = row
    BY <2>4, <2>5, <2>6
  <2>8. InvitationsOK'
    BY <2>5, <2>7 DEF DeskInv, InvitationsOK, InvitationsTypeOK, HasPending
  <2>9. JobsOK'
    BY <1>2, <2>1, GoneTo DEF DeskInv
  <2>10. RestOK'
    BY <1>2, <2>1, Counted DEF InsertInvitation
  <2>11. QED
    BY <2>8, <2>9, <2>10, SameTenants, SameTickets, SameJournal DEF DeskInv, InsertInvitation
<1>3. QED
  BY <1>1, <1>2 DEF InsertInvitation

LEMMA SaveTemplateStep ==
  ASSUME DeskInv, NEW j \in Job, SaveTemplate(j), UNCHANGED clock
  PROVE  DeskInv'
<1>1. jobs[j] \in JobState /\ JobShape(jobs[j]) /\ ~At(j, "idle")
  BY DEF DeskInv, JobsOK, SaveTemplate, At
<1>2. jobs[j].actor \in User /\ jobs[j].kind \in Kind /\ jobs[j].at \in Nat
  BY <1>1 DEF JobShape, JobState, At
<1>3. JobsOK'
  BY <1>1, GoneTo DEF SaveTemplate, DeskInv
<1>4. template' \in [by : User \cup {None}, at : Nat]
  BY <1>2 DEF SaveTemplate
<1>5. effects' \in [Kind -> Nat]
  BY <1>2 DEF SaveTemplate, Committed, DeskInv, RestOK
<1>6. RestOK'
  BY <1>4, <1>5 DEF SaveTemplate, DeskInv, RestOK
<1>7. QED
  BY <1>3, <1>6, SameTenants, SameTickets, SameInvitations, SameJournal DEF DeskInv, SaveTemplate

---------------------------------------------------------------------------
LEMMA WriteAuditLogStep ==
  ASSUME DeskInv, NEW j \in Job, WriteAuditLog(j), UNCHANGED clock
  PROVE  DeskInv'
<1>1. jobs[j] \in JobState /\ JobShape(jobs[j]) /\ ~At(j, "idle")
  BY DEF DeskInv, JobsOK, WriteAuditLog, At
<1>2. PICK entry : entry = [actor |-> jobs[j].actor, action |-> jobs[j].kind,
                            tenant |-> jobs[j].tenant, named |-> jobs[j].named]
  OBVIOUS
<1>3. entry \in Entry /\ Permits(entry.actor, entry.action)
  BY <1>1, <1>2 DEF JobShape, JobState, At, Entry
<1>4. journal \in Seq(Entry) /\ journal' = Append(journal, entry)
  BY <1>2 DEF DeskInv, JournalOK, WriteAuditLog
<1>5. /\ journal' \in Seq(Entry)
      /\ \A i \in DOMAIN (journal') :
           (i \in DOMAIN journal /\ journal'[i] = journal[i]) \/ journal'[i] = entry
  BY <1>3, <1>4
<1>6. \A i \in DOMAIN (journal') : Permits(journal'[i].actor, journal'[i].action)
  BY <1>3, <1>5 DEF DeskInv, JournalOK
<1>7. JournalOK'
  BY <1>5, <1>6 DEF JournalOK
<1>8. JobsOK'
  BY FinishedJob DEF WriteAuditLog, DeskInv
<1>9. QED
  BY <1>7, <1>8, SameTenants, SameTickets, SameInvitations, SameRest
     DEF WriteAuditLog, NothingCommitted, DeskInv

LEMMA AbortJobStep ==
  ASSUME DeskInv, NEW j \in Job, AbortJob(j), UNCHANGED clock
  PROVE  DeskInv'
  BY NothingDone DEF AbortJob

LEMMA TickStep ==
  ASSUME DeskInv, Tick,
         UNCHANGED <<tenantVars, ticketVars, invitations, journal, template, deskVars>>
  PROVE  DeskInv'
<1>1. RestOK'
  BY NumbersHold DEF Tick, deskVars, DeskInv, RestOK, Numbers
<1>2. JobsOK'
  BY DEF deskVars, DeskInv, JobsOK
<1>3. QED
  BY <1>1, <1>2, SameTenants, SameTickets, SameInvitations, SameJournal DEF DeskInv

(* The seed's rows. *)
LEMMA InitiallyInv ==
  ASSUME Init
  PROVE  DeskInv
<1>1. PICK email \in [{TicketOf[k] : k \in Ticket} -> Email] :
        /\ \A s, t \in DOMAIN email : email[s] = email[t] => s = t
        /\ tenants = [t \in DOMAIN email |->
             [email |-> email[t], status |-> "active", trialEnds |-> 0,
              reason |-> FALSE, codeExpires |-> 0]]
  BY DEF Init
<1>2. TicketOf \in [Ticket -> Tenant]
  BY TicketOfAssumption DEF TicketOfAssumption
<1>3. DOMAIN email \subseteq Tenant /\ \A k \in Ticket : TicketOf[k] \in DOMAIN email
  BY <1>2
<1>4. TenantsOK
  <2>1. tenants \in [DOMAIN tenants -> TenantRow] /\ DOMAIN tenants = DOMAIN email
    BY <1>1 DEF TenantRow, TenantStatus
  <2>2. \A t \in DOMAIN tenants : tenants[t].email = email[t]
    BY <1>1
  <2>3. QED
    BY <1>1, <1>3, <2>1, <2>2 DEF Init, TenantsOK, TenantsTypeOK
<1>5. TicketsOK
  <2>1. tickets = [k \in Ticket |-> [tenant |-> TicketOf[k], status |-> "open",
                                     priority |-> "normal", assignee |-> None,
                                     lastMessage |-> 0]]
        /\ messages = [p \in {} |-> p]
    BY DEF Init, TicketsInit, EmptyTable
  <2>2. tickets \in [Ticket -> TicketRow] /\ \A k \in Ticket : tickets[k].tenant = TicketOf[k]
    BY <1>2, <2>1 DEF TicketRow, TicketStatus, TicketPriority
  <2>3. messages \in [DOMAIN messages -> MessageRow] /\ DOMAIN messages = {}
    BY <2>1
  <2>4. DOMAIN tenants = DOMAIN email
    BY <1>1
  <2>5. QED
    BY <1>3, <2>2, <2>3, <2>4
       DEF TicketsOK, TicketsTypeOK, NoOrphans, TenantExists, TicketExists
<1>6. InvitationsOK /\ JournalOK
  BY DEF Init, InvitationsOK, InvitationsTypeOK, JournalOK
<1>7. RestOK
  BY NumbersHold DEF Init, RestOK, Numbers
<1>8. JobsOK
  BY IdleIsAJob DEF Init, JobsOK
<1>9. QED
  BY <1>4, <1>5, <1>6, <1>7, <1>8 DEF DeskInv

LEMMA NextInv ==
  ASSUME DeskInv, [Next]_vars
  PROVE  DeskInv'
<1>1. CASE Tick /\ UNCHANGED <<tenantVars, ticketVars, invitations, journal, template, deskVars>>
  BY <1>1, TickStep
<1>2. ASSUME NEW j \in Job, UNCHANGED clock,
             \/ Start(j) \/ TenantStep(j) \/ TicketStep(j) \/ OtherStep(j)
             \/ WriteAuditLog(j) \/ AbortJob(j)
      PROVE  DeskInv'
  <2>1. CASE Start(j)
    BY <1>2, <2>1, StartStep
  <2>2. CASE TenantStep(j)
    BY <1>2, <2>2, InsertTenantStep, UpdateTenantStep, ReadTenantStep, RemoveTenantStep
       DEF TenantStep
  <2>3. CASE TicketStep(j)
    BY <1>2, <2>3, UpdateTicketStep, ReadTicketStep, StampMessageStep, InsertMessageStep,
       LookupTenantStep DEF TicketStep
  <2>4. CASE OtherStep(j)
    BY <1>2, <2>4, CheckPendingStep, InsertInvitationStep, SaveTemplateStep DEF OtherStep
  <2>5. CASE WriteAuditLog(j)
    BY <1>2, <2>5, WriteAuditLogStep
  <2>6. CASE AbortJob(j)
    BY <1>2, <2>6, AbortJobStep
  <2>7. QED
    BY <1>2, <2>1, <2>2, <2>3, <2>4, <2>5, <2>6
<1>3. CASE UNCHANGED vars
  <2>1. JobsOK'
    BY <1>3 DEF vars, deskVars, DeskInv, JobsOK
  <2>2. QED
    BY <1>3, <2>1, SameTenants, SameTickets, SameInvitations, SameJournal, SameRest
       DEF DeskInv, vars, deskVars
<1>4. QED
  BY <1>1, <1>2, <1>3 DEF Next

(* What the statements of a job find, whatever the other jobs do: the *)
(* invariant all the theorems below rest on.                          *)
THEOREM DeskHolds == Spec => []DeskInv
<1>1. Init => DeskInv
  BY InitiallyInv
<1>2. DeskInv /\ [Next]_vars => DeskInv'
  BY NextInv
<1>3. QED
  BY <1>1, <1>2, PTL DEF Spec

---------------------------------------------------------------------------
(* Every table, journal entry and local variable of Desk keeps its type. *)
THEOREM DeskTypeCorrect == Spec => []TypeOK
<1>1. DeskInv => TypeOK
  BY DEF DeskInv, JobsOK, TenantsOK, TicketsOK, InvitationsOK, JournalOK, RestOK, TypeOK
<1>2. QED
  BY <1>1, DeskHolds, PTL

(* No ticket without its client and no message without its ticket, however *)
(* many replies run across the deletion of a client: the cascades and the  *)
(* foreign keys make up for what the usecases read too early.              *)
THEOREM OrphanFree == Spec => []NoOrphans
<1>1. DeskInv => NoOrphans
  BY DEF DeskInv, TicketsOK
<1>2. QED
  BY <1>1, DeskHolds, PTL

(* No email twice among the clients, nor among the pending invitations. *)
THEOREM EmailsUnique == Spec => []EmailsStayUnique
<1>1. DeskInv => EmailsStayUnique
  BY DEF DeskInv, TenantsOK, InvitationsOK, EmailsStayUnique
<1>2. QED
  BY <1>1, DeskHolds, PTL

(* The matrix of table.go and the routes of router.go give each role the *)
(* duties the comment of defaultPolicy names and no other.               *)
LEMMA PermittedIsDuty ==
  ASSUME NEW actor \in User, NEW kind \in Kind, Permits(actor, kind)
  PROVE  Duty(actor, kind)
<1>1. ClaimedRole[actor] \in {"owner", "admin", "support", "viewer"}
  BY ClaimedRoleAssumption DEF ClaimedRoleAssumption, Role
<1>2. CASE ClaimedRole[actor] = "owner"
  BY <1>2 DEF Duty
<1>3. CASE ClaimedRole[actor] = "admin"
  BY <1>3, Kinds DEF Duty, Permits, Route, Can, defaultPolicy, Owner, readOnly, crudActions
<1>4. CASE ClaimedRole[actor] = "support"
  BY <1>4, Kinds DEF Duty, Permits, Route, Can, defaultPolicy, Owner, readOnly, ticketActions,
                     TicketKind
<1>5. CASE ClaimedRole[actor] = "viewer"
  BY <1>5, Kinds DEF Duty, Permits, Route, Can, defaultPolicy, Owner, readOnly
<1>6. QED
  BY <1>1, <1>2, <1>3, <1>4, <1>5

(* Nobody works on, and the journal shows nobody having done, what the *)
(* role in the token does not allow.                                   *)
THEOREM DutiesKept == Spec => []RolesKeepToTheirDuties
<1>1. DeskInv => RolesKeepToTheirDuties
  <2>1. SUFFICES ASSUME DeskInv PROVE RolesKeepToTheirDuties
    OBVIOUS
  <2>2. \A j \in Job : ~At(j, "idle") => Duty(jobs[j].actor, jobs[j].kind)
    BY <2>1, PermittedIsDuty DEF DeskInv, JobsOK, JobShape, At
  <2>3. \A i \in DOMAIN journal : Duty(journal[i].actor, journal[i].action)
    <3>1. \A i \in DOMAIN journal : journal[i] \in Entry
      BY <2>1 DEF DeskInv, JournalOK
    <3>2. QED
      BY <2>1, <3>1, PermittedIsDuty DEF DeskInv, JournalOK, Entry
  <2>4. QED
    BY <2>2, <2>3 DEF RolesKeepToTheirDuties
<1>2. QED
  BY <1>1, DeskHolds, PTL

---------------------------------------------------------------------------
(* How far last_message_at may lag.  No message carries an instant that is *)
(* yet to come, so the message that is being stored is a witness for every *)
(* other message of its ticket; and a witness goes only with its ticket.   *)

SendersInPast == \A j \in Job : At(j, "send") => jobs[j].sent <= clock
MessagesInPast == \A m \in DOMAIN messages : messages[m].sent <= clock
StampInv == SendersInPast /\ MessagesInPast /\ StampLagsOnlyUnderOverlap

LEMMA SendersStayInPast ==
  ASSUME SendersInPast, clock \in Nat, clock' \in Nat, clock' >= clock, JobsOK, NEW j \in Job,
         \A o \in Job \ {j} : jobs'[o] = jobs[o], jobs'[j].pc # "send" \/ jobs'[j].sent = clock
  PROVE  SendersInPast'
<1>1. SUFFICES ASSUME NEW o \in Job, jobs'[o].pc = "send" PROVE jobs'[o].sent <= clock'
  BY DEF SendersInPast, At
<1>2. CASE o = j
  BY <1>1, <1>2
<1>3. CASE o # j
  <2>1. jobs[o] \in JobState
    BY DEF JobsOK
  <2>2. jobs[o].sent \in Nat
    BY <2>1 DEF JobState
  <2>3. jobs[o].sent <= clock /\ jobs'[o].sent = jobs[o].sent
    BY <1>1, <1>3 DEF SendersInPast, At
  <2>4. QED
    BY <2>2, <2>3
<1>4. QED
  BY <1>2, <1>3

(* The messages stay, and every ticket keeps its stamp. *)
LEMMA StampsStay ==
  ASSUME MessagesInPast, StampLagsOnlyUnderOverlap, TicketsOK, clock \in Nat, clock' \in Nat,
         clock' >= clock, UNCHANGED messages,
         \A k \in DOMAIN tickets : tickets'[k].lastMessage = tickets[k].lastMessage
  PROVE  (MessagesInPast /\ StampLagsOnlyUnderOverlap)'
<1>1. \A m \in DOMAIN messages : messages[m].sent \in Nat /\ messages[m].ticket \in DOMAIN tickets
  BY DEF TicketsOK, TicketsTypeOK, MessageRow, NoOrphans, TicketExists
<1>2. MessagesInPast'
  BY <1>1 DEF MessagesInPast
<1>3. StampLagsOnlyUnderOverlap'
  BY <1>1 DEF StampLagsOnlyUnderOverlap
<1>4. QED
  BY <1>2, <1>3

LEMMA InsertKeepsStamps ==
  ASSUME DeskInv, MessagesInPast, StampLagsOnlyUnderOverlap, NEW j \in Job, UNCHANGED clock,
         jobs[j].sent <= clock, TicketExists(jobs[j].ticket), NEW m \in Message,
         CreateTicketMessage(m, jobs[j].ticket, jobs[j].actor, jobs[j].sent)
  PROVE  (MessagesInPast /\ StampLagsOnlyUnderOverlap)'
<1>1. PICK k, s : k = jobs[j].ticket /\ s = jobs[j].sent
  OBVIOUS
<1>2. clock \in Nat /\ s \in Nat /\ s <= clock
  <2>1. jobs[j] \in JobState
    BY DEF DeskInv, JobsOK
  <2>2. QED
    BY <1>1, <2>1, NumbersHold DEF DeskInv, RestOK, Numbers, JobState
<1>3. k \in DOMAIN tickets
  BY <1>1 DEF TicketExists
<1>4. /\ m \notin DOMAIN messages
      /\ DOMAIN (messages') = DOMAIN messages \cup {m}
      /\ \A o \in DOMAIN messages : messages'[o] = messages[o]
      /\ messages'[m].ticket = k /\ messages'[m].sent = s /\ messages'[m].stored = clock
  BY <1>1 DEF CreateTicketMessage, InsertRow
<1>5. /\ tickets'[k].lastMessage = s
      /\ \A o \in DOMAIN tickets \ {k} : tickets'[o].lastMessage = tickets[o].lastMessage
  <2>1. tickets[k] \in TicketRow
    BY <1>3 DEF DeskInv, TicketsOK, TicketsTypeOK
  <2>2. tickets' = [tickets EXCEPT ![k] = [tickets[k] EXCEPT !.lastMessage = s]]
    BY <1>1, <1>3 DEF CreateTicketMessage, DeskInv, TicketsOK, TicketsTypeOK
  <2>3. QED
    BY <1>3, <2>1, <2>2 DEF TicketRow
<1>6. \A o \in DOMAIN messages : messages[o].sent \in Nat /\ messages[o].ticket \in DOMAIN tickets
  BY DEF DeskInv, TicketsOK, TicketsTypeOK, MessageRow, NoOrphans, TicketExists
<1>7. MessagesInPast'
  BY <1>2, <1>4, <1>6 DEF MessagesInPast
<1>8. ASSUME NEW o \in DOMAIN (messages')
      PROVE  \E n \in DOMAIN (messages') :
               /\ messages'[n].ticket = messages'[o].ticket
               /\ messages'[n].sent = tickets'[messages'[o].ticket].lastMessage
               /\ messages'[n].stored >= messages'[o].sent
  <2>1. CASE messages'[o].ticket = k
    <3>1. messages'[o].sent <= clock
      BY <1>2, <1>4 DEF MessagesInPast
    <3>2. QED
      BY <1>4, <1>5, <2>1, <3>1
  <2>2. CASE messages'[o].ticket # k
    <3>1. o \in DOMAIN messages /\ messages'[o] = messages[o]
      BY <1>4, <2>2
    <3>2. PICK n \in DOMAIN messages :
            /\ messages[n].ticket = messages[o].ticket
            /\ messages[n].sent = tickets[messages[o].ticket].lastMessage
            /\ messages[n].stored >= messages[o].sent
      BY <3>1 DEF StampLagsOnlyUnderOverlap
    <3>3. n \in DOMAIN (messages') /\ messages'[n] = messages[n]
      BY <1>4
    <3>4. tickets'[messages[o].ticket].lastMessage = tickets[messages[o].ticket].lastMessage
      BY <1>5, <1>6, <2>2, <3>1
    <3>5. QED
      BY <3>1, <3>2, <3>3, <3>4
  <2>3. QED
    BY <2>1, <2>2
<1>9. StampLagsOnlyUnderOverlap'
  BY <1>8 DEF StampLagsOnlyUnderOverlap
<1>10. QED
  BY <1>7, <1>9

LEMMA CascadeKeepsStamps ==
  ASSUME DeskInv, MessagesInPast, StampLagsOnlyUnderOverlap, NEW t, CascadeDelete(t),
         UNCHANGED clock
  PROVE  (MessagesInPast /\ StampLagsOnlyUnderOverlap)'
<1>1. PICK kept : kept = {k \in DOMAIN tickets : tickets[k].tenant # t}
  OBVIOUS
<1>2. /\ tickets' = [k \in kept |-> tickets[k]]
      /\ messages' = [m \in {o \in DOMAIN messages : messages[o].ticket \in kept} |-> messages[m]]
  BY <1>1 DEF CascadeDelete
<1>3. MessagesInPast'
  BY <1>2 DEF MessagesInPast
<1>4. StampLagsOnlyUnderOverlap'
  BY <1>2 DEF StampLagsOnlyUnderOverlap
<1>5. QED
  BY <1>3, <1>4

(* Only StampMessage sends a job to its INSERT, and it reads the clock. *)

OthersAsTheyWere(j) == \A o \in Job \ {j} : jobs'[o] = jobs[o]

\* A job begins before the first statement of its call.
Begins(kind, pc) == /\ pc \in {"insert", "update", "read", "pending", "save"}
                    /\ kind = "delete" => pc = "read"
Started(q) == Begins(q.kind, q.pc)

LEMMA BeginForm ==
  ASSUME jobs \in [Job -> JobState], NEW j \in Job, NEW actor, NEW kind, NEW state,
         {"pc", "kind"} \subseteq DOMAIN state, Begins(kind, state.pc),
         Begin(j, actor, kind, state)
  PROVE  OthersAsTheyWere(j) /\ Started(jobs'[j])
<1>1. PICK q : q = [state EXCEPT !.actor = actor, !.kind = kind, !.at = clock]
  OBVIOUS
<1>2. Started(q)
  BY <1>1 DEF Started
<1>3. jobs' = [jobs EXCEPT ![j] = q]
  BY <1>1 DEF Begin
<1>4. QED
  BY <1>2, <1>3 DEF OthersAsTheyWere

LEMMA StartedJob ==
  ASSUME jobs \in [Job -> JobState], NEW j \in Job, Start(j)
  PROVE  OthersAsTheyWere(j) /\ Started(jobs'[j])
<1>1. PICK actor \in User :
        \/ StartCreate(j, actor) \/ StartOnTenant(j, actor) \/ StartOnTicket(j, actor)
        \/ StartInvite(j, actor) \/ StartTemplate(j, actor)
  BY DEF Start
<1>2. CASE StartCreate(j, actor)
  <2>1. PICK email \in Email, days \in TrialDays :
          Begin(j, actor, "create", [Idle EXCEPT !.pc = "insert", !.email = email, !.days = days])
    BY <1>2 DEF StartCreate
  <2>2. PICK state : state = [Idle EXCEPT !.pc = "insert", !.email = email, !.days = days]
    OBVIOUS
  <2>3. {"pc", "kind"} \subseteq DOMAIN state /\ Begins("create", state.pc)
    BY <2>2 DEF Idle, Begins
  <2>4. QED
    BY <2>1, <2>2, <2>3, BeginForm
<1>3. CASE StartOnTenant(j, actor)
  <2>1. PICK t \in DOMAIN tenants \cup removed :
          \/ \E kind \in {"suspend", "resume", "code"} :
               Begin(j, actor, kind, [Idle EXCEPT !.pc = "update", !.tenant = t])
          \/ Begin(j, actor, "delete", [Idle EXCEPT !.pc = "read", !.tenant = t])
    BY <1>3 DEF StartOnTenant
  <2>2. ASSUME NEW kind, NEW pc \in {"update", "read"}, Begins(kind, pc),
               Begin(j, actor, kind, [Idle EXCEPT !.pc = pc, !.tenant = t])
        PROVE  OthersAsTheyWere(j) /\ Started(jobs'[j])
    <3>1. PICK state : state = [Idle EXCEPT !.pc = pc, !.tenant = t]
      OBVIOUS
    <3>2. {"pc", "kind"} \subseteq DOMAIN state /\ state.pc = pc
      BY <3>1 DEF Idle
    <3>3. QED
      BY <2>2, <3>1, <3>2, BeginForm
  <2>3. QED
    BY <2>1, <2>2 DEF Begins
<1>4. CASE StartOnTicket(j, actor)
  <2>1. PICK k \in Ticket :
          \/ Begin(j, actor, "reply", [Idle EXCEPT !.pc = "read", !.ticket = k])
          \/ Begin(j, actor, "assign", [Idle EXCEPT !.pc = "update", !.ticket = k])
          \/ \E s \in SetTo \cap TicketStatus :
               Begin(j, actor, "status", [Idle EXCEPT !.pc = "update", !.ticket = k, !.choice = s])
          \/ \E p \in SetTo \cap TicketPriority :
               Begin(j, actor, "priority", [Idle EXCEPT !.pc = "update", !.ticket = k, !.choice = p])
    BY <1>4 DEF StartOnTicket
  <2>2. ASSUME NEW kind, NEW pc \in {"update", "read"}, Begins(kind, pc),
               Begin(j, actor, kind, [Idle EXCEPT !.pc = pc, !.ticket = k])
        PROVE  OthersAsTheyWere(j) /\ Started(jobs'[j])
    <3>1. PICK state : state = [Idle EXCEPT !.pc = pc, !.ticket = k]
      OBVIOUS
    <3>2. {"pc", "kind"} \subseteq DOMAIN state /\ state.pc = pc
      BY <3>1 DEF Idle
    <3>3. QED
      BY <2>2, <3>1, <3>2, BeginForm
  <2>3. ASSUME NEW kind, Begins(kind, "update"), NEW choice,
               Begin(j, actor, kind, [Idle EXCEPT !.pc = "update", !.ticket = k, !.choice = choice])
        PROVE  OthersAsTheyWere(j) /\ Started(jobs'[j])
    <3>1. PICK state : state = [Idle EXCEPT !.pc = "update", !.ticket = k, !.choice = choice]
      OBVIOUS
    <3>2. {"pc", "kind"} \subseteq DOMAIN state /\ state.pc = "update"
      BY <3>1 DEF Idle
    <3>3. QED
      BY <2>3, <3>1, <3>2, BeginForm
  <2>4. /\ Begins("reply", "read") /\ Begins("assign", "update")
        /\ Begins("status", "update") /\ Begins("priority", "update")
    BY DEF Begins
  <2>5. QED
    BY <2>1, <2>2, <2>3, <2>4
<1>5. CASE StartInvite(j, actor)
  <2>1. PICK email \in Invitee, role \in InvitableRole \cap SetTo :
          Begin(j, actor, "invite", [Idle EXCEPT !.pc = "pending", !.email = email, !.choice = role])
    BY <1>5 DEF StartInvite
  <2>2. PICK state : state = [Idle EXCEPT !.pc = "pending", !.email = email, !.choice = role]
    OBVIOUS
  <2>3. {"pc", "kind"} \subseteq DOMAIN state /\ Begins("invite", state.pc)
    BY <2>2 DEF Idle, Begins
  <2>4. QED
    BY <2>1, <2>2, <2>3, BeginForm
<1>6. CASE StartTemplate(j, actor)
  <2>1. PICK state : state = [Idle EXCEPT !.pc = "save"]
    OBVIOUS
  <2>2. {"pc", "kind"} \subseteq DOMAIN state /\ Begins("template", state.pc)
    BY <2>1 DEF Idle, Begins
  <2>3. QED
    BY <1>6, <2>1, <2>2, BeginForm DEF StartTemplate
<1>7. QED
  BY <1>1, <1>2, <1>3, <1>4, <1>5, <1>6

(* Where each statement leaves its job: the call is over, or at the next one. *)

Ended(j) == OthersAsTheyWere(j) /\ jobs'[j] = Idle
MovedOn(j, pc) ==
  OthersAsTheyWere(j) /\ jobs'[j].pc = pc /\ jobs'[j].kind = jobs[j].kind

LEMMA Forms ==
  ASSUME jobs \in [Job -> JobState], NEW j \in Job, NEW pc, NEW x, NEW y,
         \/ jobs' = [jobs EXCEPT ![j].pc = pc]
         \/ jobs' = [jobs EXCEPT ![j].pc = pc, ![j].tenant = x]
         \/ jobs' = [jobs EXCEPT ![j].pc = pc, ![j].named = x]
         \/ jobs' = [jobs EXCEPT ![j].pc = pc, ![j].at = x]
         \/ jobs' = [jobs EXCEPT ![j].pc = pc, ![j].sent = x]
         \/ jobs' = [jobs EXCEPT ![j].pc = pc, ![j].tenant = x, ![j].named = y]
  PROVE  MovedOn(j, pc)
<1>1. jobs[j] \in JobState
  OBVIOUS
<1>2. CASE jobs' = [jobs EXCEPT ![j].pc = pc]
  BY <1>1, <1>2 DEF MovedOn, OthersAsTheyWere, JobState
<1>3. CASE jobs' = [jobs EXCEPT ![j].pc = pc, ![j].tenant = x]
  BY <1>1, <1>3 DEF MovedOn, OthersAsTheyWere, JobState
<1>4. CASE jobs' = [jobs EXCEPT ![j].pc = pc, ![j].named = x]
  BY <1>1, <1>4 DEF MovedOn, OthersAsTheyWere, JobState
<1>5. CASE jobs' = [jobs EXCEPT ![j].pc = pc, ![j].at = x]
  BY <1>1, <1>5 DEF MovedOn, OthersAsTheyWere, JobState
<1>6. CASE jobs' = [jobs EXCEPT ![j].pc = pc, ![j].tenant = x, ![j].named = y]
  BY <1>1, <1>6 DEF MovedOn, OthersAsTheyWere, JobState
<1>7. CASE jobs' = [jobs EXCEPT ![j].pc = pc, ![j].sent = x]
  BY <1>1, <1>7 DEF MovedOn, OthersAsTheyWere, JobState
<1>8. QED
  BY <1>2, <1>3, <1>4, <1>5, <1>6, <1>7

LEMMA Ways ==
  ASSUME jobs \in [Job -> JobState], NEW j \in Job
  PROVE  /\ InsertTenant(j) \/ UpdateTenant(j) \/ InsertInvitation(j) => Ended(j) \/ MovedOn(j, "audit")
         /\ RemoveTenant(j) \/ LookupTenant(j) \/ SaveTemplate(j) => MovedOn(j, "audit")
         /\ ReadTenant(j) => Ended(j) \/ MovedOn(j, "remove")
         /\ ReadTicket(j) => Ended(j) \/ MovedOn(j, "stamp")
         /\ StampMessage(j) => MovedOn(j, "send")
         /\ UpdateTicket(j) \/ InsertMessage(j) => Ended(j) \/ MovedOn(j, "lookup")
         /\ CheckPending(j) => Ended(j) \/ MovedOn(j, "invite")
         /\ WriteAuditLog(j) \/ AbortJob(j) => Ended(j)
<1>1. Finish(j) => Ended(j)
  BY DEF Finish, Ended, OthersAsTheyWere
<1>2. InsertTenant(j) => Ended(j) \/ MovedOn(j, "audit")
  <2>1. ASSUME NEW t \in Tenant,
               jobs' = [jobs EXCEPT ![j].pc = "audit", ![j].tenant = t, ![j].named = TRUE]
        PROVE  MovedOn(j, "audit")
    BY <2>1, Forms
  <2>2. QED
    BY <1>1, <2>1 DEF InsertTenant
<1>3. UpdateTenant(j) => Ended(j) \/ MovedOn(j, "audit")
  BY <1>1, Forms DEF UpdateTenant
<1>4. InsertInvitation(j) => Ended(j) \/ MovedOn(j, "audit")
  BY <1>1, Forms DEF InsertInvitation, Goto
<1>5. RemoveTenant(j) => MovedOn(j, "audit")
  BY Forms DEF RemoveTenant
<1>6. LookupTenant(j) => MovedOn(j, "audit")
  BY Forms DEF LookupTenant
<1>7. SaveTemplate(j) => MovedOn(j, "audit")
  BY Forms DEF SaveTemplate, Goto
<1>8. ReadTenant(j) => Ended(j) \/ MovedOn(j, "remove")
  BY <1>1, Forms DEF ReadTenant, Goto
<1>9. ReadTicket(j) => Ended(j) \/ MovedOn(j, "stamp")
  <2>1. ASSUME NEW t, jobs' = [jobs EXCEPT ![j].pc = "stamp", ![j].tenant = t]
        PROVE  MovedOn(j, "stamp")
    BY <2>1, Forms
  <2>2. QED
    BY <1>1, <2>1 DEF ReadTicket
<1>10. StampMessage(j) => MovedOn(j, "send")
  BY Forms DEF StampMessage
<1>11. UpdateTicket(j) => Ended(j) \/ MovedOn(j, "lookup")
  BY <1>1, Forms DEF UpdateTicket
<1>12. InsertMessage(j) => Ended(j) \/ MovedOn(j, "lookup")
  BY <1>1, Forms DEF InsertMessage, Goto
<1>13. CheckPending(j) => Ended(j) \/ MovedOn(j, "invite")
  BY <1>1, Forms DEF CheckPending
<1>14. WriteAuditLog(j) \/ AbortJob(j) => Ended(j)
  BY <1>1 DEF WriteAuditLog, AbortJob
<1>15. QED
  BY <1>2, <1>3, <1>4, <1>5, <1>6, <1>7, <1>8, <1>9, <1>10, <1>11, <1>12, <1>13, <1>14

LEMMA StepNoSender ==
  ASSUME jobs \in [Job -> JobState], NEW j \in Job,
         \/ TenantStep(j) \/ UpdateTicket(j) \/ ReadTicket(j) \/ InsertMessage(j)
         \/ LookupTenant(j) \/ OtherStep(j) \/ WriteAuditLog(j) \/ AbortJob(j)
  PROVE  OthersAsTheyWere(j) /\ jobs'[j].pc # "send"
<1>1. Ended(j) \/ \E pc \in PC \ {"send"} : MovedOn(j, pc)
  BY Ways DEF TenantStep, OtherStep, PC
<1>2. QED
  BY <1>1 DEF Ended, MovedOn, Idle

LEMMA StampNoSender ==
  ASSUME JobsOK, NEW j \in Job, StampMessage(j)
  PROVE  OthersAsTheyWere(j) /\ jobs'[j].sent = clock
<1>1. jobs[j] \in JobState
  BY DEF JobsOK
<1>2. PICK q : q = [jobs[j] EXCEPT !.pc = "send", !.sent = clock]
  OBVIOUS
<1>3. q.sent = clock
  BY <1>1, <1>2 DEF JobState
<1>4. jobs' = [jobs EXCEPT ![j] = q]
  BY <1>2 DEF StampMessage, JobsOK
<1>5. QED
  BY <1>3, <1>4 DEF OthersAsTheyWere, JobsOK

(* The tickets' side of every step but the INSERT and the cascade. *)
LEMMA OthersKeepStamps ==
  ASSUME DeskInv, MessagesInPast, StampLagsOnlyUnderOverlap, NEW j \in Job, UNCHANGED clock,
         \/ Start(j) \/ InsertTenant(j) \/ UpdateTenant(j) \/ ReadTenant(j)
         \/ UpdateTicket(j) \/ ReadTicket(j) \/ StampMessage(j) \/ LookupTenant(j)
         \/ OtherStep(j) \/ WriteAuditLog(j) \/ AbortJob(j)
  PROVE  (MessagesInPast /\ StampLagsOnlyUnderOverlap)'
<1>1. clock \in Nat
  BY NumbersHold DEF DeskInv, RestOK, Numbers
<1>2. SUFFICES /\ UNCHANGED messages
               /\ \A k \in DOMAIN tickets : tickets'[k].lastMessage = tickets[k].lastMessage
  BY <1>1, StampsStay DEF DeskInv
<1>3. CASE UNCHANGED ticketVars
  BY <1>3 DEF ticketVars
<1>4. CASE UpdateTicket(j)
  <2>1. ASSUME TicketExists(jobs[j].ticket),
               \/ AssignTicket(jobs[j].ticket, jobs[j].actor)
               \/ UpdateTicketStatus(jobs[j].ticket, jobs[j].choice)
               \/ UpdateTicketPriority(jobs[j].ticket, jobs[j].choice)
        PROVE  /\ UNCHANGED messages
               /\ \A k \in DOMAIN tickets : tickets'[k].lastMessage = tickets[k].lastMessage
    <3>1. PICK k : k = jobs[j].ticket
      OBVIOUS
    <3>2. k \in DOMAIN tickets /\ tickets[k] \in TicketRow
      BY <2>1, <3>1 DEF TicketExists, DeskInv, TicketsOK, TicketsTypeOK
    <3>3. PICK row : SetTicket(k, row) /\ row.lastMessage = tickets[k].lastMessage
      BY <2>1, <3>1, <3>2 DEF AssignTicket, UpdateTicketStatus, UpdateTicketPriority, TicketRow
    <3>4. QED
      BY <3>2, <3>3 DEF SetTicket, DeskInv, TicketsOK, TicketsTypeOK
  <2>2. jobs[j].kind \in TicketKind \ {"reply"} \/ UNCHANGED ticketVars
    <3>1. JobShape(jobs[j])
      BY DEF DeskInv, JobsOK
    <3>2. QED
      BY <1>4, <3>1 DEF UpdateTicket, JobShape, TicketKind, At
  <2>3. QED
    BY <1>3, <1>4, <2>1, <2>2 DEF UpdateTicket, TicketKind
<1>5. UNCHANGED ticketVars \/ UpdateTicket(j)
  <2>1. CASE Start(j)
    BY <2>1 DEF Start, StartCreate, StartOnTenant, StartOnTicket, StartInvite, StartTemplate, Begin,
                NothingCommitted
  <2>2. CASE InsertTenant(j) \/ UpdateTenant(j) \/ ReadTenant(j)
    BY <2>2 DEF InsertTenant, UpdateTenant, ReadTenant, NothingCommitted
  <2>3. CASE ReadTicket(j) \/ StampMessage(j) \/ LookupTenant(j)
    BY <2>3 DEF ReadTicket, StampMessage, LookupTenant, NothingCommitted
  <2>4. CASE OtherStep(j) \/ WriteAuditLog(j) \/ AbortJob(j)
    BY <2>4 DEF OtherStep, CheckPending, InsertInvitation, SaveTemplate, WriteAuditLog, AbortJob,
                NothingCommitted
  <2>5. QED
    BY <2>1, <2>2, <2>3, <2>4
<1>6. QED
  BY <1>3, <1>4, <1>5

LEMMA StampInvKept ==
  ASSUME DeskInv, StampInv, [Next]_vars
  PROVE  StampInv'
<1>1. clock \in Nat
  BY NumbersHold DEF DeskInv, RestOK, Numbers
<1>2. CASE UNCHANGED <<jobs, ticketVars>> /\ clock' \in Nat /\ clock' >= clock
  <2>1. SendersInPast'
    <3>1. \A j \in Job : jobs[j].sent \in Nat
      BY DEF DeskInv, JobsOK, JobState
    <3>2. QED
      BY <1>1, <1>2, <3>1 DEF SendersInPast, StampInv, At
  <2>2. QED
    BY <1>1, <1>2, <2>1, StampsStay DEF StampInv, DeskInv, ticketVars
<1>3. ASSUME NEW j \in Job, UNCHANGED clock,
             \/ Start(j) \/ TenantStep(j) \/ TicketStep(j) \/ OtherStep(j)
             \/ WriteAuditLog(j) \/ AbortJob(j)
      PROVE  StampInv'
  <2>1. OthersAsTheyWere(j) /\ (jobs'[j].pc # "send" \/ jobs'[j].sent = clock)
    BY <1>3, StartedJob, StepNoSender, StampNoSender DEF Started, Begins, TicketStep, DeskInv, JobsOK
  <2>2. SendersInPast'
    BY <1>1, <1>3, <2>1, SendersStayInPast DEF OthersAsTheyWere, StampInv, DeskInv
  <2>3. (MessagesInPast /\ StampLagsOnlyUnderOverlap)'
    <3>1. CASE InsertMessage(j)
      <4>1. jobs[j].sent <= clock
        BY <3>1 DEF InsertMessage, StampInv, SendersInPast
      <4>2. CASE UNCHANGED ticketVars
        BY <1>1, <1>3, <4>2, StampsStay DEF StampInv, DeskInv, ticketVars
      <4>3. QED
        BY <1>3, <3>1, <4>1, <4>2, InsertKeepsStamps DEF InsertMessage, StampInv
    <3>2. CASE RemoveTenant(j)
      BY <1>3, <3>2, CascadeKeepsStamps DEF RemoveTenant, StampInv
    <3>3. QED
      BY <1>3, <3>1, <3>2, OthersKeepStamps DEF StampInv, TenantStep, TicketStep
  <2>4. QED
    BY <2>2, <2>3 DEF StampInv
<1>4. CASE Tick /\ UNCHANGED <<tenantVars, ticketVars, invitations, journal, template, deskVars>>
  BY <1>1, <1>2, <1>4 DEF Tick, deskVars
<1>5. CASE UNCHANGED vars
  BY <1>1, <1>2, <1>5 DEF vars, deskVars
<1>6. QED
  BY <1>3, <1>4, <1>5 DEF Next

(* last_message_at names a message of its ticket, and whatever is newer    *)
(* overlapped that message: the trigger of migration 0004, which copies    *)
(* sent_at without looking, is never further off, for any number of        *)
(* replies at once.                                                        *)
THEOREM StampLagBounded == Spec => []StampLagsOnlyUnderOverlap
<1>1. Init => StampInv
  <2>1. Init => SendersInPast
    BY DEF Init, SendersInPast, At, Idle
  <2>2. Init => messages = [p \in {} |-> p]
    BY DEF Init, TicketsInit, EmptyTable
  <2>3. QED
    BY <2>1, <2>2 DEF StampInv, MessagesInPast, StampLagsOnlyUnderOverlap
<1>2. DeskInv /\ StampInv /\ [Next]_vars => StampInv'
  BY StampInvKept
<1>3. StampInv => StampLagsOnlyUnderOverlap
  BY DEF StampInv
<1>4. QED
  BY <1>1, <1>2, <1>3, DeskHolds, PTL DEF Spec

---------------------------------------------------------------------------
(* The journal.  An entry stands for a change its job has committed, and a *)
(* job owes one entry from the commit to the write: so of each kind, the   *)
(* entries written and owed are together at most the changes.              *)

Owing(q) == q.pc \in {"lookup", "audit"}
Owed(kind) == {j \in Job : Owing(jobs[j]) /\ jobs[j].kind = kind}
Written(kind) == {i \in DOMAIN journal : journal[i].action = kind}

Covered(kind) ==
  /\ IsFiniteSet(Written(kind)) /\ IsFiniteSet(Owed(kind))
  /\ Cardinality(Written(kind)) + Cardinality(Owed(kind)) <= effects[kind]

\* Only RemoveTenant leads a deletion to the journal.
Honest(q, gone) ==
  /\ q.pc = "remove" => q.kind = "delete"
  /\ q.pc \in {"insert", "stamp", "send", "lookup", "pending", "invite", "save"} => q.kind # "delete"
  /\ q.pc = "audit" /\ q.kind = "delete" => q.tenant \in gone

Deleted == \A i \in DOMAIN journal : journal[i].action = "delete" => journal[i].tenant \in removed

JournalInv ==
  (\A kind \in Kind \ {"delete"} : Covered(kind)) /\ (\A j \in Job : Honest(jobs[j], removed)) /\ Deleted

LEMMA InsideFinite ==
  ASSUME NEW S, IsFiniteSet(S), NEW T \in SUBSET S
  PROVE  IsFiniteSet(T) /\ Cardinality(T) <= Cardinality(S) /\ Cardinality(T) \in Nat
         /\ Cardinality(S) \in Nat
  BY FS_Subset, FS_CardinalityType

LEMMA OneMore ==
  ASSUME NEW S, IsFiniteSet(S), NEW x
  PROVE  IsFiniteSet(S \cup {x}) /\ Cardinality(S \cup {x}) <= Cardinality(S) + 1
<1>1. PICK c, d : c = Cardinality(S) /\ d = Cardinality(S \cup {x})
  OBVIOUS
<1>2. c \in Nat
  BY <1>1, FS_CardinalityType
<1>3. IsFiniteSet(S \cup {x}) /\ d = IF x \in S THEN c ELSE c + 1
  BY <1>1, FS_AddElement
<1>4. d <= c + 1
  BY <1>2, <1>3
<1>5. QED
  BY <1>1, <1>3, <1>4

(* A step of j that commits nothing: j owes no entry it did not owe. *)
LEMMA QuietCovers ==
  ASSUME NEW j \in Job, OthersAsTheyWere(j), UNCHANGED <<effects, journal>>,
         Owing(jobs'[j]) => Owing(jobs[j]) /\ jobs'[j].kind = jobs[j].kind,
         NEW kind \in Kind, Covered(kind), effects[kind] \in Nat
  PROVE  Covered(kind)'
<1>1. Written(kind)' = Written(kind)
  BY DEF Written
<1>2. Owed(kind)' \subseteq Owed(kind)
  BY DEF Owed, OthersAsTheyWere
<1>3. PICK S, T : S = Owed(kind) /\ T = Owed(kind)'
  OBVIOUS
<1>4. IsFiniteSet(T) /\ Cardinality(T) <= Cardinality(S) /\ Cardinality(T) \in Nat /\ Cardinality(S) \in Nat
  BY <1>2, <1>3, InsideFinite DEF Covered
<1>5. PICK W : W = Written(kind)
  OBVIOUS
<1>6. Cardinality(W) \in Nat
  BY <1>5, FS_CardinalityType DEF Covered
<1>7. Cardinality(W) + Cardinality(T) <= effects[kind]
  BY <1>3, <1>4, <1>5, <1>6 DEF Covered
<1>8. QED
  BY <1>1, <1>3, <1>4, <1>5, <1>7 DEF Covered

(* A commit, or a change of another kind that found nothing: j owes one more. *)
LEMMA CommitCovers ==
  ASSUME NEW j \in Job, OthersAsTheyWere(j), UNCHANGED journal,
         effects \in [Kind -> Nat], Owing(jobs'[j]) => jobs'[j].kind = jobs[j].kind,
         NEW kind \in Kind, Covered(kind),
         Committed(j) \/ (UNCHANGED effects /\ jobs[j].kind # kind)
  PROVE  Covered(kind)'
<1>1. Written(kind)' = Written(kind)
  BY DEF Written
<1>2. PICK S, T, W : S = Owed(kind) /\ T = Owed(kind)' /\ W = Written(kind)
  OBVIOUS
<1>3. IsFiniteSet(S) /\ Cardinality(S) \in Nat /\ IsFiniteSet(W) /\ Cardinality(W) \in Nat
      /\ Cardinality(W) + Cardinality(S) <= effects[kind]
  BY <1>2, FS_CardinalityType DEF Covered
<1>4. CASE jobs[j].kind = kind
  <2>1. T \subseteq S \cup {j}
    BY <1>2 DEF Owed, OthersAsTheyWere
  <2>2. IsFiniteSet(S \cup {j}) /\ Cardinality(S \cup {j}) <= Cardinality(S) + 1
    BY <1>3, OneMore
  <2>3. IsFiniteSet(T) /\ Cardinality(T) \in Nat /\ Cardinality(T) <= Cardinality(S) + 1
    BY <1>3, <2>1, <2>2, InsideFinite
  <2>4. effects'[kind] = effects[kind] + 1
    BY <1>4 DEF Committed
  <2>5. Cardinality(W) + Cardinality(T) <= effects'[kind]
    BY <1>3, <2>3, <2>4
  <2>6. QED
    BY <1>1, <1>2, <1>3, <2>3, <2>5 DEF Covered
<1>5. CASE jobs[j].kind # kind
  <2>1. T \subseteq S
    BY <1>2, <1>5 DEF Owed, OthersAsTheyWere
  <2>2. IsFiniteSet(T) /\ Cardinality(T) \in Nat /\ Cardinality(T) <= Cardinality(S)
    BY <1>3, <2>1, InsideFinite
  <2>3. effects'[kind] = effects[kind]
    BY <1>5 DEF Committed
  <2>4. Cardinality(W) + Cardinality(T) <= effects'[kind]
    BY <1>3, <2>2, <2>3
  <2>5. QED
    BY <1>1, <1>2, <1>3, <2>2, <2>4 DEF Covered
<1>6. QED
  BY <1>4, <1>5

(* The write: an entry owed becomes an entry written. *)
LEMMA WriteCovers ==
  ASSUME DeskInv, NEW j \in Job, WriteAuditLog(j), OthersAsTheyWere(j), jobs'[j] = Idle,
         NEW kind \in Kind, Covered(kind)
  PROVE  Covered(kind)'
<1>1. PICK k, n, entry : /\ k = jobs[j].kind /\ n = Len(journal) + 1
                         /\ entry = [actor |-> jobs[j].actor, action |-> jobs[j].kind,
                                     tenant |-> jobs[j].tenant, named |-> jobs[j].named]
  OBVIOUS
<1>2. journal \in Seq(Entry) /\ journal' = Append(journal, entry) /\ entry.action = k
  BY <1>1 DEF WriteAuditLog, DeskInv, JournalOK
<1>3. /\ Len(journal) \in Nat /\ DOMAIN journal = 1..Len(journal)
      /\ DOMAIN journal' = 1..n /\ journal'[n] = entry
      /\ \A i \in 1..Len(journal) : journal'[i] = journal[i]
  BY <1>1, <1>2
<1>4. Owing(jobs[j]) /\ ~Owing(jobs'[j])
  BY DEF WriteAuditLog, At, Owing, Idle
<1>5. PICK S, T, W, X : S = Owed(kind) /\ T = Owed(kind)' /\ W = Written(kind) /\ X = Written(kind)'
  OBVIOUS
<1>6. IsFiniteSet(S) /\ Cardinality(S) \in Nat /\ IsFiniteSet(W) /\ Cardinality(W) \in Nat
      /\ Cardinality(W) + Cardinality(S) <= effects[kind]
  BY <1>5, FS_CardinalityType DEF Covered
<1>7. T \subseteq S \ {j}
  BY <1>4, <1>5 DEF Owed, OthersAsTheyWere
<1>8. effects'[kind] = effects[kind] /\ effects[kind] \in Nat
  BY DEF WriteAuditLog, NothingCommitted, DeskInv, RestOK
<1>9. CASE k = kind
  <2>1. j \in S
    BY <1>1, <1>4, <1>5, <1>9 DEF Owed
  <2>2. IsFiniteSet(S \ {j}) /\ Cardinality(S \ {j}) = Cardinality(S) - 1
    BY <1>6, <2>1, FS_RemoveElement
  <2>3. IsFiniteSet(T) /\ Cardinality(T) \in Nat /\ Cardinality(T) <= Cardinality(S) - 1
    BY <1>7, <2>2, InsideFinite
  <2>4. X \subseteq W \cup {n}
    BY <1>1, <1>3, <1>5 DEF Written
  <2>5. IsFiniteSet(W \cup {n}) /\ Cardinality(W \cup {n}) <= Cardinality(W) + 1
    BY <1>6, OneMore
  <2>6. IsFiniteSet(X) /\ Cardinality(X) \in Nat /\ Cardinality(X) <= Cardinality(W) + 1
    BY <1>6, <2>4, <2>5, InsideFinite
  <2>7. Cardinality(X) + Cardinality(T) <= effects'[kind]
    BY <1>6, <1>8, <2>3, <2>6
  <2>8. QED
    BY <1>5, <2>3, <2>6, <2>7 DEF Covered
<1>10. CASE k # kind
  <2>1. IsFiniteSet(T) /\ Cardinality(T) \in Nat /\ Cardinality(T) <= Cardinality(S)
    BY <1>6, <1>7, InsideFinite
  <2>2. X \subseteq W
    BY <1>1, <1>2, <1>3, <1>5, <1>10 DEF Written
  <2>3. IsFiniteSet(X) /\ Cardinality(X) \in Nat /\ Cardinality(X) <= Cardinality(W)
    BY <1>6, <2>2, InsideFinite
  <2>4. Cardinality(X) + Cardinality(T) <= effects'[kind]
    BY <1>6, <1>8, <2>1, <2>3
  <2>5. QED
    BY <1>5, <2>1, <2>3, <2>4 DEF Covered
<1>11. QED
  BY <1>9, <1>10

---------------------------------------------------------------------------
(* What each step of a job does to the journal's side. *)

Quiet(j) ==
  /\ OthersAsTheyWere(j) /\ UNCHANGED <<effects, journal>> /\ removed \subseteq removed'
  /\ Owing(jobs'[j]) => Owing(jobs[j]) /\ jobs'[j].kind = jobs[j].kind
  /\ Honest(jobs'[j], removed')

Commits(j) ==
  /\ OthersAsTheyWere(j) /\ UNCHANGED journal /\ removed \subseteq removed'
  /\ Committed(j) \/ (UNCHANGED effects /\ jobs[j].kind = "delete")
  /\ Owing(jobs'[j]) => jobs'[j].kind = jobs[j].kind
  /\ Honest(jobs'[j], removed')

LEMMA OthersHonest ==
  ASSUME JournalInv, NEW j \in Job, OthersAsTheyWere(j), removed \subseteq removed',
         Honest(jobs'[j], removed')
  PROVE  \A o \in Job : Honest(jobs'[o], removed')
  BY DEF JournalInv, OthersAsTheyWere, Honest

LEMMA QuietKeeps ==
  ASSUME DeskInv, JournalInv, NEW j \in Job, Quiet(j)
  PROVE  JournalInv'
<1>1. \A kind \in Kind \ {"delete"} : Covered(kind)'
  BY QuietCovers DEF Quiet, JournalInv, DeskInv, RestOK
<1>2. \A o \in Job : Honest(jobs'[o], removed')
  BY OthersHonest DEF Quiet
<1>3. Deleted'
  BY DEF Quiet, JournalInv, Deleted
<1>4. QED
  BY <1>1, <1>2, <1>3 DEF JournalInv

LEMMA CommitKeeps ==
  ASSUME DeskInv, JournalInv, NEW j \in Job, Commits(j)
  PROVE  JournalInv'
<1>1. \A kind \in Kind \ {"delete"} : Covered(kind)'
  BY CommitCovers DEF Commits, JournalInv, DeskInv, RestOK
<1>2. \A o \in Job : Honest(jobs'[o], removed')
  BY OthersHonest DEF Commits
<1>3. Deleted'
  BY DEF Commits, JournalInv, Deleted
<1>4. QED
  BY <1>1, <1>2, <1>3 DEF JournalInv

LEMMA IdleHonest == ~Owing(Idle) /\ \A gone : Honest(Idle, gone)
  BY DEF Owing, Honest, Idle

LEMMA WriteKeeps ==
  ASSUME DeskInv, JournalInv, NEW j \in Job, WriteAuditLog(j)
  PROVE  JournalInv'
<1>1. OthersAsTheyWere(j) /\ jobs'[j] = Idle
  BY Ways DEF Ended, DeskInv, JobsOK
<1>2. \A kind \in Kind \ {"delete"} : Covered(kind)'
  BY <1>1, WriteCovers DEF JournalInv
<1>3. UNCHANGED removed
  BY DEF WriteAuditLog, NothingCommitted, tenantVars
<1>4. \A o \in Job : Honest(jobs'[o], removed')
  BY <1>1, <1>3, OthersHonest, IdleHonest
<1>5. Deleted'
  <2>1. PICK entry : entry = [actor |-> jobs[j].actor, action |-> jobs[j].kind,
                              tenant |-> jobs[j].tenant, named |-> jobs[j].named]
    OBVIOUS
  <2>2. journal \in Seq(Entry) /\ journal' = Append(journal, entry)
    BY <2>1 DEF WriteAuditLog, DeskInv, JournalOK
  <2>3. \A i \in DOMAIN (journal') :
          (i \in DOMAIN journal /\ journal'[i] = journal[i]) \/ journal'[i] = entry
    BY <2>2
  <2>4. entry.action = "delete" => entry.tenant \in removed
    BY <2>1 DEF WriteAuditLog, JournalInv, Honest, At
  <2>5. QED
    BY <1>3, <2>3, <2>4 DEF Deleted, JournalInv
<1>6. QED
  BY <1>2, <1>4, <1>5 DEF JournalInv

(* Starts, reads and ends. *)
LEMMA QuietSteps ==
  ASSUME DeskInv, JournalInv, NEW j \in Job,
         \/ Start(j) \/ ReadTenant(j) \/ ReadTicket(j) \/ StampMessage(j) \/ LookupTenant(j)
         \/ CheckPending(j) \/ AbortJob(j)
  PROVE  Quiet(j)
<1>1. jobs \in [Job -> JobState] /\ Honest(jobs[j], removed)
  BY DEF DeskInv, JobsOK, JournalInv
<1>2. UNCHANGED <<effects, journal, removed>>
  <2>1. CASE Start(j)
    BY <2>1 DEF Start, StartCreate, StartOnTenant, StartOnTicket, StartInvite, StartTemplate, Begin,
                NothingCommitted, tenantVars
  <2>2. CASE ReadTenant(j) \/ ReadTicket(j) \/ StampMessage(j)
    BY <2>2 DEF ReadTenant, ReadTicket, StampMessage, NothingCommitted, tenantVars
  <2>3. CASE LookupTenant(j) \/ CheckPending(j) \/ AbortJob(j)
    BY <2>3 DEF LookupTenant, CheckPending, AbortJob, NothingCommitted, tenantVars
  <2>4. QED
    BY <2>1, <2>2, <2>3
<1>3. SUFFICES /\ OthersAsTheyWere(j)
               /\ Owing(jobs'[j]) => Owing(jobs[j]) /\ jobs'[j].kind = jobs[j].kind
               /\ Honest(jobs'[j], removed)
  BY <1>2 DEF Quiet
<1>4. CASE Start(j)
  BY <1>1, <1>4, StartedJob DEF Started, Begins, Owing, Honest
<1>5. CASE Ended(j)
  BY <1>5, IdleHonest DEF Ended
<1>6. CASE ReadTenant(j) /\ MovedOn(j, "remove")
  BY <1>6 DEF ReadTenant, MovedOn, Owing, Honest
<1>7. CASE ReadTicket(j) /\ MovedOn(j, "stamp")
  BY <1>7 DEF ReadTicket, MovedOn, Owing, Honest
<1>8. CASE StampMessage(j) /\ MovedOn(j, "send")
  BY <1>1, <1>8 DEF StampMessage, At, MovedOn, Owing, Honest
<1>9. CASE LookupTenant(j) /\ MovedOn(j, "audit")
  BY <1>1, <1>9 DEF LookupTenant, At, MovedOn, Owing, Honest
<1>10. CASE CheckPending(j) /\ MovedOn(j, "invite")
  BY <1>1, <1>10 DEF CheckPending, At, MovedOn, Owing, Honest
<1>11. QED
  BY <1>1, <1>4, <1>5, <1>6, <1>7, <1>8, <1>9, <1>10, Ways

(* Statements that commit, unless they find their row gone or taken. *)
LEMMA CommitSteps ==
  ASSUME DeskInv, JournalInv, NEW j \in Job,
         \/ InsertTenant(j) \/ UpdateTenant(j) \/ UpdateTicket(j) \/ InsertMessage(j)
         \/ InsertInvitation(j) \/ SaveTemplate(j)
  PROVE  Quiet(j) \/ Commits(j)
<1>1. jobs \in [Job -> JobState] /\ Honest(jobs[j], removed)
  BY DEF DeskInv, JobsOK, JournalInv
<1>2. UNCHANGED <<journal, removed>>
  <2>1. CASE InsertTenant(j)
    BY <2>1 DEF InsertTenant, CreateTenant, tenantVars
  <2>2. CASE UpdateTenant(j)
    BY <2>2 DEF UpdateTenant, UpdateTenantStatus, SetTenantActivationCode, tenantVars
  <2>3. CASE UpdateTicket(j) \/ InsertMessage(j)
    BY <2>3 DEF UpdateTicket, InsertMessage, tenantVars
  <2>4. CASE InsertInvitation(j) \/ SaveTemplate(j)
    BY <2>4 DEF InsertInvitation, SaveTemplate, tenantVars
  <2>5. QED
    BY <2>1, <2>2, <2>3, <2>4
<1>3. CASE Finish(j) /\ UNCHANGED effects
  <2>1. Ended(j)
    BY <1>1, <1>3 DEF Finish, Ended, OthersAsTheyWere
  <2>2. QED
    BY <1>2, <1>3, <2>1, IdleHonest DEF Ended, Quiet
<1>4. CASE Committed(j)
  <2>1. jobs[j].kind # "delete"
    BY <1>1 DEF InsertTenant, UpdateTenant, UpdateTicket, InsertMessage, InsertInvitation,
                SaveTemplate, At, Honest, TicketKind
  <2>2. Ended(j) \/ MovedOn(j, "audit") \/ MovedOn(j, "lookup")
    BY <1>1, Ways
  <2>3. CASE Ended(j)
    BY <1>2, <1>4, <2>3, IdleHonest DEF Ended, Commits
  <2>4. CASE MovedOn(j, "audit") \/ MovedOn(j, "lookup")
    BY <1>2, <1>4, <2>1, <2>4 DEF MovedOn, Commits, Honest
  <2>5. QED
    BY <2>2, <2>3, <2>4
<1>5. QED
  BY <1>3, <1>4 DEF InsertTenant, UpdateTenant, UpdateTicket, InsertMessage, InsertInvitation,
                    SaveTemplate

LEMMA RemovalCommits ==
  ASSUME DeskInv, JournalInv, NEW j \in Job, RemoveTenant(j)
  PROVE  Commits(j)
<1>1. jobs \in [Job -> JobState] /\ jobs[j] \in JobState /\ jobs[j].kind = "delete"
  BY DEF DeskInv, JobsOK, JournalInv, Honest, RemoveTenant, At
<1>2. PICK q : q = [jobs[j] EXCEPT !.pc = "audit", !.named = TRUE]
  OBVIOUS
<1>3. jobs' = [jobs EXCEPT ![j] = q]
  BY <1>1, <1>2 DEF RemoveTenant
<1>4. q.tenant = jobs[j].tenant /\ q.kind = jobs[j].kind /\ q.pc = "audit"
  BY <1>1, <1>2 DEF JobState
<1>5. removed' = removed \cup {q.tenant}
  BY <1>4 DEF RemoveTenant, DeleteTenant
<1>6. Honest(q, removed')
  BY <1>4, <1>5 DEF Honest
<1>7. QED
  BY <1>1, <1>3, <1>4, <1>5, <1>6 DEF RemoveTenant, Commits, OthersAsTheyWere

LEMMA JournalKept ==
  ASSUME DeskInv, JournalInv, [Next]_vars
  PROVE  JournalInv'
<1>1. CASE UNCHANGED <<tenantVars, journal, deskVars>>
  BY <1>1 DEF tenantVars, deskVars, JournalInv, Covered, Written, Owed, Deleted
<1>2. ASSUME NEW j \in Job,
             \/ Start(j) \/ TenantStep(j) \/ TicketStep(j) \/ OtherStep(j)
             \/ WriteAuditLog(j) \/ AbortJob(j)
      PROVE  JournalInv'
  <2>1. Quiet(j) \/ Commits(j) \/ WriteAuditLog(j)
    BY <1>2, QuietSteps, CommitSteps, RemovalCommits DEF TenantStep, TicketStep, OtherStep
  <2>2. QED
    BY <2>1, QuietKeeps, CommitKeeps, WriteKeeps
<1>3. QED
  BY <1>1, <1>2 DEF Next, vars

LEMMA JournalHolds == Spec => []JournalInv
<1>1. Init => JournalInv
  <2> SUFFICES ASSUME Init  PROVE JournalInv
    OBVIOUS
  <2>1. \A j \in Job : jobs[j] = Idle
    BY DEF Init
  <2>2. \A kind \in Kind : Owed(kind) = {} /\ Written(kind) = {} /\ effects[kind] = 0
    BY <2>1, IdleHonest DEF Owed, Written, Init
  <2>3. \A kind \in Kind : Covered(kind)
    BY <2>2, FS_EmptySet DEF Covered
  <2>4. Deleted
    BY DEF Init, Deleted
  <2>5. QED
    BY <2>1, <2>3, <2>4, IdleHonest DEF JournalInv
<1>2. DeskInv /\ JournalInv /\ [Next]_vars => JournalInv'
  BY JournalKept
<1>3. QED
  BY <1>1, <1>2, DeskHolds, PTL DEF Spec

(* The journal claims no change that did not happen, however many jobs     *)
(* stop between their commit and their entry: of each kind but deletions   *)
(* there are no more entries than rows changed, and a client reported      *)
(* deleted is gone.                                                        *)
THEOREM JournalTruthful == Spec => []JournalClaimsWhatHappened
<1>1. DeskInv /\ JournalInv => JournalClaimsWhatHappened
  <2> SUFFICES ASSUME DeskInv, JournalInv  PROVE JournalClaimsWhatHappened
    OBVIOUS
  <2>1. ASSUME NEW kind \in Kind \ {"delete"}
        PROVE  Cardinality({i \in DOMAIN journal : journal[i].action = kind}) <= effects[kind]
    <3>1. PICK w, o : w = Cardinality(Written(kind)) /\ o = Cardinality(Owed(kind))
      OBVIOUS
    <3>2. w \in Nat /\ o \in Nat /\ w + o <= effects[kind] /\ effects[kind] \in Nat
      BY <3>1, FS_CardinalityType DEF JournalInv, Covered, DeskInv, RestOK
    <3>3. w <= effects[kind]
      BY <3>2
    <3>4. QED
      BY <3>1, <3>3 DEF Written
  <2>2. QED
    BY <2>1 DEF JournalClaimsWhatHappened, JournalInv, Deleted
<1>2. QED
  BY <1>1, DeskHolds, JournalHolds, PTL
---------------------------------------------------------------------------
(* Deletions.  Once a client is gone, ReadTenant sends nobody on to delete *)
(* it: the entries written about it and the calls that may still write one *)
(* are together at most the jobs there are.                                *)

Tells(q, t) == q.kind = "delete" /\ q.tenant = t /\ q.pc \in {"remove", "audit"}
Telling(t) == {j \in Job : Tells(jobs[j], t)}
Told(t) == {i \in DOMAIN journal : journal[i].action = "delete" /\ journal[i].tenant = t}

Bounded(t) ==
  IsFiniteSet(Told(t)) /\ Cardinality(Told(t)) + Cardinality(Telling(t)) <= Cardinality(Job)

OverlapInv == \A t \in removed : Bounded(t)

LEMMA TellersFinite ==
  ASSUME NEW t
  PROVE  /\ IsFiniteSet(Telling(t)) /\ Cardinality(Telling(t)) \in Nat
         /\ Cardinality(Telling(t)) <= Cardinality(Job) /\ Cardinality(Job) \in Nat
<1>1. PICK T : T = Telling(t)
  OBVIOUS
<1>2. T \in SUBSET Job
  BY <1>1 DEF Telling
<1>3. IsFiniteSet(T) /\ Cardinality(T) <= Cardinality(Job) /\ Cardinality(T) \in Nat
      /\ Cardinality(Job) \in Nat
  BY <1>2, InsideFinite, JobAssumption DEF JobAssumption
<1>4. QED
  BY <1>1, <1>3

LEMMA TellersFiniteNext ==
  ASSUME NEW t
  PROVE  /\ IsFiniteSet(Telling(t)') /\ Cardinality(Telling(t)') \in Nat
         /\ Cardinality(Telling(t)') <= Cardinality(Job) /\ Cardinality(Job) \in Nat
<1>1. PICK T : T = Telling(t)'
  OBVIOUS
<1>2. T \in SUBSET Job
  BY <1>1 DEF Telling
<1>3. IsFiniteSet(T) /\ Cardinality(T) <= Cardinality(Job) /\ Cardinality(T) \in Nat
      /\ Cardinality(Job) \in Nat
  BY <1>2, InsideFinite, JobAssumption DEF JobAssumption
<1>4. QED
  BY <1>1, <1>3

(* A step of j that writes nothing and sets j on no further entry. *)
LEMMA NoMoreTellers ==
  ASSUME NEW j \in Job, NEW t, OthersAsTheyWere(j), UNCHANGED journal,
         Tells(jobs'[j], t) => Tells(jobs[j], t), Bounded(t)
  PROVE  Bounded(t)'
<1>1. PICK T, U, W : T = Telling(t) /\ U = Telling(t)' /\ W = Told(t)
  OBVIOUS
<1>2. IsFiniteSet(T) /\ IsFiniteSet(W) /\ Cardinality(W) \in Nat
      /\ Cardinality(W) + Cardinality(T) <= Cardinality(Job) /\ Cardinality(Job) \in Nat
  BY <1>1, TellersFinite, FS_CardinalityType DEF Bounded
<1>3. U \in SUBSET T
  BY <1>1 DEF Telling, Tells, OthersAsTheyWere
<1>4. Cardinality(U) <= Cardinality(T) /\ Cardinality(U) \in Nat /\ Cardinality(T) \in Nat
  BY <1>2, <1>3, InsideFinite
<1>5. Told(t)' = W
  BY <1>1 DEF Told
<1>6. Cardinality(W) + Cardinality(U) <= Cardinality(Job)
  BY <1>2, <1>4
<1>7. IsFiniteSet(Told(t)') /\ Cardinality(Told(t)') + Cardinality(Telling(t)') <= Cardinality(Job)
  BY <1>1, <1>2, <1>5, <1>6
<1>8. QED
  BY <1>7 DEF Bounded

(* The step that removes the client's row: no entry tells of it yet. *)
LEMMA NoneTold ==
  ASSUME NEW t, Deleted, t \notin removed, UNCHANGED journal
  PROVE  Bounded(t)'
<1>1. Told(t)' = {}
  BY DEF Told, Deleted
<1>2. IsFiniteSet(Told(t)') /\ Cardinality(Told(t)') = 0
  BY <1>1, FS_EmptySet
<1>3. PICK u : u = Cardinality(Telling(t)')
  OBVIOUS
<1>4. u \in Nat /\ u <= Cardinality(Job) /\ Cardinality(Job) \in Nat
  BY <1>3, TellersFiniteNext
<1>5. 0 + u <= Cardinality(Job)
  BY <1>4
<1>6. QED
  BY <1>2, <1>3, <1>5 DEF Bounded

(* The write: j tells of the client no longer, and one entry more does. *)
LEMMA OneMoreTold ==
  ASSUME DeskInv, NEW j \in Job, WriteAuditLog(j), OthersAsTheyWere(j), jobs'[j] = Idle,
         NEW t, Bounded(t)
  PROVE  Bounded(t)'
<1>1. PICK n, entry : /\ n = Len(journal) + 1
                      /\ entry = [actor |-> jobs[j].actor, action |-> jobs[j].kind,
                                  tenant |-> jobs[j].tenant, named |-> jobs[j].named]
  OBVIOUS
<1>2. journal \in Seq(Entry) /\ journal' = Append(journal, entry)
  BY <1>1 DEF WriteAuditLog, DeskInv, JournalOK
<1>3. /\ Len(journal) \in Nat /\ DOMAIN journal = 1..Len(journal)
      /\ DOMAIN journal' = 1..n /\ journal'[n] = entry
      /\ \A i \in 1..Len(journal) : journal'[i] = journal[i]
  BY <1>1, <1>2
<1>4. PICK T, U, W, X : T = Telling(t) /\ U = Telling(t)' /\ W = Told(t) /\ X = Told(t)'
  OBVIOUS
<1>5. IsFiniteSet(T) /\ Cardinality(T) \in Nat /\ IsFiniteSet(W) /\ Cardinality(W) \in Nat
      /\ Cardinality(W) + Cardinality(T) <= Cardinality(Job) /\ Cardinality(Job) \in Nat
  BY <1>4, TellersFinite, FS_CardinalityType DEF Bounded
<1>6. U \in SUBSET (T \ {j})
  BY <1>4 DEF Telling, Tells, OthersAsTheyWere, Idle
<1>7. CASE Tells(jobs[j], t)
  <2>1. j \in T
    BY <1>4, <1>7 DEF Telling
  <2>2. IsFiniteSet(T \ {j}) /\ Cardinality(T \ {j}) = Cardinality(T) - 1
    BY <1>5, <2>1, FS_RemoveElement
  <2>3. Cardinality(U) \in Nat /\ Cardinality(U) <= Cardinality(T) - 1
    BY <1>6, <2>2, InsideFinite
  <2>4. X \in SUBSET (W \cup {n})
    BY <1>1, <1>3, <1>4 DEF Told
  <2>5. IsFiniteSet(W \cup {n}) /\ Cardinality(W \cup {n}) <= Cardinality(W) + 1
    BY <1>5, OneMore
  <2>6. IsFiniteSet(X) /\ Cardinality(X) \in Nat /\ Cardinality(X) <= Cardinality(W) + 1
    BY <1>5, <2>4, <2>5, InsideFinite
  <2>7. Cardinality(X) + Cardinality(U) <= Cardinality(Job)
    BY <1>5, <2>3, <2>6
  <2>8. QED
    BY <1>4, <2>6, <2>7 DEF Bounded
<1>8. CASE ~Tells(jobs[j], t)
  <2>1. U \in SUBSET T
    BY <1>6
  <2>2. Cardinality(U) \in Nat /\ Cardinality(U) <= Cardinality(T)
    BY <1>5, <2>1, InsideFinite
  <2>3. entry.action # "delete" \/ entry.tenant # t
    BY <1>1, <1>8 DEF Tells, WriteAuditLog, At
  <2>4. X \in SUBSET W
    BY <1>1, <1>3, <1>4, <2>3 DEF Told
  <2>5. IsFiniteSet(X) /\ Cardinality(X) \in Nat /\ Cardinality(X) <= Cardinality(W)
    BY <1>5, <2>4, InsideFinite
  <2>6. Cardinality(X) + Cardinality(U) <= Cardinality(Job)
    BY <1>5, <2>2, <2>5
  <2>7. QED
    BY <1>4, <2>5, <2>6 DEF Bounded
<1>9. QED
  BY <1>7, <1>8

(* Who is set on telling of a client: only a call that has read its row. *)
LEMMA OnlyReadersTell ==
  ASSUME DeskInv, JournalInv, NEW j \in Job, NEW t \in removed,
         \/ Start(j) \/ TenantStep(j) \/ TicketStep(j) \/ OtherStep(j) \/ AbortJob(j),
         Tells(jobs'[j], t)
  PROVE  Tells(jobs[j], t)
<1>1. jobs \in [Job -> JobState] /\ jobs[j] \in JobState /\ Honest(jobs[j], removed)
  BY DEF DeskInv, JobsOK, JournalInv
<1>2. ~Ended(j)
  BY DEF Ended, Tells, Idle
<1>3. ~Start(j)
  BY <1>1, StartedJob DEF Started, Begins, Tells
<1>4. CASE ReadTenant(j)
  <2>1. Goto(j, "remove") /\ TenantExists(jobs[j].tenant)
    BY <1>2, <1>4 DEF ReadTenant, Finish, Ended, OthersAsTheyWere, DeskInv, JobsOK
  <2>2. jobs'[j].tenant = jobs[j].tenant
    BY <1>1, <2>1 DEF Goto, JobState
  <2>3. t \in DOMAIN tenants
    BY <2>1, <2>2 DEF Tells, TenantExists
  <2>4. QED
    BY <2>3 DEF DeskInv, TenantsOK, TenantsTypeOK
<1>5. CASE RemoveTenant(j)
  <2>1. PICK q : q = [jobs[j] EXCEPT !.pc = "audit", !.named = TRUE]
    OBVIOUS
  <2>2. q.tenant = jobs[j].tenant /\ q.kind = jobs[j].kind
    BY <1>1, <2>1 DEF JobState
  <2>3. jobs'[j] = q
    BY <1>1, <2>1, <1>5 DEF RemoveTenant
  <2>4. QED
    BY <1>5, <2>2, <2>3 DEF Tells, RemoveTenant, At
<1>6. CASE \/ InsertTenant(j) \/ UpdateTenant(j) \/ UpdateTicket(j) \/ InsertMessage(j)
           \/ InsertInvitation(j) \/ SaveTemplate(j) \/ LookupTenant(j)
  <2>1. jobs[j].kind # "delete"
    BY <1>1, <1>6 DEF InsertTenant, UpdateTenant, UpdateTicket, InsertMessage, InsertInvitation,
                SaveTemplate, LookupTenant, At, Honest, TicketKind
  <2>2. MovedOn(j, "audit") \/ MovedOn(j, "lookup")
    BY <1>1, <1>2, <1>6, Ways
  <2>3. QED
    BY <2>1, <2>2 DEF MovedOn, Tells
<1>7. CASE ReadTicket(j) \/ StampMessage(j) \/ CheckPending(j)
  <2>1. MovedOn(j, "stamp") \/ MovedOn(j, "send") \/ MovedOn(j, "invite")
    BY <1>1, <1>2, <1>7, Ways
  <2>2. QED
    BY <2>1 DEF MovedOn, Tells
<1>8. ~AbortJob(j)
  BY <1>1, <1>2, Ways
<1>9. QED
  BY <1>3, <1>4, <1>5, <1>6, <1>7, <1>8 DEF TenantStep, TicketStep, OtherStep

LEMMA OverlapKept ==
  ASSUME DeskInv, JournalInv, OverlapInv, [Next]_vars
  PROVE  OverlapInv'
<1>1. CASE UNCHANGED <<tenantVars, journal, deskVars>>
  BY <1>1 DEF tenantVars, deskVars, OverlapInv, Bounded, Told, Telling
<1>2. ASSUME NEW j \in Job,
             \/ Start(j) \/ TenantStep(j) \/ TicketStep(j) \/ OtherStep(j) \/ AbortJob(j)
      PROVE  OverlapInv'
  <2>1. Quiet(j) \/ Commits(j)
    BY <1>2, QuietSteps, CommitSteps, RemovalCommits DEF TenantStep, TicketStep, OtherStep
  <2>2. OthersAsTheyWere(j) /\ UNCHANGED journal
    BY <2>1 DEF Quiet, Commits
  <2>3. ASSUME NEW t \in removed'  PROVE Bounded(t)'
    <3>1. CASE t \in removed
      BY <1>2, <2>2, <3>1, NoMoreTellers, OnlyReadersTell DEF OverlapInv
    <3>2. CASE t \notin removed
      BY <2>2, <3>2, NoneTold DEF JournalInv
    <3>3. QED
      BY <3>1, <3>2
  <2>4. QED
    BY <2>3 DEF OverlapInv
<1>3. ASSUME NEW j \in Job, WriteAuditLog(j)
      PROVE  OverlapInv'
  <2>1. OthersAsTheyWere(j) /\ jobs'[j] = Idle
    BY <1>3, Ways DEF Ended, DeskInv, JobsOK
  <2>2. UNCHANGED removed
    BY <1>3 DEF WriteAuditLog, NothingCommitted, tenantVars
  <2>3. QED
    BY <1>3, <2>1, <2>2, OneMoreTold DEF OverlapInv
<1>4. QED
  BY <1>1, <1>2, <1>3 DEF Next, vars

(* One client's deletion is told of by no more entries than calls can be   *)
(* under way at once, for every number of jobs: Delete reads the client    *)
(* first, and no call that begins after the row is gone gets past that.    *)
THEOREM DeletionToldByOverlap == Spec => []DeletionClaimedByOverlap
<1>1. Init => OverlapInv
  BY DEF Init, OverlapInv
<1>2. DeskInv /\ JournalInv /\ OverlapInv /\ [Next]_vars => OverlapInv'
  BY OverlapKept
<1>3. ASSUME OverlapInv  PROVE DeletionClaimedByOverlap
  <2> SUFFICES ASSUME NEW t \in removed
               PROVE  Cardinality(Told(t)) <= Cardinality(Job)
    BY DEF DeletionClaimedByOverlap, Told
  <2>1. PICK w, u : w = Cardinality(Told(t)) /\ u = Cardinality(Telling(t))
    OBVIOUS
  <2>2. w \in Nat /\ u \in Nat /\ Cardinality(Job) \in Nat /\ w + u <= Cardinality(Job)
    BY <1>3, <2>1, TellersFinite, FS_CardinalityType DEF OverlapInv, Bounded
  <2>3. w <= Cardinality(Job)
    BY <2>2
  <2>4. QED
    BY <2>1, <2>3
<1>4. QED
  BY <1>1, <1>2, <1>3, DeskHolds, JournalHolds, PTL DEF Spec
=============================================================================
