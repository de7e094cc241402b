-------------------------------- MODULE Desk --------------------------------
(***************************************************************************)
(* The panel's daily work: the Tenant, Ticket, Settings and Team.Invite    *)
(* usecases over one database.  A job is one goroutine serving one call    *)
(* that middleware.Auth and middleware.Require let through; each statement *)
(* it issues is a step, other jobs run in between, and the journal entry   *)
(* is written after the change has been committed.                         *)
(***************************************************************************)
EXTENDS Tickets, Invitations, Authz, FiniteSets

CONSTANTS Job,        \* job slots
          ClaimedRole,\* the role in each member's access token
          SetTo,      \* statuses, priorities and roles that operators choose
          JobBound    \* bound: how many jobs ever start

ASSUME ClaimedRoleAssumption == ClaimedRole \in [User -> Role]
ASSUME JobBoundAssumption == JobBound \in Nat
ASSUME JobAssumption == IsFiniteSet(Job)

VARIABLES jobs,      \* the local variables of every job
          journal,   \* table audit_logs, in order of insertion
          template,  \* the row of message_templates
          \* history
          started,   \* jobs started so far
          effects    \* changes committed so far, by kind

deskVars == <<jobs, started, effects>>
vars == <<clock, tenantVars, ticketVars, invitations, journal, template, deskVars>>

\* router.go: the resource and the action each route requires.
Route == [create   |-> <<"tenant", "create">>,
          suspend  |-> <<"tenant", "suspend">>,
          resume   |-> <<"tenant", "suspend">>,
          code     |-> <<"tenant", "update">>,
          delete   |-> <<"tenant", "delete">>,
          reply    |-> <<"support_ticket", "create">>,
          assign   |-> <<"support_ticket", "update">>,
          status   |-> <<"support_ticket", "update">>,
          priority |-> <<"support_ticket", "update">>,
          invite   |-> <<"super_admin", "create">>,
          template |-> <<"settings", "update">>]

Kind == DOMAIN Route
TicketKind == {"reply", "assign", "status", "priority"}

\* Mutant: the group's readers let in everywhere.
PermitsReaders(actor, kind) == Can(ClaimedRole[actor], Route[kind][1], "read")

Permits(actor, kind) == Can(ClaimedRole[actor], Route[kind][1], Route[kind][2])

PC == {"idle", "insert", "read", "update", "remove", "stamp", "send",
       "pending", "invite", "save", "lookup", "audit"}

\* at: the instant the usecase read.  choice: the chosen role, status or priority.
\* sent: now() of the statement that inserts a reply.  named: whether the journal
\* entry will carry the client's name.
JobState == [pc : PC, kind : Kind \cup {None}, actor : User \cup {None}, at : Nat,
             tenant : Tenant \cup {None}, ticket : Ticket \cup {None},
             email : Email \cup Invitee \cup {None},
             days : TrialDays \cup {0}, sent : Nat,
             choice : InvitableRole \cup TicketStatus \cup TicketPriority \cup {None},
             named : BOOLEAN]

Idle == [pc |-> "idle", kind |-> None, actor |-> None, at |-> 0, tenant |-> None,
         ticket |-> None, email |-> None, days |-> 0, sent |-> 0, choice |-> None,
         named |-> FALSE]

\* created_at is left out: no property is about the order of the journal.
Entry == [actor : User, action : Kind, tenant : Tenant \cup {None}, named : BOOLEAN]

Init ==
  /\ clock = 0
  /\ \E email \in [{TicketOf[k] : k \in Ticket} -> Email] :
       /\ \A s, t \in DOMAIN email : email[s] = email[t] => s = t
       /\ tenants = [t \in DOMAIN email |->
            [email |-> email[t], status |-> "active", trialEnds |-> 0,
             reason |-> FALSE, codeExpires |-> 0]]
  /\ removed = {}
  /\ TicketsInit
  /\ invitations = <<>> /\ journal = <<>>
  /\ template = [by |-> None, at |-> 0]
  /\ jobs = [j \in Job |-> Idle]
  /\ started = 0
  /\ effects = [k \in Kind |-> 0]

---------------------------------------------------------------------------
At(j, pc) == jobs[j].pc = pc
Goto(j, pc) == jobs' = [jobs EXCEPT ![j].pc = pc]
Finish(j) == jobs' = [jobs EXCEPT ![j] = Idle]
Committed(j) == effects' = [effects EXCEPT ![jobs[j].kind] = @ + 1]
NothingCommitted == UNCHANGED <<tenantVars, ticketVars, invitations, template, effects>>

Begin(j, actor, kind, state) ==
  /\ started < JobBound
  /\ Permits(actor, kind)
  /\ At(j, "idle")
  /\ jobs' = [jobs EXCEPT ![j] = [state EXCEPT !.actor = actor, !.kind = kind, !.at = clock]]
  /\ started' = started + 1
  /\ NothingCommitted
  /\ UNCHANGED journal

---------------------------------------------------------------------------
(* Tenant usecase *)

StartCreate(j, actor) == \E email \in Email, days \in TrialDays :
  Begin(j, actor, "create", [Idle EXCEPT !.pc = "insert", !.email = email, !.days = days])

\* The client is picked from a list that may have gone stale.
StartOnTenant(j, actor) == \E t \in DOMAIN tenants \cup removed :
  \/ \E kind \in {"suspend", "resume", "code"} :
       Begin(j, actor, kind, [Idle EXCEPT !.pc = "update", !.tenant = t])
  \/ Begin(j, actor, "delete", [Idle EXCEPT !.pc = "read", !.tenant = t])

InsertTenant(j) ==
  /\ At(j, "insert")
  /\ \/ TenantEmailTaken(jobs[j].email) /\ Finish(j) /\ UNCHANGED <<tenantVars, effects>>
     \/ /\ ~TenantEmailTaken(jobs[j].email)
        /\ \E t \in Tenant :
             /\ CreateTenant(t, jobs[j].email, jobs[j].days, jobs[j].at)
             /\ jobs' = [jobs EXCEPT ![j].pc = "audit", ![j].tenant = t, ![j].named = TRUE]
        /\ Committed(j)
  /\ UNCHANGED <<ticketVars, invitations, template, journal, started>>

\* Mutant: the error of an UPDATE that found no row is dropped.
UpdateTenantCarelessly(j) ==
  LET t == jobs[j].tenant IN
  /\ At(j, "update") /\ jobs[j].kind \in {"suspend", "resume", "code"}
  /\ jobs' = [jobs EXCEPT ![j].pc = "audit", ![j].named = TRUE]
  /\ IF TenantExists(t)
     THEN /\ Committed(j)
          /\ CASE jobs[j].kind = "suspend" -> UpdateTenantStatus(t, "paused")
               [] jobs[j].kind = "resume"  -> UpdateTenantStatus(t, "active")
               [] jobs[j].kind = "code"    -> SetTenantActivationCode(t, jobs[j].at + CodeTTL)
     ELSE UNCHANGED <<tenantVars, effects>>
  /\ UNCHANGED <<ticketVars, invitations, template, journal, started>>

\* Suspend, Resume, IssueActivationCode: one UPDATE ... RETURNING.
UpdateTenant(j) ==
  LET t == jobs[j].tenant IN
  /\ At(j, "update") /\ jobs[j].kind \in {"suspend", "resume", "code"}
  /\ \/ ~TenantExists(t) /\ Finish(j) /\ UNCHANGED <<tenantVars, effects>>
     \/ /\ TenantExists(t)
        /\ CASE jobs[j].kind = "suspend" -> UpdateTenantStatus(t, "paused")
             [] jobs[j].kind = "resume"  -> UpdateTenantStatus(t, "active")
             [] jobs[j].kind = "code"    -> SetTenantActivationCode(t, jobs[j].at + CodeTTL)
        /\ jobs' = [jobs EXCEPT ![j].pc = "audit", ![j].named = TRUE]
        /\ Committed(j)
  /\ UNCHANGED <<ticketVars, invitations, template, journal, started>>

\* Mutant: Delete goes on when GetByID finds no row.
ReadTenantUnheeded(j) ==
  /\ At(j, "read") /\ jobs[j].kind = "delete"
  /\ Goto(j, "remove")
  /\ NothingCommitted
  /\ UNCHANGED <<journal, started>>

\* Delete reads the row first, for the name in the journal entry.
ReadTenant(j) ==
  /\ At(j, "read") /\ jobs[j].kind = "delete"
  /\ IF TenantExists(jobs[j].tenant) THEN Goto(j, "remove") ELSE Finish(j)
  /\ NothingCommitted
  /\ UNCHANGED <<journal, started>>

\* The statement reports no rows: a DELETE that finds none changes nothing, and
\* the entry is written all the same.
RemoveTenant(j) ==
  /\ At(j, "remove")
  /\ DeleteTenant(jobs[j].tenant)
  /\ CascadeDelete(jobs[j].tenant)
  /\ IF TenantExists(jobs[j].tenant) THEN Committed(j) ELSE UNCHANGED effects
  /\ jobs' = [jobs EXCEPT ![j].pc = "audit", ![j].named = TRUE]
  /\ UNCHANGED <<invitations, template, journal, started>>

---------------------------------------------------------------------------
(* Ticket usecase *)

StartOnTicket(j, actor) == \E k \in Ticket :
  \/ Begin(j, actor, "reply", [Idle EXCEPT !.pc = "read", !.ticket = k])
  \/ Begin(j, actor, "assign", [Idle EXCEPT !.pc = "update", !.ticket = k])
  \/ \E s \in SetTo \cap TicketStatus :
       Begin(j, actor, "status", [Idle EXCEPT !.pc = "update", !.ticket = k, !.choice = s])
  \/ \E p \in SetTo \cap TicketPriority :
       Begin(j, actor, "priority", [Idle EXCEPT !.pc = "update", !.ticket = k, !.choice = p])

UpdateTicket(j) ==
  LET k == jobs[j].ticket IN
  /\ At(j, "update") /\ jobs[j].kind \in TicketKind
  /\ \/ ~TicketExists(k) /\ Finish(j) /\ UNCHANGED <<ticketVars, effects>>
     \/ /\ TicketExists(k)
        /\ CASE jobs[j].kind = "assign"   -> AssignTicket(k, jobs[j].actor)
             [] jobs[j].kind = "status"   -> UpdateTicketStatus(k, jobs[j].choice)
             [] jobs[j].kind = "priority" -> UpdateTicketPriority(k, jobs[j].choice)
        /\ jobs' = [jobs EXCEPT ![j].pc = "lookup", ![j].tenant = tickets[k].tenant]
        /\ Committed(j)
  /\ UNCHANGED <<tenantVars, invitations, template, journal, started>>

\* Reply: GetByID; the reads of the thread and of the author change nothing.
ReadTicket(j) ==
  LET k == jobs[j].ticket IN
  /\ At(j, "read") /\ jobs[j].kind = "reply"
  /\ IF TicketExists(k)
     THEN jobs' = [jobs EXCEPT ![j].pc = "stamp", ![j].tenant = tickets[k].tenant]
     ELSE Finish(j)
  /\ NothingCommitted
  /\ UNCHANGED <<journal, started>>

\* sent_at is now(): the start of the statement's transaction.
StampMessage(j) ==
  /\ At(j, "stamp")
  /\ jobs' = [jobs EXCEPT ![j].pc = "send", ![j].sent = clock]
  /\ NothingCommitted
  /\ UNCHANGED <<journal, started>>

\* Mutant: support_ticket_messages.ticket_id without its REFERENCES.
InsertMessageAnywhere(j) ==
  LET k == jobs[j].ticket IN
  /\ At(j, "send")
  /\ \E m \in Message \ DOMAIN messages : InsertRow(m, k, jobs[j].actor, jobs[j].sent)
  /\ tickets' = IF TicketExists(k) THEN [tickets EXCEPT ![k].lastMessage = jobs[j].sent] ELSE tickets
  /\ Goto(j, "lookup")
  /\ Committed(j)
  /\ UNCHANGED <<tenantVars, invitations, template, journal, started>>

\* The rest of that transaction; a vanished ticket is a foreign key violation.
InsertMessage(j) ==
  LET k == jobs[j].ticket IN
  /\ At(j, "send")
  /\ \/ ~TicketExists(k) /\ Finish(j) /\ UNCHANGED <<ticketVars, effects>>
     \/ /\ TicketExists(k)
        /\ \E m \in Message : CreateTicketMessage(m, k, jobs[j].actor, jobs[j].sent)
        /\ Goto(j, "lookup")
        /\ Committed(j)
  /\ UNCHANGED <<tenantVars, invitations, template, journal, started>>

\* Ticket.writeAudit reads the client again and goes on without its name when
\* it is gone or when the read fails.
LookupTenant(j) ==
  /\ At(j, "lookup")
  /\ \E named \in BOOLEAN :
       /\ named => TenantExists(jobs[j].tenant)
       /\ jobs' = [jobs EXCEPT ![j].pc = "audit", ![j].named = named]
  /\ NothingCommitted
  /\ UNCHANGED <<journal, started>>

---------------------------------------------------------------------------
(* Team.Invite and Settings.SaveTemplate *)

\* Mutant: the test of invitableRoles dropped.
StartInviteAnyRole(j, actor) == \E email \in Invitee, role \in Role \cap SetTo :
  Begin(j, actor, "invite", [Idle EXCEPT !.pc = "pending", !.email = email, !.choice = role])

\* invitableRoles; GetByEmail: members of the team are not in Invitee.
StartInvite(j, actor) == \E email \in Invitee, role \in InvitableRole \cap SetTo :
  Begin(j, actor, "invite", [Idle EXCEPT !.pc = "pending", !.email = email, !.choice = role])

\* now is read once HasPending has answered.
CheckPending(j) ==
  /\ At(j, "pending")
  /\ IF HasPending(jobs[j].email) THEN Finish(j)
     ELSE jobs' = [jobs EXCEPT ![j].pc = "invite", ![j].at = clock]
  /\ NothingCommitted
  /\ UNCHANGED <<journal, started>>

InsertInvitation(j) ==
  /\ At(j, "invite")
  /\ \/ HasPending(jobs[j].email) /\ Finish(j) /\ UNCHANGED <<invitations, effects>>
     \/ /\ CreateInvitation(jobs[j].email, jobs[j].choice, jobs[j].at)
        /\ Goto(j, "audit")
        /\ Committed(j)
  /\ UNCHANGED <<tenantVars, ticketVars, template, journal, started>>

StartTemplate(j, actor) == Begin(j, actor, "template", [Idle EXCEPT !.pc = "save"])

SaveTemplate(j) ==
  /\ At(j, "save")
  /\ template' = [by |-> jobs[j].actor, at |-> jobs[j].at]
  /\ Goto(j, "audit")
  /\ Committed(j)
  /\ UNCHANGED <<tenantVars, ticketVars, invitations, journal, started>>

---------------------------------------------------------------------------
WriteAuditLog(j) ==
  /\ At(j, "audit")
  /\ journal' = Append(journal, [actor |-> jobs[j].actor, action |-> jobs[j].kind,
                                 tenant |-> jobs[j].tenant, named |-> jobs[j].named])
  /\ Finish(j)
  /\ NothingCommitted
  /\ UNCHANGED started

\* A statement fails, the client goes away or the process dies; at "audit" also
\* the journal's own failure, which every usecase ignores.
AbortJob(j) ==
  /\ ~At(j, "idle")
  /\ Finish(j)
  /\ NothingCommitted
  /\ UNCHANGED <<journal, started>>

Start(j) == \E actor \in User :
  \/ StartCreate(j, actor) \/ StartOnTenant(j, actor) \/ StartOnTicket(j, actor)
  \/ StartInvite(j, actor) \/ StartTemplate(j, actor)

TenantStep(j) == InsertTenant(j) \/ UpdateTenant(j) \/ ReadTenant(j) \/ RemoveTenant(j)
TicketStep(j) == UpdateTicket(j) \/ ReadTicket(j) \/ StampMessage(j) \/ InsertMessage(j) \/ LookupTenant(j)
OtherStep(j) == CheckPending(j) \/ InsertInvitation(j) \/ SaveTemplate(j)

Next ==
  \/ /\ Tick
     /\ UNCHANGED <<tenantVars, ticketVars, invitations, journal, template, deskVars>>
  \/ \E j \in Job : /\ \/ Start(j) \/ TenantStep(j) \/ TicketStep(j) \/ OtherStep(j)
                       \/ WriteAuditLog(j) \/ AbortJob(j)
                    /\ UNCHANGED clock

Spec == Init /\ [][Next]_vars

---------------------------------------------------------------------------
TypeOK ==
  /\ clock \in 0..MaxTime
  /\ TenantsTypeOK /\ TicketsTypeOK /\ InvitationsTypeOK
  /\ journal \in Seq(Entry)
  /\ template \in [by : User \cup {None}, at : Nat]
  /\ jobs \in [Job -> JobState]
  /\ started \in 0..JobBound
  /\ effects \in [Kind -> Nat]

(* A ticket belongs to a client that exists and a message to a ticket that *)
(* exists, although replies run across the deletion of the client.         *)
NoOrphans ==
  /\ \A k \in DOMAIN tickets : TenantExists(tickets[k].tenant)
  /\ \A m \in DOMAIN messages : TicketExists(messages[m].ticket)

(* Two clients never share an email, and two invitations that both found   *)
(* none pending never both hand out an activation token: what the earlier  *)
(* check answered may be out of date by the time of the INSERT.            *)
EmailsStayUnique ==
  /\ \A s, t \in DOMAIN tenants : tenants[s].email = tenants[t].email => s = t
  /\ \A i, j \in DOMAIN invitations : invitations[i].email = invitations[j].email => i = j

(* The journal claims no change that did not happen: of each kind but the  *)
(* deletions there are no more entries than rows changed, in spite of      *)
(* crashes and of writes that find their row gone; and a client reported   *)
(* deleted is gone.                                                        *)
JournalClaimsWhatHappened ==
  /\ \A kind \in Kind \ {"delete"} :
       Cardinality({i \in DOMAIN journal : journal[i].action = kind}) <= effects[kind]
  /\ \A i \in DOMAIN journal :
       journal[i].action = "delete" => journal[i].tenant \in removed

(* One deletion may be journaled more than once, as the deed of several    *)
(* members: tenant.go:124-136 reads the client, deletes it and writes the  *)
(* entry whether or not the DELETE found a row.  Only calls that had read  *)
(* the client before it went do so: there are never more entries about one *)
(* client's deletion than calls that can be under way at once.             *)
DeletionClaimedByOverlap ==
  \A t \in removed :
    Cardinality({i \in DOMAIN journal : journal[i].action = "delete" /\ journal[i].tenant = t})
      <= Cardinality(Job)

Duty(actor, kind) ==
  CASE ClaimedRole[actor] = "owner"   -> TRUE
    [] ClaimedRole[actor] = "admin"   -> kind # "invite"
    [] ClaimedRole[actor] = "support" -> kind \in TicketKind
    [] ClaimedRole[actor] = "viewer"  -> FALSE

(* Comment of defaultPolicy: only owners build the team, support works on  *)
(* tickets and nothing else, a viewer changes nothing.  So it is for every *)
(* call under way and for everything the journal tells of.                 *)
RolesKeepToTheirDuties ==
  /\ \A j \in Job : ~At(j, "idle") => Duty(jobs[j].actor, jobs[j].kind)
  /\ \A i \in DOMAIN journal : Duty(journal[i].actor, journal[i].action)

(* last_message_at is the instant of one of the ticket's messages, and a   *)
(* message newer than it was still being inserted at its own instant when  *)
(* that other one was stored: the stamp lags only behind replies that      *)
(* overlapped.                                                             *)
StampLagsOnlyUnderOverlap ==
  \A m \in DOMAIN messages : \E n \in DOMAIN messages :
    /\ messages[n].ticket = messages[m].ticket
    /\ messages[n].sent = tickets[messages[m].ticket].lastMessage
    /\ messages[n].stored >= messages[m].sent

(* What migration 0004 says of last_message_at: the trigger keeps it up to *)
(* date, so that the list is sorted by each ticket's last message.         *)
StampIsNewest ==
  \A m \in DOMAIN messages : messages[m].sent <= tickets[messages[m].ticket].lastMessage
===========================================================================
