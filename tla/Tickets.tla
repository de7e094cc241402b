------------------------------ MODULE Tickets ------------------------------
(***************************************************************************)
(* Tables support_tickets and support_ticket_messages with their foreign   *)
(* keys, and the trigger that keeps last_message_at.  The seed alone       *)
(* inserts tickets; the messages it gives them are older than anything the *)
(* model shows and are left out (lastMessage = 0).                         *)
(***************************************************************************)
EXTENDS Tenants

CONSTANTS Message,   \* ids of the messages the team sends
          TicketOf   \* the seed's tickets: ticket id -> tenant

Ticket == DOMAIN TicketOf
ASSUME TicketOfAssumption == TicketOf \in [Ticket -> Tenant]

VARIABLES tickets, messages
ticketVars == <<tickets, messages>>

TicketStatus == {"open", "in_progress", "resolved", "closed"}
TicketPriority == {"low", "normal", "high"}

TicketRow == [tenant : Tenant, status : TicketStatus, priority : TicketPriority,
              assignee : User \cup {None}, lastMessage : Nat]

\* stored is a history field: the instant the INSERT took effect.
MessageRow == [ticket : Ticket, author : User, sent : Nat, stored : Nat]

TicketsTypeOK ==
  /\ tickets \in [DOMAIN tickets -> TicketRow]
  /\ DOMAIN tickets \subseteq Ticket
  /\ messages \in [DOMAIN messages -> MessageRow]
  /\ DOMAIN messages \subseteq Message

TicketsInit ==
  /\ tickets = [k \in Ticket |-> [tenant |-> TicketOf[k], status |-> "open",
                                  priority |-> "normal", assignee |-> None,
                                  lastMessage |-> 0]]
  /\ messages = EmptyTable

---------------------------------------------------------------------------
TicketExists(k) == k \in DOMAIN tickets

SetTicket(k, row) == tickets' = [tickets EXCEPT ![k] = row] /\ UNCHANGED messages

UpdateTicketStatus(k, s) == SetTicket(k, [tickets[k] EXCEPT !.status = s])
UpdateTicketPriority(k, p) == SetTicket(k, [tickets[k] EXCEPT !.priority = p])
AssignTicket(k, u) == SetTicket(k, [tickets[k] EXCEPT !.assignee = u])

InsertRow(m, k, author, sent) ==
  messages' = [o \in DOMAIN messages \cup {m} |->
                 IF o = m THEN [ticket |-> k, author |-> author, sent |-> sent,
                                stored |-> clock]
                          ELSE messages[o]]

\* Mutant: the trigger writes the ticket only while it is open.
CreateMessageOnOpen(m, k, author, sent) ==
  /\ m \notin DOMAIN messages
  /\ InsertRow(m, k, author, sent)
  /\ tickets' = IF tickets[k].status = "open"
                THEN [tickets EXCEPT ![k].lastMessage = sent] ELSE tickets

\* The INSERT and its trigger touch_ticket_last_message, which copies sent_at
\* whatever last_message_at was.
CreateTicketMessage(m, k, author, sent) ==
  /\ m \notin DOMAIN messages
  /\ InsertRow(m, k, author, sent)
  /\ tickets' = [tickets EXCEPT ![k].lastMessage = sent]

\* ON DELETE CASCADE, from tenants to tickets to their messages.
CascadeDelete(t) ==
  LET kept == {k \in DOMAIN tickets : tickets[k].tenant # t} IN
  /\ tickets' = [k \in kept |-> tickets[k]]
  /\ messages' = [m \in {o \in DOMAIN messages : messages[o].ticket \in kept} |-> messages[m]]
===========================================================================
