------------------------------- MODULE Stores -------------------------------
(***************************************************************************)
(* What the panel's calls meet on the other side: the demonstration stores *)
(* of the mock.ts files and, for the same calls, the backend, which differs *)
(* in what it refuses.  A state has the clients, tickets, active members,  *)
(* open invitations and the message template; other columns are left out.  *)
(***************************************************************************)
EXTENDS Panel

ClientCall == {"suspend", "resume", "issue"}
TicketCall == {"reply", "status", "assign", "priority"}

\* Ids of clients are never used twice.
UnusedClients == Client \ UNION {DOMAIN past[v].clients : v \in 1..Now}
CreatesUnderWay == Cardinality({s \in Slot : writes[s].op = "create" /\ writes[s].at = "sent"})
Taken(db, email) == \E c \in DOMAIN db.clients : db.clients[c].email = email

Created(db, c, email, days) ==
  [db EXCEPT !.clients = [id \in DOMAIN db.clients \cup {c} |->
     IF id = c THEN [status |-> IF days > 0 THEN "trial" ELSE "active", email |-> email, code |-> 1]
               ELSE db.clients[id]]]
Suspended(db, c) == [db EXCEPT !.clients[c].status = "paused"]
Resumed(db, c) == [db EXCEPT !.clients[c].status = "active"]
CodeIssued(db, c) == [db EXCEPT !.clients[c].code = @ + 1]

\* The tickets of a client go with it; tickets/mock.ts knows nothing of that.
Removed(db, c) ==
  [db EXCEPT !.clients = [id \in DOMAIN db.clients \ {c} |-> db.clients[id]],
             !.tickets = [t \in {k \in DOMAIN db.tickets : mock \/ db.tickets[k].client # c} |->
                            db.tickets[t]]]

Ticketed(db, w) ==
  CASE w.op = "reply" -> [db EXCEPT !.tickets[w.on].messages = @ + 1]
    [] w.op = "status" -> [db EXCEPT !.tickets[w.on].status = "resolved"]
    [] w.op = "assign" -> [db EXCEPT !.tickets[w.on].assignee = "me"]
    [] w.op = "priority" -> [db EXCEPT !.tickets[w.on].priority = w.arg]

\* A member who is gone keeps a row the list does not show.
RoleChanged(db, m, role) == IF m \in DOMAIN db.team THEN [db EXCEPT !.team[m] = role] ELSE db
Revoked(db, m) == [db EXCEPT !.team = [o \in DOMAIN db.team \ {m} |-> db.team[o]]]
IsOwner(db, m) == m \in DOMAIN db.team /\ db.team[m] = "owner"

\* The rules of the backend and of the mock stores.
Refuses(db, w) ==
  CASE w.op = "create" -> ~mock /\ Taken(db, w.arg.email)
    [] w.op \in ClientCall -> w.on \notin DOMAIN db.clients
    [] w.op = "delete" -> ~mock /\ w.on \notin DOMAIN db.clients
    [] w.op \in TicketCall -> mock \/ w.on \notin DOMAIN db.tickets
    [] w.op = "role" -> IsOwner(db, w.on) \/ (mock /\ w.on \notin DOMAIN db.team)
    [] w.op = "revoke" -> ~mock /\ IsOwner(db, w.on)
    [] w.op = "invite" -> ~mock /\ w.arg \in db.invited
    [] OTHER -> FALSE

Applied(db, w) ==
  CASE w.op = "create" -> Created(db, w.on, w.arg.email, w.arg.days)
    [] w.op = "suspend" -> Suspended(db, w.on)
    [] w.op = "resume" -> Resumed(db, w.on)
    [] w.op = "issue" -> CodeIssued(db, w.on)
    [] w.op = "delete" -> Removed(db, w.on)
    [] w.op \in TicketCall -> Ticketed(db, w)
    [] w.op = "role" -> RoleChanged(db, w.on, w.arg)
    [] w.op = "revoke" -> IF IsOwner(db, w.on) THEN db ELSE Revoked(db, w.on)
    [] w.op = "invite" -> IF mock THEN db ELSE [db EXCEPT !.invited = @ \cup {w.arg}]
    [] w.op = "template" -> [db EXCEPT !.template = w.arg]

Moved(db) == past' = IF db = Db THEN past ELSE Append(past, db)

HandleWrite(s) ==
  /\ writes[s].at = "sent"
  /\ LET w == [writes[s] EXCEPT !.on =
                 IF writes[s].op = "create" THEN CHOOSE c \in UnusedClients : TRUE ELSE @] IN
       IF Refuses(Db, w)
         THEN writes' = [writes EXCEPT ![s].at = "refused"] /\ UNCHANGED past
         ELSE /\ Moved(Applied(Db, w))
              /\ writes' = [writes EXCEPT ![s] = [w EXCEPT !.at = "done", !.version = Len(past')]]
  /\ UNCHANGED <<scene, mock, route, ui, cache, due, left>>

\* Somebody else works with another copy of the panel.
Colleague ==
  \E w \in scene.others :
    /\ Spend /\ ~mock
    /\ IF w.op = "create" THEN w.on \in UnusedClients /\ CreatesUnderWay < Cardinality(UnusedClients)
                          ELSE TRUE
    /\ ~Refuses(Db, w) /\ Applied(Db, w) # Db /\ Moved(Applied(Db, w))
    /\ UNCHANGED <<scene, mock, route, ui, cache, writes, due>>
=============================================================================
