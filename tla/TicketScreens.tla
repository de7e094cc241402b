--------------------------- MODULE TicketScreens ---------------------------
(***************************************************************************)
(* Tickets on the two screens that show them: the tab of a client's card   *)
(* (ClientTicketsTab.tsx) and the section of its own (TicketsPage.tsx).    *)
(* They call the same routes and keep separate queries.                    *)
(***************************************************************************)
EXTENDS Stores

CONSTANTS Priority

Thread == OpenThread(route, ui, cache)
OnTab == route.page = "client"
Owner == IF OnTab THEN "tab" ELSE "thread"

\* The list of the page, as its two filters leave it.
Filtered ==
  LET tickets == View(TicketList).tickets IN
  {t \in DOMAIN tickets : /\ ui.status \in {"all", tickets[t].status}
                          /\ ui.assignee \in {"all", tickets[t].assignee}}
Listed ==
  CASE OnTab /\ TabShown(route, cache) /\ route.tab = "tickets" ->
         IF Shown(cache, ClientTickets(route.id))
           THEN TicketsOf(View(ClientTickets(route.id)), route.id) ELSE {}
    [] route.page = "tickets" /\ Shown(cache, TicketList) -> Filtered
    [] OTHER -> {}

\* The ticket a thread shows: out of the tab's list, or its own query.
ThreadShown ==
  /\ Thread # None
  /\ OnTab \/ Shown(cache, TicketDetail(Thread))
ThreadStatus ==
  View(IF OnTab THEN ClientTickets(route.id) ELSE TicketDetail(Thread)).tickets[Thread].status

\* The chips go away while a thread is open; the names come from the team.
\* Resetting the filters of an empty list is one of the choices.
Filter(status, assignee) ==
  /\ route.page = "tickets" /\ Shown(cache, TicketList) /\ ui.open = None
  /\ DOMAIN View(TicketList).tickets # {}
  /\ assignee \in {"all", None} \/ (Loaded(cache, Team) /\ assignee \in DOMAIN View(Team).team)
  /\ <<status, assignee>> # <<ui.status, ui.assignee>>
  /\ Touch([ui EXCEPT !.status = status, !.assignee = assignee])

OpenTicket(t) == Thread = None /\ t \in Listed /\ Touch([ui EXCEPT !.open = t])
BackToList == ThreadShown /\ Touch([ui EXCEPT !.open = None])

WriteReply == ThreadShown /\ ~ui.reply /\ Touch([ui EXCEPT !.reply = TRUE])
SendReply ==
  /\ ThreadShown /\ ui.reply /\ ~Pending("reply", Owner)
  /\ Mutate("reply", Thread, route.id, Owner)
MarkResolved ==
  /\ ThreadShown /\ ThreadStatus \notin {"resolved", "closed"} /\ ~Pending("status", Owner)
  /\ Mutate("status", Thread, route.id, Owner)
AssignToSelf ==
  /\ ThreadShown /\ ~OnTab /\ ~Pending("assign", Owner)
  /\ Mutate("assign", Thread, None, Owner)

\* The select is never disabled: a second choice may overtake the first.
SetPriority(p) ==
  /\ ThreadShown /\ ~OnTab /\ p # View(TicketDetail(Thread)).tickets[Thread].priority
  /\ Mutate("priority", Thread, p, Owner)

\* The tab invalidates its own list and nothing else; the page the section of
\* the tickets.  The text goes when the component that sent it is still there.
ListOnly == {TicketList}
TicketSection == Under(<<"tickets">>, DOMAIN cache)
DeliverTicket(s) ==
  LET w == writes[s]
      tab == w.owner = "tab"
  IN /\ w.op \in TicketCall /\ w.at = "done"
     /\ Succeed(s, NoWrite, route,
                IF w.op = "reply" /\ w.here THEN [ui EXCEPT !.reply = FALSE] ELSE ui,
                Invalidate(cache, IF tab THEN {ClientTickets(w.arg)} ELSE TicketSection, Watching),
                IF tab THEN {ClientTickets(w.arg)} ELSE {TicketList, TicketDetail(w.on)})
===========================================================================
