--------------------------- MODULE ClientScreens ---------------------------
(***************************************************************************)
(* The screens of the clients (src/web/src/features/clients): the list,    *)
(* the form of a new client, the card of a client and its access tab.      *)
(***************************************************************************)
EXTENDS Stores

CONSTANTS PageSize, Days

---------------------------------------------------------------------------
(* ClientsPage                                                             *)

OnList == route.page = "clients" /\ Shown(cache, ClientList)

\* filterClients; "found" is the set of clients whose name has the query.
Rows ==
  IF ~Loaded(cache, ClientList) THEN {}
  ELSE {c \in DOMAIN View(ClientList).clients :
          /\ route.tab \in {"all", View(ClientList).clients[c].status}
          /\ c \in ui.found}

\* setSearchParams replaces the address; the first page is shown again.
SetFilter(f) ==
  /\ Spend
  /\ route.page = "clients" /\ f # route.tab
  /\ Show([route EXCEPT !.tab = f], [ui EXCEPT !.index = 0], cache, writes)
  /\ UNCHANGED <<scene, mock, past, due>>

Search(found) ==
  /\ route.page = "clients" /\ found # ui.found
  /\ Touch([ui EXCEPT !.found = found, !.index = 0])

\* The button of an empty list that a filter or a query has narrowed.
ShowAll ==
  /\ Spend
  /\ OnList /\ Rows = {} /\ (route.tab # "all" \/ ui.found # Client)
  /\ Show(At("clients"), [ui EXCEPT !.found = Client, !.index = 0], cache, writes)
  /\ UNCHANGED <<scene, mock, past, due>>

ResizedInPlace(size) == [ui EXCEPT !.size = size]
Resized(size) == [ui EXCEPT !.size = size, !.index = 0]
SetSize(size) == route.page = "clients" /\ size # ui.size /\ Touch(Resized(size))

NextPage ==
  /\ route.page = "clients" /\ (ui.index + 1) * ui.size < Cardinality(Rows)
  /\ Touch([ui EXCEPT !.index = @ + 1])
PreviousPage == route.page = "clients" /\ ui.index > 0 /\ Touch([ui EXCEPT !.index = @ - 1])
---------------------------------------------------------------------------
(* NewClientPage.  The answer about an email is kept for ever, so it may   *)
(* be older than the server's state.                                       *)

Filling == route.page = "new" /\ ui.created = None
Check == EntryOf(cache, EmailTaken(ui.email))
CheckSaysTaken == Check.data > 0 /\ Taken(View(EmailTaken(ui.email)), ui.email)
HasErrors ==
  \/ ~ui.filled \/ ui.email = None \/ CheckSaysTaken
  \/ ui.start = "trial" /\ ui.days \notin 1..365
Unchecked == FALSE
CheckingEmail == Check.fetch # 0

TypeClientEmail(e) == Filling /\ e # ui.email /\ Touch([ui EXCEPT !.email = e])
FillIn == Filling /\ ~ui.filled /\ Touch([ui EXCEPT !.filled = TRUE])
ChooseStart(start, days) ==
  /\ Filling /\ <<start, days>> # <<ui.start, ui.days>>
  /\ Touch([ui EXCEPT !.start = start, !.days = days])

\* A check that failed does not stop the form: -1 stands for it.
SubmitClient ==
  /\ Filling /\ ~Pending("create", "page")
  /\ ~HasErrors /\ ~CheckingEmail
  /\ CreatesUnderWay < Cardinality(UnusedClients)
  /\ MutateKnowing("create", None,
       [email |-> ui.email, days |-> IF ui.start = "trial" THEN ui.days ELSE 0], "page",
       IF Check.data = 0 /\ Check.error THEN -1 ELSE Check.data)

\* useCreateClient: the answer is the card; the page, if still there, opens
\* the window with the code.
DeliverCreated(s) ==
  LET w == writes[s] IN
  /\ w.op = "create" /\ w.at = "done"
  /\ Succeed(s, NoWrite, route, IF w.here THEN [ui EXCEPT !.created = w.on] ELSE ui,
             Invalidate(Put(cache, ClientDetail(w.on), w.version), {ClientList}, Watching),
             {ClientList})

\* The window's two ways out; closing it is the first.
GoToClient ==
  /\ Spend
  /\ route.page = "new" /\ ui.created # None
  /\ Visit(ClientAt(ui.created, "overview"))
  /\ UNCHANGED <<scene, mock, past, due>>
CreateAnother == route.page = "new" /\ ui.created # None /\ Touch(FreshUi("new"))
---------------------------------------------------------------------------
(* ClientPage and ClientAccessTab                                          *)

Paused == View(ClientDetail(route.id)).clients[route.id].status = "paused"

\* The button in the head of the card.
ToggleAccess ==
  /\ TabShown(route, cache) /\ Loaded(cache, ClientDetail(route.id)) /\ ~Pending("resume", "page")
  /\ IF Paused THEN Mutate("resume", route.id, None, "page")
     ELSE /\ Spend
          /\ Visit([ClientAt(route.id, "access") EXCEPT !.suspend = TRUE])
          /\ UNCHANGED <<scene, mock, past, due>>

OnAccess == AccessShown(route, cache)
Form == OnAccess /\ ui.form /\ ~Paused

\* The button of the access panel, one for both ways.
OpenForm ==
  /\ OnAccess /\ ~Paused /\ ~ui.form
  /\ ~Pending("suspend", "access") /\ ~Pending("resume", "access")
  /\ Touch([ui EXCEPT !.form = TRUE])
Resume ==
  /\ OnAccess /\ Paused /\ ~Pending("suspend", "access") /\ ~Pending("resume", "access")
  /\ Mutate("resume", route.id, None, "access")

GiveReason == Form /\ ~ui.reason /\ Touch([ui EXCEPT !.reason = TRUE])
Suspend ==
  /\ Form /\ ui.reason /\ ~Pending("suspend", "access")
  /\ Mutate("suspend", route.id, None, "access")

\* closeForm takes "?suspend=1" out of the address of the client it was made for.
Closed == [ui EXCEPT !.form = FALSE, !.reason = FALSE]
CancelForm ==
  /\ Spend
  /\ Form
  /\ Show(ClientAt(route.id, "access"), Closed, cache, writes)
  /\ UNCHANGED <<scene, mock, past, due>>

IssueCode == OnAccess /\ ~Pending("issue", "access") /\ Mutate("issue", route.id, None, "access")

\* useClientMutation: the whole section is invalidated, and the call lasts
\* until what is observed has been fetched again.
ListAlone(keys) == keys \cap {ClientList}
Section(keys) == Under(<<"clients">>, keys)
DeliverAccess(s) ==
  LET w == writes[s] IN
  /\ w.op \in ClientCall /\ w.at = "done"
  /\ Succeed(s, [w EXCEPT !.at = "settling"], route, ui,
             Invalidate(cache, Section(DOMAIN cache), Watching),
             {ClientList, ClientDetail(w.on), ClientJournal(w.on)})

RefetchedFresh == \A key \in Section(DOMAIN cache) : ~cache[key].stale
Refetched == \A key \in Section(DOMAIN cache) : cache[key].fetch = 0
SettleAccess(s) ==
  LET w == writes[s]
      closes == w.op = "suspend" /\ w.here
  IN /\ w.at = "settling" /\ Refetched
     /\ Show(IF closes THEN ClientAt(w.on, "access") ELSE route, IF closes THEN Closed ELSE ui,
             cache, [writes EXCEPT ![s] = NoWrite])
     /\ UNCHANGED <<scene, mock, past, due, left>>

\* DangerPanel
AskDelete == OnAccess /\ ~ui.confirm /\ Touch([ui EXCEPT !.confirm = TRUE, !.typed = None])
CancelDelete == OnAccess /\ ui.confirm /\ Touch([ui EXCEPT !.confirm = FALSE])
TypeClientName(c) == OnAccess /\ ui.confirm /\ c # ui.typed /\ Touch([ui EXCEPT !.typed = c])
DeleteClient ==
  /\ OnAccess /\ ui.confirm /\ ui.typed = route.id /\ ~Pending("delete", "danger")
  /\ Mutate("delete", route.id, None, "danger")

\* useDeleteClient: away from the card, then its queries are forgotten, or
\* those of the client whose card the panel was last drawn for.
InvalidatedAll(c) == Invalidate(cache, Section(DOMAIN cache), Watching)
Forgotten(c) ==
  Invalidate(Without(cache, {ClientDetail(c), ClientTickets(c), ClientJournal(c)}),
             {ClientList}, Watching)
DeliverDeleted(s) ==
  LET w == writes[s] IN
  /\ w.op = "delete" /\ w.at = "done"
  /\ Succeed(s, NoWrite, At("clients"), IF route.page = "clients" THEN ui ELSE FreshUi("clients"),
             Forgotten(w.last), {ClientList})
===========================================================================
