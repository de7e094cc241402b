------------------------------- MODULE Panel -------------------------------
(***************************************************************************)
(* The web client around its screens (src/web/src): the route, the local   *)
(* state of the mounted components, the query cache, the fetches and the   *)
(* mutations in flight, and the server they reach.  The server's states    *)
(* are numbered; a cache entry holds the number of the one it shows.       *)
(***************************************************************************)
EXTENDS QueryCache, FiniteSets

CONSTANTS None, Client, Ticket, Member, Email,
          Slot     \* mutations in flight, 1..n

ASSUME SlotAssumption == IsFiniteSet(Slot) /\ Slot = 1..Cardinality(Slot)

VARIABLES scene,   \* the routes the user visits in this behaviour
          mock,    \* USE_MOCK: the stores of the mock.ts files answer
          route,   \* [page, id, tab, suspend], the address
          ui,      \* local state of what is mounted
          cache,   \* the query cache
          writes,  \* useMutation calls in flight, by slot
          past,    \* the states the server went through
          due,     \* history: the state each view owes the user
          left     \* what remains of the scene's effort

vars == <<scene, mock, route, ui, cache, writes, past, due, left>>

Now == Len(past)
Db == past[Now]

\* The mock stores answer before the user can do anything else.
Quiet == /\ \A s \in Slot : writes[s].op = None
         /\ \A key \in DOMAIN cache : cache[key].fetch = 0
Spend == left > 0 /\ (mock => Quiet) /\ left' = left - 1

\* The list of clients keeps its status filter in the address.
At(page) == [page |-> page, id |-> None, suspend |-> FALSE,
             tab |-> IF page = "clients" THEN "all" ELSE None]
ClientAt(c, tab) == [page |-> "client", id |-> c, tab |-> tab, suspend |-> FALSE]
---------------------------------------------------------------------------
(* Query keys, as the hooks build them.                                    *)

ClientList == <<"clients", "list">>
ClientDetail(c) == <<"clients", "detail", c>>
ClientTickets(c) == <<"clients", "tickets", c>>
ClientJournal(c) == <<"clients", "journal", c>>
EmailTaken(e) == <<"clients", "email-taken", e>>
TicketList == <<"tickets">>
TicketDetail(t) == <<"tickets", "detail", t>>
Team == <<"team">>
Settings == <<"settings">>
Journal == <<"journal">>
Overview == <<"overview">>

Key == {ClientList, TicketList, Team, Settings, Journal, Overview}
         \cup {ClientDetail(c) : c \in Client} \cup {ClientTickets(c) : c \in Client}
         \cup {ClientJournal(c) : c \in Client} \cup {EmailTaken(e) : e \in Email}
         \cup {TicketDetail(t) : t \in Ticket}

Loaded(c, key) == EntryOf(c, key).data > 0
Shown(c, key) == Loaded(c, key) /\ ~EntryOf(c, key).error
\* What the server said when it answered the query.
ViewIn(c, key) == past[c[key].data]
View(key) == ViewIn(cache, key)
TicketsOf(db, id) ==
  {t \in DOMAIN db.tickets : id \in DOMAIN db.clients /\ db.tickets[t].client = id}

\* ClientPage shows its tabs unless the client failed to load; the access tab
\* has its panels once the client is there.
TabShown(r, c) == r.page = "client" /\ ~EntryOf(c, ClientDetail(r.id)).error
AccessShown(r, c) == TabShown(r, c) /\ r.tab = "access" /\ Loaded(c, ClientDetail(r.id))

\* The thread on screen: of the tickets tab of a client (found in its list)
\* or of the tickets page (loaded by its own query).
OpenThread(r, u, c) ==
  CASE r.page = "client" /\ r.tab = "tickets" /\ TabShown(r, c) /\ u.open # None ->
         IF Shown(c, ClientTickets(r.id))
              /\ u.open \in TicketsOf(ViewIn(c, ClientTickets(r.id)), r.id)
           THEN u.open ELSE None
    [] r.page = "tickets" /\ u.open # None /\ ~EntryOf(c, TicketList).error ->
         u.open
    [] OTHER -> None

\* The selected row of the team table, once it is there to be shown.
Selected(r, u, c) ==
  IF r.page = "team" /\ u.member # None /\ Shown(c, Team)
       /\ u.member \in DOMAIN ViewIn(c, Team).team
    THEN u.member ELSE None

\* The queries with an observer: those of the page, and the list of tickets
\* the shell counts for its badge.
Watched(r, u, c) ==
  {TicketList} \cup
  CASE r.page = "clients" -> {ClientList}
    [] r.page = "new" -> IF u.email = None THEN {} ELSE {EmailTaken(u.email)}
    [] r.page = "client" ->
         {ClientDetail(r.id)} \cup
         (CASE ~TabShown(r, c) -> {}
            [] r.tab = "tickets" -> {ClientTickets(r.id)}
            [] r.tab = "journal" -> {ClientJournal(r.id)}
            [] OTHER -> {})
    [] r.page = "tickets" ->
         {Team} \cup (IF OpenThread(r, u, c) = None THEN {} ELSE {TicketDetail(u.open)})
    [] r.page = "team" -> {Team}
    [] r.page = "settings" -> {Settings}
    [] r.page = "journal" -> {Journal, Team}
    [] OTHER -> {Overview}
---------------------------------------------------------------------------
(* Local state, by the page it belongs to.                                 *)

FreshUi(page) ==
  CASE page = "clients" -> [found |-> Client, index |-> 0, size |-> 1]
    [] page = "new" -> [email |-> None, filled |-> FALSE, start |-> "trial", days |-> 14,
                        created |-> None]
    [] page = "client" -> [form |-> FALSE, reason |-> FALSE, confirm |-> FALSE, typed |-> None,
                           open |-> None, reply |-> FALSE]
    [] page = "tickets" -> [status |-> "all", assignee |-> "all", open |-> None, reply |-> FALSE]
    [] page = "team" -> [member |-> None, revoke |-> FALSE, typed |-> None,
                         invite |-> FALSE, email |-> None, sent |-> None]
    [] page = "settings" -> [text |-> None, typed |-> None]
    [] page = "journal" -> [period |-> 7, from |-> None, to |-> None]
    [] OTHER -> [nothing |-> TRUE]

\* What the rows of the client list are made from.
ListData(c) ==
  IF ~Loaded(c, ClientList) THEN <<>>
  ELSE LET clients == ViewIn(c, ClientList).clients
       IN [id \in DOMAIN clients |-> clients[id].status]

\* SettingsPage takes the text of the data it has, fresh or not, once after it
\* mounts; the first data to arrive will do when there are none.
SeededAlways(u, c) ==
  IF Loaded(c, Settings) /\ (u.text = None \/ c[Settings].data # EntryOf(cache, Settings).data)
    THEN [u EXCEPT !.text = ViewIn(c, Settings).template]
    ELSE u
Seeded(u, c) ==
  IF u.text = None /\ Loaded(c, Settings)
    THEN [u EXCEPT !.text = ViewIn(c, Settings).template]
    ELSE u

\* A component that unmounts loses its state; one that mounts starts fresh.
\* ClientPage and its tabs are not keyed by the client: going from one client
\* to another on the same tab keeps what is mounted.
\* The table starts over at page one whenever its rows are computed anew.
Remounted(r, u, c) ==
  CASE r.page = "clients" /\ r.page = route.page
         /\ (r.tab # route.tab \/ u.found # ui.found \/ ListData(c) # ListData(cache)) ->
         [u EXCEPT !.index = 0]
    [] r.page = "client" /\ r.tab = "access" ->
         CASE ~AccessShown(r, c) -> FreshUi("client")
           [] AccessShown(r, c) /\ ~AccessShown(route, cache) ->
                [FreshUi("client") EXCEPT !.form = r.suspend]
           [] OTHER -> u
    [] r.page = "client" /\ r.tab = "tickets" /\ OpenThread(r, u, c) = None ->
         [FreshUi("client") EXCEPT !.open = IF TabShown(r, c) THEN u.open ELSE None]
    [] r.page = "tickets" /\ OpenThread(r, u, c) = None -> [u EXCEPT !.reply = FALSE]
    [] r.page = "team" /\ Selected(r, u, c) = None -> [u EXCEPT !.revoke = FALSE, !.typed = None]
    [] r.page = "settings" -> Seeded(u, c)
    [] OTHER -> u

\* Whose useMutation a call belongs to; the same value before and after a
\* step means that the component stayed mounted.
Instance(owner, r, u, c) ==
  CASE owner = "page" -> r.page
    [] owner \in {"access", "danger"} /\ AccessShown(r, c) -> "access"
    [] owner = "tab" /\ r.page = "client" -> OpenThread(r, u, c)
    [] owner = "thread" /\ r.page = "tickets" -> OpenThread(r, u, c)
    [] owner = "member" -> Selected(r, u, c)
    [] owner = "revoke" /\ r.page = "team" /\ u.revoke -> Selected(r, u, c)
    [] owner = "invite" /\ r.page = "team" /\ u.invite -> "invite"
    [] OTHER -> None

\* The card of a client that failed to load asks anew when its page is opened
\* again, and is drawn as one that is loading.
Opened(r, c) ==
  LET key == ClientDetail(r.id) IN
  IF r.page = "client" /\ key \in DOMAIN c \ Watched(route, ui, cache) /\ c[key].data = 0
    THEN [c EXCEPT ![key].error = FALSE]
    ELSE c

\* Every step that changes what is on screen: unmounted components drop their
\* observers, and the cache fetches for those that are new.  A component that is
\* drawn again hands the options of its hook to the mutation under way: the end
\* of a deletion is about the client its panel showed last.
Show(r, u, given, w) ==
  LET c == Opened(r, given)
      v == Remounted(r, u, c)
  IN
  /\ route' = r /\ ui' = v
  /\ cache' = Watch(c, Watched(route, ui, cache), Watched(r, v, c))
  /\ writes' = [s \in Slot |->
       LET stays == w[s].here /\ Instance(w[s].owner, route, ui, cache) =
                                  Instance(w[s].owner, r, v, c)
       IN IF w[s].op = None THEN w[s]
          ELSE [w[s] EXCEPT !.home = @ /\ r.page = route.page,
                            !.here = stays,
                            !.last = IF stays /\ w[s].op = "delete" THEN r.id ELSE @]]
---------------------------------------------------------------------------
(* Queries in flight.                                                      *)

\* A detail of something deleted is an error, everything else an answer.
Answers(key, db) ==
  /\ key[1] = "clients" /\ key[2] = "detail" => key[3] \in DOMAIN db.clients
  /\ Len(key) = 3 /\ key[1] = "tickets" => key[3] \in DOMAIN db.tickets

AnswerQuery(key) ==
  /\ key \in DOMAIN cache /\ cache[key].fetch = Asked
  /\ IF Answers(key, Db)
       THEN /\ cache' = [cache EXCEPT ![key].fetch = Now]
            /\ UNCHANGED <<route, ui, writes>>
       ELSE Show(route, ui, [cache EXCEPT ![key].fetch = 0, ![key].error = TRUE], writes)
  /\ UNCHANGED <<scene, mock, past, due, left>>

DeliverQuery(key) ==
  /\ key \in DOMAIN cache /\ cache[key].fetch > 0
  /\ Show(route, ui, [cache EXCEPT ![key] = Filled(@)], writes)
  /\ UNCHANGED <<scene, mock, past, due, left>>

\* Both attempts fail (retry: 1); a mock store always answers.
FailQuery(key) ==
  /\ Spend /\ ~mock
  /\ key \in DOMAIN cache /\ cache[key].fetch # 0
  /\ Show(route, ui, [cache EXCEPT ![key].fetch = 0, ![key].error = TRUE], writes)
  /\ UNCHANGED <<scene, mock, past, due>>

\* ErrorState's button.
RetryQuery(key) ==
  /\ Spend
  /\ key \in Watched(route, ui, cache) \cap DOMAIN cache
  /\ cache[key].error /\ cache[key].fetch = 0
  /\ Show(route, ui, [cache EXCEPT ![key] = Asking(@)], writes)
  /\ UNCHANGED <<scene, mock, past, due>>

\* Thirty seconds pass for a query; the check of an email never grows old.
Age(key) ==
  /\ Spend
  /\ Loaded(cache, key) /\ ~cache[key].stale /\ \A e \in Email : key # EmailTaken(e)
  /\ cache' = [cache EXCEPT ![key].stale = TRUE]
  /\ UNCHANGED <<scene, mock, route, ui, writes, past, due>>
---------------------------------------------------------------------------
(* Mutations in flight.                                                    *)

NoWrite == [op |-> None, on |-> None, arg |-> None, owner |-> None,
            at |-> "idle", here |-> FALSE, home |-> FALSE, last |-> None, version |-> 0]

Pending(op, owner) ==
  \E s \in Slot : writes[s].op = op /\ writes[s].owner = owner /\ writes[s].here

\* mutate(): the lowest slot that is free takes the call.  For a new client
\* "version" is the server state its email was checked against.
MutateKnowing(op, on, arg, owner, version) ==
  \E s \in Slot :
    /\ Spend
    /\ writes[s].op = None /\ \A lower \in 1..s - 1 : writes[lower].op # None
    /\ writes' = [writes EXCEPT ![s] =
         [op |-> op, on |-> on, arg |-> arg, owner |-> owner, at |-> "sent",
          here |-> TRUE, home |-> TRUE, last |-> on, version |-> version]]
    /\ UNCHANGED <<scene, mock, route, ui, cache, past, due>>
Mutate(op, on, arg, owner) == MutateKnowing(op, on, arg, owner, 0)

\* The call or its answer is lost: fetch rejects.
LoseWrite(s) ==
  /\ Spend /\ ~mock
  /\ writes[s].at \in {"sent", "done"}
  /\ writes' = [writes EXCEPT ![s].at = "failed"]
  /\ UNCHANGED <<scene, mock, route, ui, cache, past, due>>

\* An error ends the call; what the form says about it is left out.
DeliverError(s) ==
  /\ writes[s].at \in {"failed", "refused"}
  /\ writes' = [writes EXCEPT ![s] = NoWrite]
  /\ UNCHANGED <<scene, mock, route, ui, cache, past, due, left>>

\* A first load that was answered before the call, and that no invalidation
\* cancels; the card that the answer of a creation replaces.
Overtaken(key, version) == cache[key].data = 0 /\ cache[key].fetch \in 1..version - 1
Replaced(w) == IF w.op = "create" THEN {ClientDetail(w.on)} ELSE {}

Raised(debts, keys, version, kept) ==
  [key \in (DOMAIN debts \cup keys) \cap kept |->
     LET old == IF key \in DOMAIN debts THEN debts[key] ELSE 0
     IN IF key \in keys /\ old < version THEN version ELSE old]

\* onSuccess: the cache is told and the screen moves on; the call ends, or
\* waits as "slot" says.  Every cached view of "shows" owes the user this version.
Succeed(s, slot, r, u, c, shows) ==
  LET version == writes[s].version
      told == shows \cap DOMAIN cache
  IN
  /\ Show(r, u, c, [writes EXCEPT ![s] = slot])
  /\ due' = Raised(due, {key \in told : ~Overtaken(key, version)}, version,
                   DOMAIN c \ Replaced(writes[s]))
  /\ UNCHANGED <<scene, mock, past, left>>

Watching == Watched(route, ui, cache)

\* What the user does to the screen alone.
Touch(u) ==
  /\ Spend
  /\ Show(route, u, cache, writes)
  /\ UNCHANGED <<scene, mock, past, due>>

\* Links of the shell and of the screens, and the browser's history.
VisitKeeping(r) == Show(r, ui, cache, writes)
Visit(r) ==
  Show(r, IF r.page = route.page /\ (r.page = "client" => r.tab = route.tab)
            THEN ui ELSE FreshUi(r.page), cache, writes)

Go(r) ==
  /\ Spend
  /\ r # route
  /\ Visit(r)
  /\ UNCHANGED <<scene, mock, past, due>>
===========================================================================
