------------------------------- MODULE WebApp -------------------------------
(***************************************************************************)
(* The panel at work: one signed-in user in one tab moves between screens  *)
(* while fetches and mutations are in flight, colleagues change what the   *)
(* server holds and the network loses calls.                               *)
(***************************************************************************)
EXTENDS ClientScreens, TicketScreens, TeamScreens

CONSTANTS Scene,  \* visits: [start, routes, finds, others, effort]
          FirstDb \* what the server holds when the visit begins

Page == {"clients", "new", "client", "tickets", "team", "settings", "journal", "overview"}
Tab == {"all", "active", "trial", "paused", "overview", "access", "tickets", "journal", None}
Route ==
  {r \in [page : Page, id : Client \cup {None}, tab : Tab, suspend : BOOLEAN] :
     r.page = "client" => r.id \in Client}
Op == ClientCall \cup TicketCall \cup {"create", "delete", "role", "revoke", "invite", "template"}

ASSUME SceneAssumption ==
  \A s \in Scene : /\ s.start \in Route /\ s.routes \subseteq Route /\ s.effort \in Nat
                   /\ \A found \in s.finds : found \subseteq Client
                   /\ \A w \in s.others : w.op \in Op
ASSUME FirstDbAssumption ==
  DOMAIN FirstDb = {"clients", "tickets", "team", "invited", "template"}
ASSUME NoneAssumption == None \notin Op \cup {"access"}
ASSUME SizesAssumption == IsFiniteSet(Client) /\ PageSize \subseteq Nat \ {0}

\* The shell was there before the screen: its list of tickets is loaded.
Init ==
  /\ scene \in Scene /\ mock \in BOOLEAN
  /\ route = scene.start
  /\ ui = FreshUi(route.page)
  /\ past = <<FirstDb>>
  /\ cache = Watch([key \in {TicketList} |-> [Blank EXCEPT !.data = 1]], {TicketList},
                   Watched(route, ui, <<>>))
  /\ writes = [s \in Slot |-> NoWrite]
  /\ due = <<>> /\ left = scene.effort

ClientsPageStep ==
  \/ \E f \in {"all", "active", "trial", "paused"} : SetFilter(f)
  \/ \E found \in scene.finds : Search(found)
  \/ ShowAll
  \/ \E size \in PageSize : SetSize(size)
  \/ NextPage
  \/ PreviousPage

NewClientStep ==
  \/ \E e \in Email \cup {None} : TypeClientEmail(e)
  \/ FillIn
  \/ \E start \in {"trial", "active"}, days \in Days : ChooseStart(start, days)
  \/ SubmitClient
  \/ GoToClient
  \/ CreateAnother

ClientPageStep ==
  \/ ToggleAccess
  \/ OpenForm
  \/ Resume
  \/ GiveReason
  \/ Suspend
  \/ CancelForm
  \/ IssueCode
  \/ AskDelete
  \/ CancelDelete
  \/ \E c \in Client : TypeClientName(c)
  \/ DeleteClient

TicketStep ==
  \/ \E status \in {"all", "open", "resolved"}, assignee \in {"all", None} \cup Member :
       Filter(status, assignee)
  \/ \E t \in Ticket : OpenTicket(t)
  \/ BackToList
  \/ WriteReply
  \/ SendReply
  \/ MarkResolved
  \/ AssignToSelf
  \/ \E p \in Priority : SetPriority(p)

TeamStep ==
  \/ \E m \in Member : SelectMember(m)
  \/ CloseMember
  \/ \E role \in InvitableRoles : ChangeRole(role)
  \/ AskRevoke
  \/ CancelRevoke
  \/ \E m \in Member : TypeMemberEmail(m)
  \/ RevokeMember
  \/ OpenInvite
  \/ CloseInvite
  \/ \E e \in Email : TypeInviteEmail(e)
  \/ Invite
  \/ DismissLink

SettingsStep ==
  \/ \E text \in Text : TypeText(text)
  \/ RestoreDefault
  \/ SaveTemplate

JournalStep ==
  \E period \in {7, 30, 0}, from, to \in {None} \cup {t \div PerDay : t \in Moment} :
    SetPeriod(period, from, to)

User ==
  \/ \E r \in scene.routes : Go(r)
  \/ \E key \in Key : RetryQuery(key)
  \/ ClientsPageStep
  \/ NewClientStep
  \/ ClientPageStep
  \/ TicketStep
  \/ TeamStep
  \/ SettingsStep
  \/ JournalStep

\* The server and the browser: what happens by itself.
Machine ==
  \/ \E key \in Key : AnswerQuery(key) \/ DeliverQuery(key)
  \/ \E s \in Slot :
       \/ HandleWrite(s)
       \/ DeliverError(s)
       \/ DeliverCreated(s)
       \/ DeliverAccess(s)
       \/ SettleAccess(s)
       \/ DeliverDeleted(s)
       \/ DeliverTicket(s)
       \/ DeliverTeam(s)
       \/ DeliverSaved(s)

World ==
  \/ Colleague
  \/ \E key \in Key : FailQuery(key) \/ Age(key)
  \/ \E s \in Slot : LoseWrite(s)

Next == User \/ Machine \/ World

Spec == Init /\ [][Next]_vars
FairSpec == Spec /\ WF_vars(Machine)
---------------------------------------------------------------------------
\* Types; the local state is that of the page on screen, and nothing of the
\* page before it.
TypeOK ==
  /\ scene \in Scene /\ mock \in BOOLEAN /\ left \in 0..scene.effort
  /\ DOMAIN ui = DOMAIN FreshUi(route.page)
  /\ DOMAIN cache \subseteq Key
  /\ \A key \in DOMAIN cache : cache[key] \in [data : 0..Now, stale : BOOLEAN,
                                               fetch : Asked..Now, error : BOOLEAN]
  /\ \A s \in Slot : writes[s].at \in {"idle", "sent", "done", "settling", "failed", "refused"}
  /\ DOMAIN due \subseteq DOMAIN cache

\* useClients.ts:111-116, useTickets.ts:35-39 and the comment on the tab's
\* mutations: once a call has succeeded, a view it concerns never again shows
\* the user something older, unless a fetch is under way or has failed.  They
\* say it of every view; it holds of all, observed or not, loaded or loading,
\* but what the call overtook: the answer to the first load of a view, when the
\* server gave it before the call and it arrives after the call's own, and the
\* card that the late answer of a creation replaces.
OlderOnlyIfOvertaken ==
  \A key \in Watching \cap DOMAIN due :
    cache[key].fetch = 0 /\ ~cache[key].error => cache[key].data >= due[key]

\* NewClientPage.tsx:120-122: the form is never sent to be refused for an
\* address its own check would have refused.  A refusal means that the check
\* failed, or that it had said free and somebody took the address since.
ConflictExplained ==
  \A s \in Slot :
    LET w == writes[s] IN
    w.op = "create" /\ w.at = "refused" =>
      w.version = -1 \/ (w.version > 0 /\ ~Taken(past[w.version], w.arg.email))

\* SettingsPage.tsx:27-28: no refetch overwrites what the user has typed.
TypedTextSurvives ==
  route.page = "settings" /\ ui.typed # None => ui.text = ui.typed

\* ClientsPage.tsx:78-82: the page of the list on screen has rows whenever
\* the list has, so "26-25 of 25" is never shown.
RangeIsHonest ==
  route.page = "clients" /\ Rows # {} => ui.index * ui.size < Cardinality(Rows)

\* JournalPage.tsx:54-60: a period of one's own is made of whole days, both
\* ends included.
PeriodKeepsWholeDays ==
  OnJournal /\ ui.period = 0 /\ ui.from # None /\ ui.to # None =>
    {e \in Moment : WithinPeriod(e)} = {e \in Moment : e \div PerDay \in ui.from..ui.to}

ItsCards(c) == {ClientDetail(c), ClientTickets(c), ClientJournal(c)}
Deletes(s) ==
  writes[s].op = "delete" /\ writes[s].at = "done" /\ writes'[s].op = None

\* useClients.ts:144-147: when a deletion ends, nothing is asked about the client
\* that is gone, which would show an error before the page changes.  Its cards
\* leave the cache, unless the panel that deleted it was drawn for another
\* client since: then the code throws out that client's.
NothingAskedOfTheDeleted ==
  [][\A s \in Slot : Deletes(s) =>
       LET w == writes[s] IN
       /\ \A key \in ItsCards(w.on) : EntryOf(cache', key).fetch = 0
       /\ w.last = w.on => ItsCards(w.on) \cap DOMAIN cache' = {}
     ]_vars

\* Nothing spins for ever: when the user pauses, every mutation (the ones that
\* wait for what they refetch included) and every fetch comes to its end.
ComesToRest == []<>Quiet
===========================================================================
