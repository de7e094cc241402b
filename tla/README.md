# A TLA+ model of the superadmin panel

The repository is a small admin panel ("суперадминка"): a Go server (gin, pgx and
sqlc, PostgreSQL, Redis) with which a team manages its clients, their support
tickets and its own members, and a React client in `web/`. The server issues a
15-minute access JWT and a rotating refresh token in a cookie; roles are checked
from the claims of the JWT.

This directory holds TLA+ modules translated from the code, TLC configurations
that check them on small instances, and proofs checked by TLAPS.

## Inventory

| Component | State it keeps | Operations | Status |
|---|---|---|---|
| Auth usecase, `internal/usecase/auth.go` | none of its own; locals of each request | Login, Refresh, Logout, LogoutAll (Me reads only) | `Auth` |
| Accounts, `super_admin.sql` | role, status, failure counter, `locked_until` | RegisterFailedLogin, RegisterSuccessfulLogin, UpdateRole, UpdateStatus | `Accounts` |
| Refresh tokens, `refresh_token.sql` | rows linked by `replaced_by`, grouped by `session_id` | Create, GetByHash, MarkUsed, RevokeSession, RevokeAllForUser | `RefreshTokens`, abstractly `RotationChain` |
| Access JWTs and deny list, `pkg/jwt`, `pkg/redisx` | claims in the hands of clients; Redis keys with a TTL | Issue, Parse, Revoke, IsRevoked | `AccessTokens` |
| Middleware, `middleware/auth.go` | none | Auth, Require, ClaimsFrom | `Accepts`, `Authorized`, `ClaimsSeen` |
| Permission matrix, `pkg/authz` | a constant table | Can | `Authz` |
| Team usecase, `usecase/team.go` | invitations | UpdateRole, Revoke, Invite | `Team`; Invite in `Desk`, its table in `Invitations` |
| Routes, `router.go` | none | which route stands behind which middleware | `Backend`, `RoutedLogout`, `Desk` (`Route`) |
| Tenants, `usecase/tenant.go` | clients: status, trial, activation code | Create, Suspend, Resume, IssueActivationCode, Delete | `Tenants`, `Desk` |
| Tickets, `usecase/ticket.go`, migration 0004 | tickets, messages, the `last_message_at` trigger | Reply, AssignToSelf, UpdateStatus, UpdatePriority | `Tickets`, `Desk` |
| Journal, `usecase/journal.go`, `audit_repo.go` | append-only audit rows | Write after each commit, paged List | Write in `Desk`; List not modelled |
| Overview, `usecase/overview.go` | none | aggregation over tenants | its query in `Panel`; the sums not modelled |
| Settings | one row per message template | Plans and Template (read), SaveTemplate | `Desk` |
| Web session, `web/src/lib/http.ts`, `lib/auth.ts`, `features/auth` | per tab: access token, user, status, the promise of a refresh; the browser's cookie | restoreSession, request with its one retry, refreshAccessToken, login, logout | `WebSession` |
| Query cache and mutations, the `use*.ts` hooks | cached answers by key, fetches in flight, `useMutation` calls | observe, fetch, invalidate, setQueryData, removeQueries, mutate and its callbacks | `QueryCache` (the library, external), `Panel` |
| Client screens, `features/clients` | filter, search, page, the form of a new client, the card's panels | everything the user does there | `ClientScreens`, `WebApp` |
| Ticket screens, `features/tickets` | filters, the open thread, the text of a reply | the same, in both places that show a thread | `TicketScreens`, `WebApp` |
| Team, settings and journal screens | the selected member, two windows, the text of the template, a period | the same; two filters of the journal left out | `TeamScreens`, `WebApp` |
| Demonstration stores, `features/*/mock.ts` | arrays in memory | the calls of the panel, refused by rules of their own | `Stores` |
| Seed, `cmd/seed` | rows it inserts | one pass, rerun after a crash | not modelled |
| Hashing, configuration, wiring, responses, other middleware, generated queries, design system | - | - | not modelled: pure computation, I/O, generated code or rendering |

How they interact: a handler calls one usecase; a usecase reads the clock once and
then runs SQL statements and Redis commands one after another, **each on its own, with
no transaction around them**. Nothing in the process is shared but the database,
Redis, the clock and the constant matrix. So the hard behaviours are the ones between
two statements: other requests' statements, a crash, a failed statement, a client that
went away, and values read earlier and used later (the failure counter, the role, the
check of an account, the instant `now`). The authorization middleware trusts a
role that was true when the JWT was signed.

In the browser there are no threads, but every `await` and every callback of a promise is a
place where something else may have run: another request's answer, another tab (which
shares the cookie and nothing else), a page load, a click that unmounts the component that
is waiting. What a screen shows is a cached answer of some earlier state of the server; a
mutation's callback tells the cache which answers to ask for again.

What would make each component correct: at most one exchange per refresh token, a dead
session that stays dead, one unbroken chain per session (refresh tokens); a deny key
that lives at least as long as the token (deny list); a bound on guesses (accounts); a
bound on how long a suspended or demoted member keeps rights (Auth and Team together);
member changes by active owners only (Team and the middleware); tables without orphans and
a journal that tells the truth (the desk); calls that settle, are applied once and belong to
the user on screen (the web session); screens that show what their user has just written,
and never a range, a text or a card that is not there (the panel). The hazards behind these,
those no property covers included, are listed in `PROJECT.json` at their lines.

## Modules

`Domain` holds the constants, roles and the clock. The stores extend it, one module per
table or Redis key space: `Accounts`, `RefreshTokens` and `AccessTokens` (the last two by
way of `TokenPairs`, the ids they share), `Tenants`, `Tickets`, `Invitations`. Their actions are
single SQL statements or Redis commands. `Auth` and `Team` extend the stores they use and sequence those statements.
`Backend` composes them with `Authz` and the clock, gives `Init`, `Next`, `Spec` and states
the properties. `RotationChain` is the abstract specification of the token store.
`Desk` composes `Tenants`, `Tickets`, `Invitations` and `Authz` in the same way: the usecases
that do not touch sessions, over one database. It is a specification of its own, because the two halves
share nothing but the members' ids and the roles in their JWTs.
`WebSession` is the browser's half of a session: tabs, calls in flight, the cookie, over a server
reduced to what its answers tell a client. `QueryCache` holds the rules of TanStack Query as operators on one
cache entry or one cache; `Panel` puts a route, the local state of what is mounted, the fetches
and the mutations in flight around it; `Stores` is what the calls do to the data on the other side, the
backend's rules or those of the demonstration stores; `ClientScreens`, `TicketScreens` and
`TeamScreens` are the screens, one action per thing the user can do and one per kind of mutation
that succeeds; `WebApp` composes them and states the properties. The two halves of the
client meet in one place only, the 401 that `request` turns into a refresh, so they are checked apart.
`MCBackend`, `MCDesk`, `MCWebSession` and `MCWebApp` instantiate the four specifications for TLC. The modules ending in `Proofs` hold the
theorems.

Correspondence with the code:

- `requests[r]` holds the local variables of the goroutine serving one HTTP call; `pc`
  names the statement it issues next. `Login` is `LoginStart`, `WrongPassword` and
  `RegisterFailure`, or `RightPassword`, `RegisterSuccess`, `OpenSession`, or
  `RefuseLogin`. `Refresh` is `RefreshStart`, `Lookup`, `CheckAccount`, `Rotate`, `MarkSpent`, with
  `CutSession` for a replayed token or an account that may not log in. `Logout` is
  `LogoutStart`, `LeaveSession`, `DenyAccess`. `Respond` is the answer reaching the client.
- `calls[c]` is the same for the team's calls: `ReadMember`, then `SuspendMember` and
  `CloseSessions`, or `SetRole`.
- `jobs[j]` is the same for the calls of `Desk`. `Begin` is the way through
  `middleware.Auth` and `middleware.Require`: `Route` is the table of `router.go`, `Permits` asks the
  matrix about the role in the caller's JWT (`ClaimedRole`). `Tenant.Create` is `StartCreate`,
  `InsertTenant`; `Suspend`, `Resume` and `IssueActivationCode` are `StartOnTenant`, `UpdateTenant`; `Delete` is
  `StartOnTenant`, `ReadTenant`, `RemoveTenant` (with the cascade of migration 0004); `Reply` is
  `StartOnTicket`, `ReadTicket`, `StampMessage`, `InsertMessage`, `LookupTenant`; the other ticket calls are
  `StartOnTicket`, `UpdateTicket`, `LookupTenant`; `Team.Invite` is `StartInvite`, `CheckPending`,
  `InsertInvitation`; `Settings.SaveTemplate` is `StartTemplate`, `SaveTemplate`. Each ends in `WriteAuditLog`.
- The INSERT of a reply takes two steps, because `sent_at DEFAULT now()` is the start of
  its transaction (`StampMessage`), while the row, the trigger and the foreign key take effect
  later (`InsertMessage`), perhaps after another transaction that held the ticket's row.
- `Abort`, `AbortCall` and `AbortJob` may come at any step: a statement that fails, a cancelled
  context or a dead process look alike, since the error path of each usecase only
  returns. What was committed stays.
- `calls[tab][c]` of `WebSession` is one call of a tab from `fetch` to the last line that awaits it: `sent`,
  `answered` (the answer is on its way back), `waiting` (for the tab's one refresh), `idle`. `Click`,
  `Submit`, `Logout` and `Open` begin calls, `Handle...` is the server, `Deliver...` the continuation in the
  browser: `DeliverAuthorized` is what `request` does with an answer, and the end of
  `restoreSession` when the call is its `/me`; `DeliverRefresh` is `doRefresh` settling for
  everybody who awaits the `refreshPromise` of `refreshAccessToken`. `restoring` names the `await` at which `restoreSession` stands. `Lose` is a
  `fetch` that rejects, or a refresh in which the server fails: that answer (5xx) clears the session in the tab and leaves the
  cookie, which `handler/auth.go:107` drops only with a session that is dead; a page load (`Open`) abandons what was in flight, and a refresh
  among it may still reach the server (`strays`).
- `route` and `ui` of `Panel` are the address and the `useState`s of what is mounted; `Remounted` says when a
  component loses its state, `Instance` whether a mutation's component is still the same one.
  `Watched` lists the queries that have an observer. `past` numbers the states of the
  server, and `cache[key].data` is the number of the one an answer shows. `AnswerQuery`, `DeliverQuery`,
  `FailQuery` are a fetch, `Age` the thirty seconds of `staleTime`; `MutateKnowing`, `HandleWrite`, then
  `DeliverCreated`, `DeliverAccess` with `SettleAccess`, `DeliverDeleted`, `DeliverTicket`, `DeliverTeam`,
  `DeliverSaved` or `DeliverError` are a mutation. `due` is a history variable: the state each
  view must have reached since a mutation about it succeeded. `due` leaves out what the call overtook
  (`Overtaken`, `Replaced`). A deletion remembers in `last` the client its panel was drawn for last, because a mounted
  `useMutation` hands the options of each render to the mutation under way.
- `users`, `refresh` are the tables; `access` the JWTs signed so far, `delivered` the pairs
  whose answer arrived, `deniedUntil` the Redis keys. `attempts`, `suspendedAt`,
  `roleChangedAt`, `closed`, `loggedOut`, `exchanged` are history variables that no
  guard reads.

Abstractions, each of which a reader may want to dispute:

- One call of `issuePairWithID` creates a JWT and a refresh row under one instant; one
  member of `Token` names the pair. Signing and inserting are one step: a JWT whose row was
  never inserted is never sent to anybody.
- A session is named by the first token of its chain instead of a random UUID. Ids and
  secrets are fresh, signatures sound, hashes collision-free.
- `GetByHash` and `RevokeSession` of a Logout are one step: the `session_id` of a row never
  changes, so nothing that runs in between matters.
- An unknown email, an unknown cookie and an unreachable Redis (the middleware answers
  503) change no state and are left out; a Redis that loses keys in a restart is left out
  too.
- The outcome of the password comparison is a free choice, up to `FailureBound`.
- A local is dropped from `requests` after the last statement that reads it, so that the
  state space does not remember it.
- The audit writes of Auth and of `UpdateRole` and `Revoke` are left out: they come after the commit
  and their errors are dropped. Those of the calls in `Desk` are steps of their own.
- In `Desk` the tickets are the seed's (no route creates one) and belong to clients the seed
  made. An `Invitee` is an email that is in nobody's account, so `GetByEmail` finds nothing.
  Names, addresses, plans, bodies and the text of an activation code are left out. The ids of clients
  and messages are fresh; a bound on them keeps a call waiting, which `AbortJob` ends.
- The journal is in order of insertion, without `created_at`. A DELETE that finds no row changes
  nothing and is journaled all the same, as in the code. The read of the client in `Ticket.writeAudit`
  may fail on its own and then only costs the entry the client's name (`named`).
- Roles do not change under `Desk`; that a JWT may lag behind the row is the business of
  `RoleChangeBoundsAccess` in `Backend`.
- `LogoutAll` has no route in `router.go`; it is offered to clients nevertheless, because
  the usecase and its tests have it.
- `WebSession` hands out tokens in the order of their issue. Its server exchanges a token in one step
  (that this is a race is the run `double_refresh`) and refuses an expired refresh token, a suspended
  user and an unknown cookie alike. The middleware may let a token of an ended session
  pass, because the deny list need not know it. StrictMode's doubled effect, which
  only development builds have, is left out; so are a second click on logout while the first is in flight and the
  login form's own remounting.
- In `WebApp` one user works in one tab; colleagues change what the server holds. `history.back()` is a
  visit to any route of the scene. A signed-out panel, and the cache that `logout` does not clear, are left out.
- A mock store answers before the user acts again: it has no network, only a short delay.
- Sorting of columns, the wording of errors, the filters of the journal by person and kind, "Обновить" in an
  empty list and the switches of the settings page without a call behind them are left
  out. In the mock store of the team an invitation adds nobody to the list; members' own addresses
  are not invited. A day has `PerDay` moments, and none is an hour longer than another.
- `RoutedLogout` chooses between Logout as `router.go` wires it (outside
  `middleware.Auth`, so the handler finds no claims) and Logout as `auth_test.go`
  calls it, with claims.

## Runs

| Run | Question | Result |
|---|---|---|
| `sequential` | one request at a time: `OneExchangePerToken`, `ClosedSessionsStayClosed`, `LogoutKillsAccess` | hold |
| `membership` | a member change against a login or refresh: `TypeOK`, `SuspensionBoundsAccess`, `RoleChangeBoundsAccess`, `OnlyOwnersAdminister` | hold |
| `concurrent` | three concurrent logins: `GuessesBeforeLock`; two concurrent requests implement `RotationChain`: `ChainsHold` | hold |
| `logout_routed` | Logout over the real routes: `LogoutKillsAccess` | violated |
| `double_refresh` | two refreshes of one token: `OneExchangePerToken` | violated |
| `revived_session` | a refresh across a revocation: `ClosedSessionsStayClosed` | violated |
| `lockout_race` | two wrong passwords: `LockedAtThreshold` | violated |
| `desk_work` | any three calls of the desk, two at a time: `TypeOK`, `NoOrphans`, `EmailsStayUnique`, `JournalClaimsWhatHappened`, `DeletionClaimedByOverlap`, `RolesKeepToTheirDuties`, `StampLagsOnlyUnderOverlap` | hold |
| `web_session` | two tabs, their calls, losses and page loads: `TypeOK`, `ReuseHasACause`, `AppliedAtMostOnce`, `UserOwnsToken`, and under fairness `CallsSettle`, `LeavesChecking` | hold |
| `web_work` | nine visits to the screens, with a server or with the mock stores: `TypeOK`, `OlderOnlyIfOvertaken`, `ConflictExplained`, `TypedTextSurvives`, `RangeIsHonest`, `PeriodKeepsWholeDays`, `NothingAskedOfTheDeleted`, and under fairness `ComesToRest` | hold |
| `revoked_at_once` | an owner revokes a member who is signed in: `RevokedLosesAccessAtOnce` | violated |
| `desk_stamp` | two replies to one ticket: `StampIsNewest` | violated |

`sequential` and the three races are one story: `OneExchangePerToken` and
`ClosedSessionsStayClosed` hold of every sequence of calls that run one after the other,
which is what `auth_test.go` exercises, and fail as soon as two calls overlap. The proofs
say exactly which overlap it takes: `ExchangedOnce` and `ClosedForGood` name one window each, and
`InSequence` is the run `sequential` for every value of the constants.
What survives concurrency is weaker: the chain structure (`ChainsHold`), the
bounds in time (`SuspensionBoundsAccess`, `RoleChangeBoundsAccess`) and the bound on
guesses (`GuessesBeforeLock`), all checked and proved.

`desk_work` asks whether the usecases, which check first and write later without a
transaction, are carried by what the schema enforces: foreign keys with their cascades,
the UNIQUE columns, the partial index on pending invitations. `JournalClaimsWhatHappened` counts entries
against the rows that changed. It speaks of deletions only as far as the client is gone, since two calls that have both read
a client both journal its deletion; `DeletionClaimedByOverlap` bounds that by the number of calls that can overlap, and
its mutant lets a call go on that has not found the client.

`web_session` asks what the comments in `http.ts` and `auth.ts` promise of the single-flight refresh.
That it is single per tab only is no secret to the server: `ReuseHasACause` says that a used token comes back,
and its family is ended, only after an answer that never came or when two tabs presented the
cookie. `UserOwnsToken` is true as long as no sign-in overlaps a refresh, a `/me` or
somebody else's session in another tab (`mixed` remembers that one did); what happens then is described below.
`LeavesChecking` has an exception too, `stranded`, see below.

`web_work` asks whether the hooks invalidate enough and in the right order. The comments promise
that after a call no view it concerns shows anything older at rest. Which views a call concerns is what
`DeliverTicket` and the others claim by their last argument; a tab's mutation claims its client's own list
alone, for that is what its comment says. The code does not keep that promise of every view, so the run checks what it does keep,
`OlderOnlyIfOvertaken`. Two things are left out there, and nothing else: a first load the server answered before the call,
which `invalidateQueries` joins instead of cancelling (`Overtaken`), and the card that the answer of a creation
replaces (`Replaced`); both are described below. `NothingAskedOfTheDeleted` is of the same kind: nothing is asked about a
deleted client in any case, and its cards leave the cache unless the panel was drawn for another client since (`last`).

The six violations, quoted in `PROJECT.json` "findings":

- **Logout leaves the access token alive.** `router.go:62` mounts `/auth/logout` outside the
  authenticated group, so `ClaimsFrom` finds nothing and the deny key is never written.
- **Two refreshes with one token both succeed** when both pass `Lookup` before either
  reaches `MarkUsed`; the conditional UPDATE of the second changes no row and nobody
  looks at the count.
- **A revoked session comes back** when a refresh that has passed its checks inserts
  the successor after the revocation.
- **The lock can miss its threshold**, because `registerFailure` compares a counter read
  before the hash was computed, though the SQL comment promises no such window.
- **`last_message_at` can go back**: the trigger copies `sent_at` of the reply that is stored last,
  which may have begun first. `StampLagsOnlyUnderOverlap` says that this takes two replies
  that overlap.
- **A revoked member keeps access** for up to `AccessTTL`, though the panel tells the owner "сразу потеряет доступ" twice
  (`TeamPage.tsx:257`, `:304`): `Team.Revoke` closes the sessions and denies no JWT. `SuspensionBoundsAccess` is what holds.

Seen while modelling, without a run of their own:

- Suspending a trial client leaves `trial_ends_at` set, and resuming makes it active, never trial
  again; `0003_tenants.sql:28` says the column is set only in status `trial`.
- An entry written for a ticket after its client was deleted carries no client name
  (`named = FALSE`), although `handler/journal.go:53-56` counts on the name outliving the client.
- Two deletions of one client that both read it first are both reported and
  journaled as successful (`DeletionClaimedByOverlap` says how often).
- `HasPending` ignores `expires_at`, and the unique index does too: an expired invitation blocks the email
  for good.
- The page size of the journal is echoed unclamped (`handler/journal.go:95`) while the repository clamps
  it; the client asks for 200 entries and never for a second page.
- A tab can show one person and act as another (`UserOwnsToken` leaves the case out): `restoreSession` (`api.ts:55`) pairs the user `/me` named
  with whatever token the store holds by then, although its comment says that it is the one `refreshAccessToken` has put there; a
  sign-in on the login page may have put its own there meanwhile.
- A list loaded for the first time during a change stays old (`OlderOnlyIfOvertaken` leaves the case out): resume a client from its card and open the list, never
  loaded before, meanwhile. Its answer, given before the change, may arrive after the success that
  invalidated it; it counts as fresh and shows the client paused, although `useClients.ts:111-116` invalidates the section lest list and card disagree.
- A deletion forgets the wrong client when the user has gone on to another client's access tab: `onSuccess` (`useClients.ts:152-158`) runs with the id of
  the panel's latest render, that client's queries are removed, its card is left, and the deleted client's card stays in the cache.
- When the network fails in `restoreSession`'s first call, the promise rejects outside its `try` and the status
  stays `checking`: a blank page until it is reloaded (`stranded`). When it fails in `/me`, the session that a sign-in has
  put there meanwhile is cleared.
- A logout while a refresh is in flight clears the session, and the refresh's answer then puts a token back
  into it and a cookie into the browser, although the status stays anonymous.
- A page reloaded during a refresh presents the same cookie twice. If the first exchange took place, the second one
  is taken for a theft and the session ends.
- `useClients.ts:105` puts the answer of a creation into the card's cache entry whatever is there. When that answer comes
  after the card has been read anew, and after a change of the same client, the card goes back to its first state
  until it is fetched again (`OlderOnlyIfOvertaken` leaves that card out).
- The answer to "is this email taken" is kept for ever (`staleTime: Infinity`), after the panel's own creation of
  such a client too; the overview is invalidated by no mutation; the cache is not cleared at logout.
- The settings page seeds its text at mount from the cache and not again when the refetch arrives. After a colleague's change
  a second visit shows the old text as an edit of the user's own, ready to be saved over the colleague's.
- A refresh the server fails in (5xx) signs the tab out, although the cookie stays and a page load would restore the session.
- The access tab is not keyed by the client (the deletion above comes of it); "?suspend=1" opens the form again
  after the client has been resumed; what was typed to confirm stays.
- `onDeleted` and `onRevoked` act on the screen as it is when the answer comes: the user is taken back to the list
  from wherever he went within the section, and the panel of a member selected meanwhile is closed.
- A reply typed further while it is being sent is emptied with it; a role or a priority chosen twice in quick succession may be
  stored in either order; the link of an invitation whose window was closed in the meantime is shown to nobody.
- `OPEN_TICKETS` in the clients' mock store is a constant that the tickets' mock store does not change; `parseRuDate` takes 31.02 for a
  day in March.
- The seed inserts a ticket and its messages in separate statements and skips a ticket that exists: after a crash
  in between it stays without messages. `DeleteExpired` is called by nothing, so `refresh_tokens` only grows. Redis
  writes to disk once a second: a restart forgets the newest deny keys.

Bounds. The clock runs to `MaxTime` and the lifetimes are 1 to 3 units: enough for a token
to be issued, to expire and to be replayed after it expired, and for an entry
instant to differ from the instant of a later statement. In `sequential` `AccessTTL` is
shorter than `RefreshTTL`, as configured (15 minutes against 30 days).
Three tokens make a login and two rotations, or two sessions, one of them rotated.
`concurrent` has three slots, which it takes to make the bound on guesses differ from the threshold by more than
one (with one guess fewer allowed, TLC refutes it). All three at once are
for guessing only: the state constraint `GuessingOrRotating` of `MCBackend` goes on from a state either with logins alone and at most
one session, or with two requests and nobody guessing. The proofs of both properties know no such limit. `MaxFailedAttempts` and `FailureBound` are set so that the counter can pass the
threshold. A run offers only the calls its question is about (`Offered`). Request slots,
job slots, call slots, tokens, emails and message ids are symmetric: no property and no initial state tells them
apart, and no liveness is checked under symmetry. In `desk_work` two slots make every pair of calls overlap, and a third call (`JobBound`)
meets what the two have left: a reply to a ticket of a client whose deletion is
under way, then another reply or another deletion. One ticket of one client, two new client ids, two emails, one invitee
and two messages are what three calls can use; one tick (`MaxTime`) tells the start of a reply from its end.
An owner, a support member and a viewer stand for the matrix (the proof covers every role); `desk_stamp` needs a second tick.
In `web_session` two tabs, two users, two requests beside `me` and a `Budget` of 4 user actions, expiries
and losses in a first visit (a login, a click, an expiry and a loss reach every branch) and 3 in a visit that begins the morning
after (`LongBudget`), where each tab has an expired token and a cookie from the last one: two tabs that
refresh at once, one of them losing its answer, take no more. Tabs are numbers because the first visit and the
cookie single them out.
`web_work` plays nine scenes, each a set of routes whose queries and mutations touch the same
keys, with 2 to 5 user actions, losses, colleagues' changes and agings (`effort`): the
mutants in `PROJECT.json` are found within them. Two mutations at a time (`Slot`) let
one overtake another; two clients and two new ids, one ticket, two members, two emails, two texts, page sizes 1
and 2 (so that two clients are two pages or one) are what the actions can tell apart.
The journal's moments are 0 to 17, two a day: nine days, so that the period of seven days cuts something off.
The refuting runs are as small as their counterexamples allow: `revoked_at_once` has one request, one member's login and one revocation.
`CHECK_DEADLOCK FALSE`: the clock and the
fresh ids of a small instance run out, and a server without requests is idle.

Fairness. The backend and the desk have none: their properties are safety properties, and clients owe
the server nothing. `WebSession!FairSpec` has weak fairness of each `Handle` and each `Deliver` of each tab: `fetch`
either gets its answer or rejects, and the browser's event loop runs the continuation of a settled promise. User, clock
and network (`Lose` is not fair) owe nothing. `WebApp!FairSpec` has weak fairness of `Machine`, the same two
things for queries and mutations; the continuations never disable each other for good, so fairness of their disjunction is
enough, and it assumes less. With `Spend` bounding the user, the liveness properties say that whatever
the user has done, everything settles once he pauses.

## Proofs

All for every value of the constants, from the named assumptions in the modules
(lifetimes positive, `None` not an id, finitely many request slots; in `Desk` finitely many job slots (`JobAssumption`); in
`WebSession` one tab or two (`TabAssumption`) and request names that are not those of the session's own
calls; in `WebApp` scenes made of routes and calls
that exist, positive page sizes, finitely many clients, slots numbered from 1 and moments from 0):

| Theorem | Says |
|---|---|
| `BackendProofs!TypesAndLocals`, `TypeCorrect` | type correctness |
| `AccessProofs!SuspensionBounded`, `RoleChangeBounded` | the two bounds in time |
| `OwnerProofs!OwnersOnly` | member changes are made by active owners |
| `AccessProofs!LogoutEndsNothing` | over the real routes a JWT is accepted exactly until it expires: nothing ever ends one earlier |
| `LockoutProofs!GuessesBounded` | the bound on guesses for any number of logins at once |
| `ChainProofs!LinksHold`, `ChainsImplemented` | the token table implements `RotationChain` |
| `ChainProofs!ExchangedOnce` | one pair per token, unless two requests exchange it at once |
| `ChainProofs!ClosedForGood` | a closed session stays closed, unless a refresh is between its look-up and its insertion |
| `ChainProofs!InSequence` | both, when one request runs at a time and nobody administers |
| `DeskProofs!DeskHolds`, `DeskTypeCorrect` | type correctness of `Desk` |
| `DeskProofs!OrphanFree`, `EmailsUnique` | the tables stay consistent whatever the usecases checked before |
| `DeskProofs!DutiesKept` | no role does what the matrix and the routes do not give it |
| `DeskProofs!StampLagBounded` | how far `last_message_at` may lag |
| `DeskProofs!JournalTruthful` | the journal claims no more changes than were made, deletions aside, and no deletion of a client that is there |
| `DeskProofs!DeletionToldByOverlap` | one deletion is journaled at most once per call that can overlap it |
| `WebSessionProofs!SessionTypeCorrect` | type correctness of `WebSession` |
| `WebSessionProofs!AppliedOnce` | a click takes effect at most once |
| `WebSessionProofs!ReplayCaused` | a replayed refresh token has a cause |
| `WebSessionProofs!UserOwned` | outside mixed sessions a tab's token is its user's |
| `WebAppProofs!PanelIsSound`, `PanelTypes` | the panel's invariant; type correctness |
| `WebAppProofs!NothingOlder` | after a call, no view it concerns shows anything older at rest, but for what the call overtook |
| `WebAppProofs!RefusalsExplained` | an address is refused only after a failed or an outdated check |
| `WebAppProofs!TextSurvives` | no answer overwrites the text being typed, seeded from the cache or not |
| `WebAppProofs!HonestRange` | the page of the table on screen has rows whenever the list has |
| `WebAppProofs!WholeDaysKept` | a period of one's own is its days, all of them |
| `WebAppProofs!DeletionsForget` | nothing of a deleted client is in flight, nor in the cache unless another client's panel was drawn since |

The arguments:

- *Types.* `TypeOK` is not inductive: a step that copies `requests[r].role` into a JWT needs to
  know it is a role. `RequestShape` and `CallShape` say, for each `pc`, which locals are set
  and which rows exist; `AuthInv` adds that both halves of a pair exist together.
- *Staleness.* A value read from a row at or after instant `at` and signed for `at +
  AccessTTL` is harmless if the row changed no earlier than `at`. The relation `Fresh(u, role,
  at)` says just that, of the locals of a request about to sign and of every signed JWT;
  it is inductive because a change is stamped with the present instant and
  `at` is never in the future.
- *Owners.* No call makes an owner, demotes one or suspends one: the test in `ReadMember` cannot
  go stale, because nobody becomes an owner after it. So the owners are those of the start,
  and a JWT that says "owner" is true for ever.
- *Logout.* Over `router.go` no request ever has the claims that `DenyAccess` needs (`NoKeyInv`): no deny key is
  ever written, and `Accepts` comes down to the expiry. With claims, as `auth_test.go` passes them, the lemma
  `LogoutDeniesGivenClaims` says that the token is refused once Logout has returned: Redis counts the TTL from the
  instant it runs the command, which is not before the instant from which the usecase computed it.
- *Lockout.* If an account is unlocked, the requests that will not lock it by failing have
  read a counter below the threshold. Counting those still to write, as a finite set, bounds
  the number of guesses by `MaxFailedAttempts + N - 2`.
- *Chains.* `MarkUsed` must be a `Replace` of `RotationChain` or a stutter, though it links rows read and
  written statements ago. `ChainInv` says that a request about to mark holds two different rows of one session, that
  the new one is nobody's successor, and that no two requests hold the same new row; the condition
  `used_at IS NULL` does the rest. It also says that the rows of one session have one user: this is why
  revoking all rows of a user takes whole sessions, as `Kill` demands.
- *Overlap.* What a request found when it looked up its token (no successor: `Unspent`) stays true until it marks the
  row, because only `MarkSpent` writes a successor and, by `Apart`, no other request is about to write this one. So
  `MarkUsed` never finds its row used, the answer is the successor (`Linked`), and one token has one. For the
  sessions, only an insertion can put a live row into a closed one; a login opens a session whose name is
  new, and a rotation inserts into the session of the row it looked up, which `Guarded` keeps open. With one slot
  `Apart` is trivial, and `Guarded` is inductive: nothing runs between `Lookup`, which refuses a revoked row, and
  `Rotate`. `Apart` and `Guarded` are hypotheses about a behaviour, not claims: the runs `double_refresh` and
  `revived_session` show behaviours without them, and what then goes wrong.
- *Desk.* `JobShape` plays the part of `RequestShape`: `UpdateTicket` writes `choice` into a column
  and must know that it is a status when the call is one about a status. It also remembers that the route's
  permission was granted; `PermittedIsDuty` turns that, role by role, into the
  duties the comment of the matrix names. `DutiesKept` covers admins, whom the run leaves out.
- *Stamps.* No message and no job about to insert one carries an instant still to come
  (`SendersInPast`, `MessagesInPast`), so the message being stored is a witness for
  every older one of its ticket; a deletion takes a witness only together with its ticket.
- *Journal.* `effects` counts the changes; a job that has made one owes an entry until it has written it or
  dies. `Covered` says that the entries written and the entries owed, taken together, are at most the
  changes: a commit adds one to both, `WriteAuditLog` turns an owed entry into a written one, and an
  abort only loses one. Entries and jobs are counted as finite sets, so it needs no induction over the
  journal. `Honest` says that only `RemoveTenant` leads a deletion to the journal.
- *Deletions told.* `OverlapInv`: while a client is there, nothing in the journal says it was deleted, and once it is gone
  the entries about its deletion and the calls that may still write one are together no more than the job slots. A call
  that starts later reads no client and never joins them.
- *Applied.* Nothing was applied for a call that may still be sent: it waits for the refresh only
  after a 401, and a 401 applied nothing (`AppliedShape`).
- *Replays.* Three facts support each other (`CauseInv`). What is on its way to the server was
  presented by the tab that sent it. A used token is still in the cookie only if the answer
  that replaces it was lost or is on its way. And a pair on its way to the browser is known to
  nobody: not used, not presented, not the cookie, and in one answer only, so delivering it gives the
  cookie a token that never was presented.
- *Users.* While no session is mixed there is one user `u` for the cookie, for the token
  of every tab that shows a user or waits for `/me`, and for what the answers on their way bring
  (`OneUser`). A sign-in replaces `u` by its own user; that is sound because `mixed` becomes true
  unless nothing of the former user is in flight or shown in another tab.
- *Panel.* No property of `WebApp` is inductive, and they need each other. `PanelInv` says: a query without an observer
  fetches nothing; a query with one is loaded, under way or failing; and each debt (`due`) is in the data, in a fetch that
  the server answers late enough, or the entry is stale, and then it is either unobserved, so that the next
  observer makes it fetch, or in error. Every action that draws ends in `Show`, so one lemma,
  `ShowInv`, carries the invariant through all of them: what `Watch` does to observers that come and go, what
  `Remounted` resets, which mutations stay at home. The rest is per action: what a success writes, invalidates
  or removes, and that what it claims is among what it invalidates. The table's range is honest because `Remounted`
  starts the pages over when its rows change; a refused address is explained because the check of the address
  in the form is an observed query; a deletion forgets because it removes queries
  nobody observes any more, those of `last`, which is the client it was about unless the panel was drawn for
  another one since.
  Before the proof TLC checked `PanelInv`, over all states of `web_work` with less effort and over simulated visits
  to every route. Two things came to light that the model had wrong and the source decides:
  `setQueryData` leaves a fetch in flight alone, and the card of a client that failed to load forgets its error
  when it is opened again (`Opened`). A third is the code's: the late answer of a creation, above.

`LogoutDeniesGivenClaims` assumes `~RoutedLogout`; with the real routes the run `logout_routed` refutes what it says, and
`LogoutEndsNothing` says what is true instead.

Every safety property of a passing run is stated by a theorem, `LogoutKillsAccess` only by the conditional
lemma. Only model-checked: the liveness of
`WebSession` and `WebApp` (`CallsSettle`, `LeavesChecking`, `ComesToRest`), and the six violations, which no proof
could show. Out of the prover's reach: liveness, `ENABLED`, and induction over data.

## Not modelled

- The journal's pages and the sums of the overview: one SELECT each, and a computation on its rows.
- The seed and the key tool: run by hand, over constant data. What a crash of the seed leaves behind is said above.
- Password hashing, the texts of activation codes, formatting, the components of `web/src/ui` and the
  mapping of errors to answers: no state, and no property here tells their results apart.
- Start-up and shutdown: a shutdown looks like `Abort` to the backend and like `Lose` to the client. A Redis
  that forgets keys is left out.
- The code sqlc generates: the modules translate `queries/*.sql` themselves.

## Plan

1. *Done*: the sessions and the team (`Backend`), the clients and their tickets (`Desk`), the web session
   (`WebSession`), the panel's screens (`WebApp`), and the refinement of `RotationChain`, proved.
2. *Done*: a theorem for every safety property the runs check, the panel's included.
3. *Next* a minimum lock duration (the hazard at `auth.go:356`), the journal's filters by person and kind, and the
   panel of a user who signs out with mutations in flight, where `WebSession` and `WebApp` meet.
