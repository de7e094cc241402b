---------------------------- MODULE WebSession ----------------------------
(***************************************************************************)
(* The session as the browser keeps it (src/web/src/lib/http.ts,           *)
(* lib/auth.ts, features/auth): each tab holds an access token and a user  *)
(* in memory, all tabs share the refresh cookie, and a request answered    *)
(* 401 waits for the tab's one refresh and is sent once more.  The server  *)
(* is reduced to what its answers tell a client: token pairs in families,  *)
(* rotation, and the revocation of a family whose used token comes back.   *)
(***************************************************************************)
EXTENDS Integers, Sequences

CONSTANTS None, Tab, User,
          Request,   \* requests a screen of one tab may have in flight
          Budget,    \* clicks, page loads, expiries and losses in a visit
          LongBudget \* the same for tabs left open over night

ASSUME BudgetAssumption == Budget \in Nat /\ LongBudget \in Nat
ASSUME TabAssumption == Tab \in {{1}, {1, 2}}
ASSUME NamesAssumption ==
  None \notin User /\ Request \cap {"me", "refresh", "login", "logout"} = {}

VARIABLES auth,      \* per tab: lib/auth.ts's state
          page,      \* per tab: "none" (never used), "closed", "login" or "app"
          calls,     \* per tab: what is in flight, by the call's name
          restoring, \* per tab: the await restoreSession stands at
          stranded,  \* per tab: restoreSession rejected at its first call
          cookie,    \* the refresh cookie of the browser, 0 without one
          pairs,     \* server: the token pairs, in the order of their issue
          used,      \* server: refresh tokens that were exchanged
          ended,     \* server: families revoked
          expired,   \* server: access tokens past their fifteen minutes
          strays,    \* refresh calls of pages that are gone, not yet handled
          reused,    \* history: used tokens the server saw again
          presented, \* history: which tab presented which refresh token
          unheard,   \* history: presented tokens whose answer never came
          mixed,     \* history: a sign-in overlapped another session
          left       \* what remains of Budget

server == <<pairs, used, ended, expired, reused>>
history == <<presented, unheard, mixed>>
vars == <<auth, page, calls, restoring, stranded, cookie, server, strays, history, left>>

\* restoreSession's GET /me goes through request() as any other call does.
Authorized == Request \cup {"me"}
Call == Authorized \cup {"refresh", "login", "logout"}
TokenOrNot == 0..Len(pairs)
UserOrNot == User \cup {None}

Idle == [at |-> "idle", token |-> 0, retry |-> FALSE, user |-> None,
         answer |-> "none", pair |-> 0, applied |-> 0]
ClearedToUnknown == [token |-> 0, user |-> None, status |-> "signed out"]
Cleared == [token |-> 0, user |-> None, status |-> "anonymous"]
Family(n) == pairs[n].family
InFlight(tab, c) == calls[tab][c].at # "idle"
Sent(token, retry) == [Idle EXCEPT !.at = "sent", !.token = token, !.retry = retry]

TypeOK ==
  /\ pairs \in Seq([family : Nat \ {0}, user : User])
  /\ auth \in [Tab -> [token : TokenOrNot, user : UserOrNot,
                       status : {"checking", "authenticated", "anonymous"}]]
  /\ page \in [Tab -> {"none", "closed", "login", "app"}]
  /\ calls \in [Tab -> [Call -> [at : {"idle", "sent", "answered", "waiting"},
                                 token : TokenOrNot, retry : BOOLEAN, user : UserOrNot,
                                 answer : {"none", "ok", "denied", "failed", "lost"},
                                 pair : TokenOrNot, applied : Nat]]]
  /\ restoring \in [Tab -> {"no", "refresh", "me"}]
  /\ stranded \in [Tab -> BOOLEAN]
  /\ cookie \in TokenOrNot
  /\ used \subseteq 1..Len(pairs) /\ ended \subseteq Nat /\ expired \subseteq 1..Len(pairs)
  /\ strays \subseteq TokenOrNot /\ reused \subseteq used /\ unheard \subseteq TokenOrNot
  /\ presented \subseteq Tab \X TokenOrNot
  /\ mixed \in BOOLEAN /\ left \in Nat

Nothing == [tab \in Tab |-> [c \in Call |-> Idle]]

\* A visit in one tab: the browser may have a cookie of an earlier one.
FirstVisit ==
  /\ page = [tab \in Tab |-> IF tab = 1 THEN "closed" ELSE "none"]
  /\ auth = [tab \in Tab |-> [Cleared EXCEPT !.status = "checking"]]
  /\ \E u \in User : pairs = <<[family |-> 1, user |-> u]>>
  /\ cookie \in {0, 1}
  /\ used = {} /\ expired = {1}
  /\ left = Budget

\* All tabs were opened one after another and left over night: each has a
\* user and a token that is too old, the cookie is the last tab's.
Overnight ==
  LET last == IF 2 \in Tab THEN 2 ELSE 1 IN
  /\ page = [tab \in Tab |-> "app"]
  /\ \E u \in User :
       /\ pairs = [n \in 1..last |-> [family |-> 1, user |-> u]]
       /\ auth = [tab \in Tab |-> [token |-> tab, user |-> u, status |-> "authenticated"]]
  /\ cookie = last
  /\ used = 1..last - 1 /\ expired = 1..last
  /\ left = LongBudget

Init ==
  /\ FirstVisit \/ Overnight
  /\ calls = Nothing /\ restoring = [tab \in Tab |-> "no"]
  /\ stranded = [tab \in Tab |-> FALSE]
  /\ ended = {} /\ strays = {} /\ reused = {}
  /\ presented = {} /\ unheard = {} /\ mixed = FALSE

Spend == left > 0 /\ left' = left - 1
---------------------------------------------------------------------------
(* The tab's side: what the user starts.                                   *)

\* RequireAuth sends a tab that turned anonymous to the login page.
Redirected(tab, status) ==
  IF status = "anonymous" /\ page[tab] = "app" THEN [page EXCEPT ![tab] = "login"] ELSE page

\* A page load: the module state is new, and restoreSession starts with the
\* silent refresh.  What the former page had in flight is abandoned; its
\* refresh may still reach the server.
Open(tab) ==
  LET old == calls[tab]["refresh"]
      forsaken == IF InFlight(tab, "refresh") THEN {old.token} ELSE {}
  IN /\ Spend
     /\ page[tab] # "none"
     /\ \E p \in {"login", "app"} : page' = [page EXCEPT ![tab] = p]
     /\ auth' = [auth EXCEPT ![tab] = [Cleared EXCEPT !.status = "checking"]]
     /\ calls' = [calls EXCEPT ![tab] =
          [c \in Call |-> IF c = "refresh" THEN Sent(cookie, FALSE) ELSE Idle]]
     /\ restoring' = [restoring EXCEPT ![tab] = "refresh"]
     /\ stranded' = [stranded EXCEPT ![tab] = FALSE]
     /\ strays' = strays \cup {t \in forsaken : old.at = "sent"}
     /\ presented' = presented \cup {<<tab, cookie>>}
     /\ unheard' = unheard \cup forsaken
     /\ UNCHANGED <<cookie, server, mixed>>

\* A screen behind RequireAuth sends a request with the token held now.
Click(tab, r) ==
  /\ Spend
  /\ page[tab] = "app" /\ auth[tab].status = "authenticated"
  /\ ~InFlight(tab, r)
  /\ calls' = [calls EXCEPT ![tab][r] = Sent(auth[tab].token, FALSE)]
  /\ UNCHANGED <<auth, page, restoring, stranded, cookie, server, strays, history>>

\* LoginPage, its button disabled while a sign-in is pending.  Nothing keeps
\* it from being submitted while restoreSession is still on its way.
Submit(tab, u) ==
  /\ Spend
  /\ page[tab] = "login" /\ ~InFlight(tab, "login")
  /\ calls' = [calls EXCEPT ![tab]["login"] = [Sent(auth[tab].token, FALSE) EXCEPT !.user = u]]
  /\ UNCHANGED <<auth, page, restoring, stranded, cookie, server, strays, history>>

\* The button of the Topbar, there once the user is known.
Logout(tab) ==
  /\ Spend
  /\ page[tab] = "app" /\ auth[tab].status = "authenticated" /\ ~InFlight(tab, "logout")
  /\ calls' = [calls EXCEPT ![tab]["logout"] = Sent(cookie, FALSE)]
  /\ UNCHANGED <<auth, page, restoring, stranded, cookie, server, strays, history>>
---------------------------------------------------------------------------
(* The server's side.                                                      *)

\* usecase/auth.go Refresh: exchanged once, and a used token ends its family.
Exchange(token) ==
  /\ IF token # 0 /\ token \in used THEN /\ reused' = reused \cup {token}
                                         /\ ended' = ended \cup {Family(token)}
                                    ELSE UNCHANGED <<reused, ended>>
  /\ IF token = 0 \/ token \in used \/ Family(token) \in ended
       THEN UNCHANGED <<pairs, used>>
       ELSE pairs' = Append(pairs, pairs[token]) /\ used' = used \cup {token}
  /\ UNCHANGED expired

Answer(tab, c, answer) ==
  calls' = [calls EXCEPT ![tab][c].at = "answered", ![tab][c].answer = answer]

HandleRefresh(tab) ==
  LET call == calls[tab]["refresh"] IN
  /\ call.at = "sent"
  /\ Exchange(call.token)
  /\ calls' = [calls EXCEPT ![tab]["refresh"] =
       [call EXCEPT !.at = "answered",
          !.answer = IF Len(pairs') > Len(pairs) THEN "ok" ELSE "denied",
          !.pair = IF Len(pairs') > Len(pairs) THEN Len(pairs') ELSE 0]]
  /\ UNCHANGED <<auth, page, restoring, stranded, cookie, strays, history, left>>

HandleStray ==
  \E token \in strays :
    /\ Exchange(token)
    /\ strays' = strays \ {token}
    /\ UNCHANGED <<auth, page, calls, restoring, stranded, cookie, history, left>>

\* A sign-in starts a family of its own, or the password is wrong.
HandleLogin(tab) ==
  LET call == calls[tab]["login"] IN
  /\ call.at = "sent"
  /\ \/ Answer(tab, "login", "denied") /\ UNCHANGED pairs
     \/ /\ pairs' = Append(pairs, [family |-> Len(pairs) + 1, user |-> call.user])
        /\ calls' = [calls EXCEPT ![tab]["login"] =
             [call EXCEPT !.at = "answered", !.answer = "ok", !.pair = Len(pairs')]]
  /\ UNCHANGED <<auth, page, restoring, stranded, cookie, used, ended, expired, reused,
                 strays, history, left>>

\* The family of the cookie ends; the route answers whether or not it knew it.
HandleLogout(tab) ==
  LET call == calls[tab]["logout"] IN
  /\ call.at = "sent"
  /\ ended' = IF call.token = 0 THEN ended ELSE ended \cup {Family(call.token)}
  /\ Answer(tab, "logout", "ok")
  /\ UNCHANGED <<auth, page, restoring, stranded, cookie, pairs, used, expired, reused,
                 strays, history, left>>

\* The middleware: an expired token is refused, one of an ended family is
\* refused while the deny list holds it.  "ok" is every answer but 401.
HandleAuthorized(tab, c) ==
  LET call == calls[tab][c]
      refused == call.token = 0 \/ call.token \in expired
  IN /\ call.at = "sent"
     /\ \/ /\ refused \/ Family(call.token) \in ended
           /\ Answer(tab, c, "denied")
        \/ /\ ~refused
           /\ calls' = [calls EXCEPT ![tab][c] =
                [call EXCEPT !.at = "answered", !.answer = "ok",
                             !.user = pairs[call.token].user, !.applied = @ + 1]]
     /\ UNCHANGED <<auth, page, restoring, stranded, cookie, server, strays, history, left>>

Expire(n) ==
  /\ Spend
  /\ n \in 1..Len(pairs) \ expired
  /\ expired' = expired \cup {n}
  /\ UNCHANGED <<auth, page, calls, restoring, stranded, cookie, pairs, used, ended, reused,
                 strays, history>>

\* The network loses the call or its answer, and fetch rejects; or the server
\* fails in a refresh, before the exchange or after it, and its answer is an
\* error that leaves the cookie alone.
Lose(tab, c) ==
  LET call == calls[tab][c] IN
  /\ Spend
  /\ call.at = "sent" \/ (call.at = "answered" /\ call.answer \notin {"lost", "failed"})
  /\ Answer(tab, c, "lost") \/ (c = "refresh" /\ Answer(tab, c, "failed"))
  /\ unheard' = IF c = "refresh" /\ call.at = "answered" THEN unheard \cup {call.token}
                ELSE unheard
  /\ UNCHANGED <<auth, page, restoring, stranded, cookie, server, strays, presented, mixed>>

LoseStray ==
  \E token \in strays :
    /\ Spend
    /\ strays' = strays \ {token}
    /\ UNCHANGED <<auth, page, calls, restoring, stranded, cookie, server, history>>
---------------------------------------------------------------------------
(* The tab's side: an answer arrives.                                      *)

Answered(tab, c) == calls[tab][c].at = "answered"

\* A 401 is worth one more attempt, after a refresh.
RetryAnyFailure(call) == call.answer # "ok" /\ ~call.retry
WorthRetrying(call) == call.answer = "denied" /\ ~call.retry

\* refreshPromise ??= ...: a refresh under way is joined, not repeated.
RefreshUnshared(tab) == calls[tab]["refresh"].at # "sent"
RefreshFree(tab) == calls[tab]["refresh"].at = "idle"

\* restoreSession's try and catch around /me.
RestoreUncaught(tab, call) ==
  IF call.answer = "ok"
    THEN [token |-> auth[tab].token, user |-> call.user, status |-> "authenticated"]
    ELSE auth[tab]
RestoreOutcome(tab, call) ==
  IF call.answer = "ok"
    THEN [token |-> auth[tab].token, user |-> call.user, status |-> "authenticated"]
    ELSE Cleared

\* A 401 joins the tab's refresh, or starts it; any other answer ends the
\* call, and restoreSession with it if the call is its /me.
DeliverAuthorized(tab, c) ==
  LET call == calls[tab][c]
      again == WorthRetrying(call)
      starts == again /\ RefreshFree(tab)
  IN /\ Answered(tab, c)
     /\ calls' = [calls EXCEPT
          ![tab][c] = IF again THEN [@ EXCEPT !.at = "waiting"] ELSE Idle,
          ![tab]["refresh"] = IF starts THEN Sent(cookie, FALSE) ELSE @]
     /\ presented' = IF starts THEN presented \cup {<<tab, cookie>>} ELSE presented
     /\ IF c = "me" /\ ~again
          THEN /\ auth' = [auth EXCEPT ![tab] = RestoreOutcome(tab, call)]
               /\ restoring' = [restoring EXCEPT ![tab] = "no"]
          ELSE UNCHANGED <<auth, restoring>>
     /\ page' = Redirected(tab, auth'[tab].status)
     /\ UNCHANGED <<stranded, cookie, server, strays, unheard, mixed, left>>

WaitsForGoodNews(tab, c) ==
  calls[tab][c].at = "waiting" /\ calls[tab]["refresh"].answer # "lost"
Waits(tab, c) == calls[tab][c].at = "waiting"

\* refreshPromise settles and everybody awaiting it goes on: with the new
\* token; signed out; or, when fetch rejected, with that error and no more.
DeliverRefresh(tab) ==
  LET call == calls[tab]["refresh"]
      ok == call.answer = "ok"
      out == call.answer \in {"denied", "failed"} \/ (call.answer = "lost" /\ Waits(tab, "me"))
  IN /\ Answered(tab, "refresh")
     /\ cookie' = CASE ok -> call.pair [] call.answer = "denied" -> 0 [] OTHER -> cookie
     /\ auth' = [auth EXCEPT ![tab] =
          IF out THEN Cleared ELSE IF ok THEN [@ EXCEPT !.token = call.pair] ELSE @]
     /\ calls' = [calls EXCEPT ![tab] =
          [c \in Call |->
             CASE c = "refresh" -> Idle
               [] c # "refresh" /\ Waits(tab, c) ->
                    IF ok THEN [Sent(call.pair, TRUE) EXCEPT !.applied = calls[tab][c].applied] ELSE Idle
               [] c = "me" /\ ~Waits(tab, c) /\ ok /\ restoring[tab] = "refresh" -> Sent(call.pair, FALSE)
               [] OTHER -> calls[tab][c]]]
     /\ restoring' = [restoring EXCEPT ![tab] =
          IF ok THEN IF @ = "refresh" THEN "me" ELSE @
          ELSE IF @ = "refresh" \/ Waits(tab, "me") THEN "no" ELSE @]
     /\ stranded' = [stranded EXCEPT ![tab] =
          @ \/ (call.answer = "lost" /\ restoring[tab] = "refresh")]
     /\ page' = Redirected(tab, auth'[tab].status)
     /\ UNCHANGED <<server, strays, history, left>>

\* setSession of a sign-in.
SignedInKeepingToken(tab, call) ==
  [token |-> IF auth[tab].token # 0 THEN auth[tab].token ELSE call.pair,
   user |-> call.user, status |-> "authenticated"]
SignedIn(tab, call) ==
  [token |-> call.pair, user |-> call.user, status |-> "authenticated"]

\* login(): setSession on success; an error only shows on the form.
DeliverLogin(tab) ==
  LET call == calls[tab]["login"]
      ok == call.answer = "ok"
      others == \E o \in Tab : \/ InFlight(o, "refresh") \/ InFlight(o, "me")
                               \/ o # tab /\ auth[o].user \notin {None, call.user}
  IN /\ Answered(tab, "login")
     /\ calls' = [calls EXCEPT ![tab]["login"] = Idle]
     /\ IF ok THEN /\ cookie' = call.pair
                   /\ auth' = [auth EXCEPT ![tab] = SignedIn(tab, call)]
                   /\ page' = [page EXCEPT ![tab] = "app"]
                   /\ mixed' = (mixed \/ others)
              ELSE UNCHANGED <<cookie, auth, page, mixed>>
     /\ UNCHANGED <<restoring, stranded, server, strays, presented, unheard, left>>

\* logout(): the session is cleared locally whatever became of the call.
DeliverLogout(tab) ==
  /\ Answered(tab, "logout")
  /\ cookie' = IF calls[tab]["logout"].answer = "ok" THEN 0 ELSE cookie
  /\ auth' = [auth EXCEPT ![tab] = Cleared]
  /\ page' = Redirected(tab, "anonymous")
  /\ calls' = [calls EXCEPT ![tab]["logout"] = Idle]
  /\ UNCHANGED <<restoring, stranded, server, strays, history, left>>
---------------------------------------------------------------------------
Handle(tab) ==
  \/ HandleRefresh(tab)
  \/ HandleLogin(tab)
  \/ HandleLogout(tab)
  \/ \E c \in Authorized : HandleAuthorized(tab, c)

Deliver(tab) ==
  \/ DeliverRefresh(tab)
  \/ DeliverLogin(tab)
  \/ DeliverLogout(tab)
  \/ \E c \in Authorized : DeliverAuthorized(tab, c)

Next ==
  \/ \E tab \in Tab :
       \/ Open(tab)
       \/ \E r \in Request : Click(tab, r)
       \/ \E u \in User : Submit(tab, u)
       \/ Logout(tab)
       \/ Handle(tab)
       \/ Deliver(tab)
       \/ \E c \in Call : Lose(tab, c)
  \/ \E n \in 1..Len(pairs) : Expire(n)
  \/ HandleStray
  \/ LoseStray

\* fetch settles: the server handles what arrives and the browser runs the
\* continuation of every answer.  The user, the clock and a failing network
\* owe nothing.
Spec == Init /\ [][Next]_vars
FairSpec ==
  /\ Spec
  /\ \A tab \in Tab :
       /\ WF_vars(HandleRefresh(tab)) /\ WF_vars(DeliverRefresh(tab))
       /\ WF_vars(HandleLogin(tab)) /\ WF_vars(DeliverLogin(tab))
       /\ WF_vars(HandleLogout(tab)) /\ WF_vars(DeliverLogout(tab))
       /\ \A c \in Authorized :
            WF_vars(HandleAuthorized(tab, c)) /\ WF_vars(DeliverAuthorized(tab, c))
---------------------------------------------------------------------------
\* http.ts, the comment above refreshPromise: requests that fail together
\* share one refresh, so no tab by itself presents a token twice.  The server
\* sees a used token again only after an answer that never came, or when two
\* tabs presented it.
ReuseHasACause ==
  \A token \in reused :
    \/ token \in unheard
    \/ \E a, b \in Tab : a # b /\ {<<a, token>>, <<b, token>>} \subseteq presented

\* What the retry after a refresh must not do: a click takes effect on the
\* server at most once, however often it was sent.
AppliedAtMostOnce ==
  \A tab \in Tab, r \in Request : calls[tab][r].applied <= 1

\* auth.ts, updateAccessToken ("after a silent refresh the user is the same"):
\* true as long as no sign-in overlaps a refresh or somebody else's session
\* in the same browser.
UserOwnsToken ==
  ~mixed => \A tab \in Tab :
    auth[tab].status = "authenticated" /\ auth[tab].token # 0
      => pairs[auth[tab].token].user = auth[tab].user

\* Every promise a screen awaits settles: whenever the user pauses, each
\* request, sign-in, sign-out and refresh comes to its end, those that wait
\* for a refresh included.
CallsSettle == []<>(\A tab \in Tab, c \in Call : ~InFlight(tab, c))

\* RequireAuth's blank screen goes away, except where restoreSession's first
\* call rejects: nothing catches that.
LeavesChecking ==
  \A tab \in Tab :
    restoring[tab] # "no" ~> (auth[tab].status # "checking" \/ stranded[tab])
===========================================================================
