---------------------------- MODULE ChainProofs ----------------------------
(***************************************************************************)
(* The refresh-token table implements the rotation chains of               *)
(* RotationChain, whatever statements of however many requests come        *)
(* between those of one.  MarkUsed is the delicate one: it links two rows  *)
(* that were read and written statements ago.  The second part proves what *)
(* is left of two promises the code breaks when calls overlap: one pair    *)
(* for one token, and a closed session that stays closed.                  *)
(***************************************************************************)
EXTENDS BackendProofs

\* A session is named by one of its tokens, a successor is a row.
RowsLinked ==
  \A p \in DOMAIN refresh :
    /\ refresh[p].session \in DOMAIN refresh
    /\ refresh[p].replacedBy \in DOMAIN refresh \cup {None}

OneUserPerSession ==
  \A p, o \in DOMAIN refresh :
    refresh[p].session = refresh[o].session => refresh[p].user = refresh[o].user

\* A pair about to be linked is nobody's successor yet.
RequestLinks(q) ==
  /\ q.pc \in {"account", "rotate"} => q.user = refresh[q.token].user
  /\ q.pc = "mark" =>
       /\ q.token # q.issued
       /\ refresh[q.token].session = refresh[q.issued].session
       /\ \A o \in DOMAIN refresh : refresh[o].replacedBy # q.issued

\* No two requests are about to link the same pair.
IssuedApart ==
  \A r, x \in Request :
    r # x /\ At(r, "mark") /\ At(x, "mark") => requests[r].issued # requests[x].issued

ChainInv ==
  /\ RowsLinked /\ OneUserPerSession /\ IssuedApart
  /\ \A r \in Request : RequestLinks(requests[r])

\* What revocations leave alone.
SameLinks ==
  /\ DOMAIN (refresh') = DOMAIN refresh
  /\ \A p \in DOMAIN refresh : /\ refresh'[p].session = refresh[p].session
                               /\ refresh'[p].user = refresh[p].user
                               /\ refresh'[p].replacedBy = refresh[p].replacedBy
---------------------------------------------------------------------------
(* The statements, as steps of the abstract chains.                        *)

LEMMA ChainsStutter == refresh' = refresh => UNCHANGED Chains!vars
BY DEF Chains!vars

\* Revoking rows that make whole sessions.
LEMMA RevokeKills ==
  ASSUME RefreshTypeOK, NEW rows \in SUBSET DOMAIN refresh, RevokeRows(rows),
         \A p \in rows, o \in DOMAIN refresh : refresh[o].session = refresh[p].session => o \in rows
  PROVE  Chains!Next /\ SameLinks
<1>1. PICK S : S = {refresh[p].session : p \in rows} OBVIOUS
<1>2. /\ DOMAIN (refresh') = DOMAIN refresh
      /\ \A p \in DOMAIN refresh : /\ refresh'[p].session = refresh[p].session
                                   /\ refresh'[p].user = refresh[p].user
                                   /\ refresh'[p].replacedBy = refresh[p].replacedBy
                                   /\ refresh'[p].revoked = (refresh[p].revoked \/ p \in rows)
  BY DEF RevokeRows, RefreshTypeOK, RefreshRow
<1>3. \A p \in DOMAIN refresh : p \in rows <=> refresh[p].session \in S BY <1>1
<1>4. Chains!Kill(S)
  <2>1. S \subseteq Chains!Sessions BY <1>1 DEF Chains!Sessions, Chains!Issued
  <2>2. {p \in DOMAIN refresh' : refresh'[p].revoked}
          = {p \in DOMAIN refresh : refresh[p].revoked} \cup {p \in DOMAIN refresh : refresh[p].session \in S}
    BY <1>2, <1>3
  <2> QED BY <1>2, <2>1, <2>2 DEF Chains!Kill, Chains!Issued
<1>5. S \in SUBSET Chains!Sessions BY <1>4 DEF Chains!Kill
<1> QED BY <1>2, <1>4, <1>5 DEF Chains!Next, SameLinks

LEMMA CreateIssues ==
  ASSUME RefreshTypeOK, NEW p \in Token \ DOMAIN refresh, NEW u, NEW s \in Token, NEW now,
         CreateRefreshToken(p, u, s, now),
         s = p \/ \E o \in DOMAIN refresh : s = refresh[o].session
  PROVE  Chains!Next
<1>1. /\ DOMAIN (refresh') = DOMAIN refresh \cup {p}
      /\ refresh'[p].session = s /\ refresh'[p].replacedBy = None /\ refresh'[p].revoked = FALSE
      /\ \A o \in DOMAIN refresh : refresh'[o] = refresh[o]
  BY DEF CreateRefreshToken
<1>2. Chains!Issue(p, s)
  <2>1. s = p \/ s \in Chains!Sessions BY DEF Chains!Sessions, Chains!Issued
  <2>2. {o \in DOMAIN refresh' : refresh'[o].revoked} = {o \in DOMAIN refresh : refresh[o].revoked}
    BY <1>1
  <2> QED BY <1>1, <2>1, <2>2 DEF Chains!Issue, Chains!Issued
<1> QED BY <1>2 DEF Chains!Next

LEMMA MarkReplaces ==
  ASSUME RefreshTypeOK, NEW p \in DOMAIN refresh, NEW q \in DOMAIN refresh, MarkUsed(p, q),
         p # q, refresh[p].session = refresh[q].session,
         \A o \in DOMAIN refresh : refresh[o].replacedBy # q
  PROVE  [Chains!Next]_(Chains!vars)
<1>1. CASE IsUsed(refresh[p])
  <2>1. refresh' = refresh BY <1>1 DEF MarkUsed
  <2> QED BY <2>1, ChainsStutter
<1>2. CASE ~IsUsed(refresh[p])
  <2>1. /\ DOMAIN (refresh') = DOMAIN refresh
        /\ \A o \in DOMAIN refresh : /\ refresh'[o].session = refresh[o].session
                                     /\ refresh'[o].revoked = refresh[o].revoked
                                     /\ refresh'[o].replacedBy = IF o = p THEN q ELSE refresh[o].replacedBy
    BY <1>2 DEF MarkUsed, RefreshTypeOK, RefreshRow
  <2>2. {o \in DOMAIN refresh' : refresh'[o].revoked} = {o \in DOMAIN refresh : refresh[o].revoked}
    BY <2>1
  <2>3. Chains!Replace(p, q)
    BY <1>2, <2>1, <2>2 DEF Chains!Replace, Chains!Issued, IsUsed
  <2>4. p \in Token /\ q \in Token BY DEF RefreshTypeOK
  <2> QED BY <2>3, <2>4 DEF Chains!Next
<1> QED BY <1>1, <1>2
---------------------------------------------------------------------------
(* The invariant.                                                          *)

\* A request that does not come to link a pair by this step.
Unlinking(q) ==
  /\ q.pc # "mark"
  /\ q.pc \in {"account", "rotate"} =>
       q.token \in DOMAIN refresh /\ q.user = refresh[q.token].user

\* Nor one that exchanges a token or answers with a pair.
Plain(q) == q.pc \notin {"account", "rotate", "mark", "respond"}

LEMMA Held ==
  ASSUME AuthInv, ChainInv, NEW r \in Request
  PROVE  requests[r] \in RequestState /\ RequestShape(requests[r]) /\ RequestLinks(requests[r])
BY DEF AuthInv, AuthTypeOK, ChainInv

LEMMA RowsSame ==
  ASSUME RowsLinked, OneUserPerSession, SameLinks
  PROVE  RowsLinked' /\ OneUserPerSession'
BY DEF RowsLinked, OneUserPerSession, SameLinks

LEMMA LinksSame ==
  ASSUME AuthInv, ChainInv, SameLinks, NEW x \in Request
  PROVE  RequestLinks(requests[x])'
         \/ requests'[x] # requests[x]
<1> SUFFICES ASSUME requests'[x] = requests[x] PROVE RequestLinks(requests[x])' OBVIOUS
<1>1. PICK q : q = requests[x] OBVIOUS
<1>2. RequestShape(q) /\ RequestLinks(q) BY <1>1, Held
<1>3. RequestLinks(q)' BY <1>2 DEF RequestLinks, RequestShape, SameLinks
<1> QED BY <1>1, <1>3 DEF RequestLinks

\* One request moves, and the rows keep their links.
LEMMA LinksKept ==
  ASSUME AuthInv, ChainInv, SameLinks, NEW r \in Request, NEW q, Become(r, q), Unlinking(q)
  PROVE  ChainInv'
<1>1. requests'[r] = q /\ \A x \in Request \ {r} : requests'[x] = requests[x]
  BY DEF AuthInv, AuthTypeOK, Become
<1>2. RequestLinks(q)' BY DEF RequestLinks, Unlinking, SameLinks
<1>3. \A x \in Request : RequestLinks(requests[x])'
  <2> SUFFICES ASSUME NEW x \in Request PROVE RequestLinks(requests[x])' OBVIOUS
  <2>1. CASE x = r BY <1>1, <1>2, <2>1 DEF RequestLinks
  <2>2. CASE x # r BY <1>1, <2>2, LinksSame
  <2> QED BY <2>1, <2>2
<1>4. IssuedApart' BY <1>1 DEF ChainInv, IssuedApart, At, Unlinking
<1> QED BY <1>3, <1>4, RowsSame DEF ChainInv

LEMMA UnchangedLinks == AuthInv /\ refresh' = refresh => SameLinks
BY DEF SameLinks

\* Most steps of a request go to a statement that links nothing.
LEMMA LoginPlain ==
  ASSUME AuthInv, ChainInv, NEW r \in Request, LoginStep(r), ~OpenSession(r)
  PROVE  UNCHANGED refresh /\ \E q : Become(r, q) /\ Plain(q)
<1>1. UNCHANGED refresh
  BY DEF LoginStep, LoginStart, WrongPassword, RegisterFailure, RightPassword, RefuseLogin,
         RegisterSuccess, refreshVars
<1>2. requests[r] \in RequestState BY Held
<1>3. ASSUME NEW q, Become(r, q), q.pc \notin {"account", "rotate", "mark", "respond"}
      PROVE  \E p : Become(r, p) /\ Plain(p)
  BY <1>3 DEF Plain
<1>4. ASSUME NEW u \in User, LoginStart(r, u) PROVE \E q : Become(r, q) /\ Plain(q)
  <2>1. PICK q : q = [Idle EXCEPT !.pc = "authenticate", !.at = clock, !.user = u] OBVIOUS
  <2>2. q.pc = "authenticate" BY <2>1 DEF Idle
  <2> QED BY <1>3, <1>4, <2>1, <2>2 DEF LoginStart, Begin
<1>5. ASSUME WrongPassword(r) PROVE \E q : Become(r, q) /\ Plain(q)
  <2>1. PICK q : q = [requests[r] EXCEPT !.pc = "fail", !.failed = users[requests[r].user].failed] OBVIOUS
  <2>2. q.pc = "fail" BY <1>2, <2>1 DEF RequestState
  <2> QED BY <1>3, <1>5, <2>1, <2>2 DEF WrongPassword
<1>6. ASSUME RightPassword(r) PROVE \E q : Become(r, q) /\ Plain(q)
  <2>1. PICK q : q = [requests[r] EXCEPT !.pc = "welcome", !.role = users[requests[r].user].role] OBVIOUS
  <2>2. q.pc = "welcome" BY <1>2, <2>1 DEF RequestState
  <2> QED BY <1>3, <1>6, <2>1, <2>2 DEF RightPassword
<1>7. ASSUME RegisterSuccess(r) PROVE \E q : Become(r, q) /\ Plain(q)
  <2>1. PICK q : q = [requests[r] EXCEPT !.pc = "open"] OBVIOUS
  <2>2. q.pc = "open" BY <1>2, <2>1 DEF RequestState
  <2>3. Become(r, q) BY <1>7, <2>1 DEF RegisterSuccess, Goto, Become
  <2> QED BY <1>3, <2>2, <2>3
<1>8. ASSUME RegisterFailure(r) \/ RefuseLogin(r) PROVE \E q : Become(r, q) /\ Plain(q)
  <2>1. Become(r, Idle) BY <1>8 DEF RegisterFailure, RefuseLogin, Finish
  <2>2. Idle.pc = "idle" BY DEF Idle
  <2> QED BY <1>3, <2>1, <2>2
<1> QED BY <1>1, <1>4, <1>5, <1>6, <1>7, <1>8 DEF LoginStep

LEMMA RefreshUnlinking ==
  ASSUME AuthInv, ChainInv, NEW r \in Request, RefreshStep(r), ~Rotate(r), ~MarkSpent(r)
  PROVE  \E q : Become(r, q) /\ Unlinking(q)
<1>1. PICK t : t = requests[r].token OBVIOUS
<1>2. requests[r] \in RequestState /\ RequestShape(requests[r]) /\ RequestLinks(requests[r]) BY Held
<1>3. ASSUME NEW q, Become(r, q), q.pc \notin {"mark", "account", "rotate"}
      PROVE  \E p : Become(r, p) /\ Unlinking(p)
  BY <1>3 DEF Unlinking
<1>4. ASSUME NEW p \in Token, RefreshStart(r, p) PROVE \E q : Become(r, q) /\ Unlinking(q)
  <2>1. PICK q : q = [Idle EXCEPT !.pc = "lookup", !.at = clock, !.token = p] OBVIOUS
  <2>2. q.pc = "lookup" BY <2>1 DEF Idle
  <2> QED BY <1>3, <1>4, <2>1, <2>2 DEF RefreshStart, Begin
<1>5. ASSUME ToCut(r) PROVE \E q : Become(r, q) /\ Unlinking(q)
  <2>1. PICK q : q = [Idle EXCEPT !.pc = "cut", !.token = t] OBVIOUS
  <2>2. q.pc = "cut" BY <2>1 DEF Idle
  <2> QED BY <1>1, <1>3, <1>5, <2>1, <2>2 DEF ToCut
<1>6. ASSUME Finish(r) PROVE \E q : Become(r, q) /\ Unlinking(q)
  <2>1. Idle.pc = "idle" BY DEF Idle
  <2> QED BY <1>3, <1>6, <2>1 DEF Finish
<1>7. ASSUME Lookup(r) PROVE \E q : Become(r, q) /\ Unlinking(q)
  <2>1. CASE Become(r, [requests[r] EXCEPT !.pc = "account", !.user = refresh[t].user])
    <3>1. PICK q : q = [requests[r] EXCEPT !.pc = "account", !.user = refresh[t].user] OBVIOUS
    <3>2. q.pc = "account" /\ q.user = refresh[t].user /\ q.token = t
      BY <1>1, <1>2, <3>1 DEF RequestState
    <3>3. t \in DOMAIN refresh BY <1>1, <1>2, <1>7 DEF Lookup, At, RequestShape
    <3> QED BY <2>1, <3>1, <3>2, <3>3 DEF Unlinking
  <2> QED BY <1>1, <1>5, <1>6, <1>7, <2>1 DEF Lookup
<1>8. ASSUME CheckAccount(r) PROVE \E q : Become(r, q) /\ Unlinking(q)
  <2>1. PICK role : role = users[requests[r].user].role OBVIOUS
  <2>2. CASE Become(r, [requests[r] EXCEPT !.pc = "rotate", !.role = role])
    <3>1. PICK q : q = [requests[r] EXCEPT !.pc = "rotate", !.role = role] OBVIOUS
    <3>2. q.pc = "rotate" /\ q.user = requests[r].user /\ q.token = t
      BY <1>1, <1>2, <3>1 DEF RequestState
    <3>3. t \in DOMAIN refresh /\ requests[r].user = refresh[t].user
      BY <1>1, <1>2, <1>8 DEF CheckAccount, At, RequestShape, RequestLinks
    <3> QED BY <2>2, <3>1, <3>2, <3>3 DEF Unlinking
  <2> QED BY <1>5, <1>8, <2>1, <2>2 DEF CheckAccount
<1>9. ASSUME CutSession(r) PROVE \E q : Become(r, q) /\ Unlinking(q)
  BY <1>6, <1>9 DEF CutSession
<1> QED BY <1>4, <1>7, <1>8, <1>9 DEF RefreshStep

LEMMA EndPlain ==
  ASSUME AuthInv, ChainInv, NEW r \in Request, LogoutStep(r) \/ Respond(r) \/ Abort(r)
  PROVE  \E q : Become(r, q) /\ Plain(q)
<1>1. requests[r] \in RequestState BY Held
<1>2. ASSUME NEW q, Become(r, q), q.pc \notin {"account", "rotate", "mark", "respond"}
      PROVE  \E p : Become(r, p) /\ Plain(p)
  BY <1>2 DEF Plain
<1>3. ASSUME NEW p, NEW c, LogoutStart(r, p, c) PROVE \E q : Become(r, q) /\ Plain(q)
  <2>1. PICK q : q = [Idle EXCEPT !.pc = "leave", !.at = clock, !.token = p, !.claims = c] OBVIOUS
  <2>2. q.pc = "leave" BY <2>1 DEF Idle
  <2> QED BY <1>2, <1>3, <2>1, <2>2 DEF LogoutStart, Begin
<1>4. ASSUME NEW u \in User, LogoutAllStart(r, u) PROVE \E q : Become(r, q) /\ Plain(q)
  <2>1. PICK q : q = [Idle EXCEPT !.pc = "leave_all", !.user = u] OBVIOUS
  <2>2. q.pc = "leave_all" BY <2>1 DEF Idle
  <2> QED BY <1>2, <1>4, <2>1, <2>2 DEF LogoutAllStart, Begin
<1>5. ASSUME Finish(r) PROVE \E q : Become(r, q) /\ Plain(q)
  <2>1. Idle.pc = "idle" BY DEF Idle
  <2> QED BY <1>2, <1>5, <2>1 DEF Finish
<1>6. ASSUME Goto(r, "deny") PROVE \E q : Become(r, q) /\ Plain(q)
  <2>1. PICK q : q = [requests[r] EXCEPT !.pc = "deny"] OBVIOUS
  <2>2. q.pc = "deny" BY <1>1, <2>1 DEF RequestState
  <2>3. Become(r, q) BY <1>6, <2>1 DEF Goto, Become
  <2> QED BY <1>2, <2>2, <2>3
<1>7. LeaveSession(r) => Finish(r) \/ Goto(r, "deny") BY DEF LeaveSession, LogoutDone
<1>8. DenyAccess(r) \/ LogoutAll(r) \/ Respond(r) \/ Abort(r) => Finish(r)
  BY DEF DenyAccess, LogoutDone, LogoutAll, Respond, Abort
<1> QED BY <1>3, <1>4, <1>5, <1>6, <1>7, <1>8 DEF LogoutStep

\* Nobody moves, and the rows keep their links.
LEMMA LinksRest ==
  ASSUME AuthInv, ChainInv, SameLinks, UNCHANGED requests
  PROVE  ChainInv'
<1>1. \A x \in Request : RequestLinks(requests[x])' BY LinksSame
<1>2. IssuedApart' BY DEF ChainInv, IssuedApart, At
<1> QED BY <1>1, <1>2, RowsSame DEF ChainInv

\* A row is inserted: the first of a session, or one more of the user's.
LEMMA RowInserted ==
  ASSUME AuthInv, ChainInv, NEW p \in Token \ DOMAIN refresh, NEW u, NEW s, NEW now,
         CreateRefreshToken(p, u, s, now),
         \/ s = p
         \/ \E o \in DOMAIN refresh : s = refresh[o].session /\ u = refresh[o].user,
         NEW r \in Request, NEW q, Become(r, q), q.pc \notin {"account", "rotate"},
         q.pc = "mark" => q.issued = p /\ q.token \in DOMAIN refresh /\ refresh[q.token].session = s
  PROVE  ChainInv'
<1>1. /\ DOMAIN (refresh') = DOMAIN refresh \cup {p}
      /\ refresh'[p].session = s /\ refresh'[p].replacedBy = None /\ refresh'[p].user = u
      /\ \A o \in DOMAIN refresh : refresh'[o] = refresh[o]
  BY DEF CreateRefreshToken
<1>2. requests'[r] = q /\ \A x \in Request \ {r} : requests'[x] = requests[x]
  BY DEF AuthInv, AuthTypeOK, Become
<1>3. DOMAIN refresh \subseteq Token /\ None \notin Token
  BY NoneAssumption DEF NoneAssumption, AuthInv, RefreshTypeOK
<1>4. RowsLinked' BY <1>1 DEF ChainInv, RowsLinked
<1>5. OneUserPerSession'
  <2>1. ASSUME NEW o \in DOMAIN refresh, refresh[o].session = s PROVE refresh[o].user = u
    BY <2>1 DEF ChainInv, RowsLinked, OneUserPerSession
  <2> QED BY <1>1, <2>1 DEF ChainInv, OneUserPerSession
<1>6. IssuedApart'
  <2>1. \A x \in Request : At(x, "mark") => requests[x].issued # p
    BY Held DEF At, RequestShape
  <2> QED BY <1>2, <2>1 DEF ChainInv, IssuedApart, At
<1>7. RequestLinks(q)'
  <2> SUFFICES ASSUME q.pc = "mark" PROVE RequestLinks(q)' BY DEF RequestLinks
  <2>1. \A o \in DOMAIN refresh : refresh[o].replacedBy # p BY <1>3 DEF ChainInv, RowsLinked
  <2> QED BY <1>1, <1>3, <2>1 DEF RequestLinks
<1>8. ASSUME NEW x \in Request \ {r} PROVE RequestLinks(requests[x])'
  <2>1. PICK y : y = requests[x] OBVIOUS
  <2>2. RequestShape(y) /\ RequestLinks(y) BY <2>1, Held
  <2>3. RequestLinks(y)' BY <1>1, <1>3, <2>2 DEF RequestLinks, RequestShape
  <2> QED BY <1>2, <2>1, <2>3 DEF RequestLinks
<1>9. RequestLinks(requests[r])' BY <1>2, <1>7 DEF RequestLinks
<1> QED BY <1>4, <1>5, <1>6, <1>8, <1>9 DEF ChainInv

LEMMA OpenLinks ==
  ASSUME AuthInv, ChainInv, NEW r \in Request, OpenSession(r)
  PROVE  ChainInv' /\ Chains!Next
<1>1. PICK u, now : u = requests[r].user /\ now = requests[r].at OBVIOUS
<1>2. PICK p \in Token :
        /\ p \notin DOMAIN refresh /\ CreateRefreshToken(p, u, p, now)
        /\ Become(r, [Idle EXCEPT !.pc = "respond", !.issued = p])
  BY <1>1 DEF OpenSession, IssuePair
<1>3. PICK q : q = [Idle EXCEPT !.pc = "respond", !.issued = p] OBVIOUS
<1>4. q.pc = "respond" BY <1>3 DEF Idle
<1>5. ChainInv' BY <1>2, <1>3, <1>4, RowInserted
<1>6. Chains!Next BY <1>2, CreateIssues DEF AuthInv
<1> QED BY <1>5, <1>6

LEMMA RotateLinks ==
  ASSUME AuthInv, ChainInv, NEW r \in Request, Rotate(r)
  PROVE  ChainInv' /\ Chains!Next
<1>1. PICK t, u, now : t = requests[r].token /\ u = requests[r].user /\ now = requests[r].at OBVIOUS
<1>2. t \in DOMAIN refresh /\ u = refresh[t].user
  BY <1>1, Held DEF Rotate, At, RequestShape, RequestLinks
<1>3. PICK s : s = refresh[t].session OBVIOUS
<1>4. s \in Token BY <1>2, <1>3 DEF AuthInv, RefreshTypeOK, RefreshRow
<1>5. PICK p \in Token :
        /\ IssuePair(p, requests[r].user, requests[r].role, refresh[requests[r].token].session,
                     requests[r].at)
        /\ Become(r, [Idle EXCEPT !.pc = "mark", !.token = requests[r].token, !.issued = p])
  BY Zenon DEF Rotate
<1>6. PICK q : q = [Idle EXCEPT !.pc = "mark", !.token = t, !.issued = p] OBVIOUS
<1>10. p \notin DOMAIN refresh /\ CreateRefreshToken(p, u, s, now) /\ Become(r, q)
  BY <1>1, <1>3, <1>5, <1>6 DEF IssuePair
<1>7. q.pc = "mark" /\ q.token = t /\ q.issued = p BY <1>6 DEF Idle
<1>8. ChainInv' BY <1>2, <1>3, <1>7, <1>10, RowInserted
<1>9. Chains!Next BY <1>2, <1>3, <1>4, <1>10, CreateIssues DEF AuthInv
<1> QED BY <1>8, <1>9

\* Whether or not somebody else has marked the row since it was read.
LEMMA MarkLinks ==
  ASSUME AuthInv, ChainInv, NEW r \in Request, MarkSpent(r)
  PROVE  ChainInv' /\ [Chains!Next]_(Chains!vars)
<1>1. PICK t, i : t = requests[r].token /\ i = requests[r].issued OBVIOUS
<1>2. /\ t \in DOMAIN refresh /\ i \in DOMAIN refresh /\ t # i
      /\ refresh[t].session = refresh[i].session
      /\ \A o \in DOMAIN refresh : refresh[o].replacedBy # i
  BY <1>1, Held DEF MarkSpent, At, RequestShape, RequestLinks
<1>3. MarkUsed(t, i) BY <1>1 DEF MarkSpent
<1>4. [Chains!Next]_(Chains!vars) BY <1>2, <1>3, MarkReplaces DEF AuthInv
<1>5. /\ DOMAIN (refresh') = DOMAIN refresh
      /\ \A o \in DOMAIN refresh :
           /\ refresh'[o].session = refresh[o].session /\ refresh'[o].user = refresh[o].user
           /\ refresh'[o].replacedBy \in {refresh[o].replacedBy, i}
  BY <1>2, <1>3 DEF MarkUsed, AuthInv, RefreshTypeOK, RefreshRow
<1>6. PICK q : q = [requests[r] EXCEPT !.pc = "respond"] OBVIOUS
<1>7. q.pc = "respond" BY <1>6, Held DEF RequestState
<1>8. Become(r, q) BY <1>6 DEF MarkSpent, Goto, Become
<1>9. requests'[r] = q /\ \A x \in Request \ {r} : requests'[x] = requests[x]
  BY <1>8 DEF AuthInv, AuthTypeOK, Become
<1>10. RowsLinked' /\ OneUserPerSession'
  BY <1>2, <1>5 DEF ChainInv, RowsLinked, OneUserPerSession
<1>11. IssuedApart' BY <1>7, <1>9 DEF ChainInv, IssuedApart, At
<1>12. ASSUME NEW x \in Request \ {r} PROVE RequestLinks(requests[x])'
  <2>1. PICK y : y = requests[x] OBVIOUS
  <2>2. RequestShape(y) /\ RequestLinks(y) BY <2>1, Held
  <2>3. y.pc = "mark" => y.issued # i
    BY <1>1, <2>1 DEF ChainInv, IssuedApart, At, MarkSpent
  <2>4. RequestLinks(y)' BY <1>5, <2>2, <2>3 DEF RequestLinks, RequestShape
  <2> QED BY <1>9, <2>1, <2>4 DEF RequestLinks
<1>13. RequestLinks(requests[r])' BY <1>7, <1>9 DEF RequestLinks
<1> QED BY <1>4, <1>10, <1>11, <1>12, <1>13 DEF ChainInv

\* Revocation takes whole sessions: those of one name, or all of one user.
LEMMA RevocationLinks ==
  ASSUME AuthInv, ChainInv
  PROVE  /\ \A s : RevokeSession(s) => Chains!Next /\ SameLinks
         /\ \A u : RevokeAllForUser(u) => Chains!Next /\ SameLinks
<1>1. ASSUME NEW s, RevokeSession(s) PROVE Chains!Next /\ SameLinks
  BY <1>1, RevokeKills DEF RevokeSession, RowsOf, AuthInv
<1>2. ASSUME NEW u, RevokeAllForUser(u) PROVE Chains!Next /\ SameLinks
  <2>1. PICK rows \in SUBSET DOMAIN refresh :
          rows = {p \in DOMAIN refresh : refresh[p].user = u} /\ RevokeRows(rows)
    BY <1>2 DEF RevokeAllForUser
  <2>2. \A p \in rows, o \in DOMAIN refresh : refresh[o].session = refresh[p].session => o \in rows
    BY <2>1 DEF ChainInv, OneUserPerSession
  <2> QED BY <2>1, <2>2, RevokeKills DEF AuthInv
<1> QED BY <1>1, <1>2

Chained == ChainInv' /\ [Chains!Next]_(Chains!vars)

LEMMA RequestChains ==
  ASSUME AuthInv, ChainInv, AuthStep
  PROVE  Chained
<1>1. PICK r \in Request : LoginStep(r) \/ RefreshStep(r) \/ LogoutStep(r) \/ Respond(r) \/ Abort(r)
  BY DEF AuthStep
<1>2. ASSUME refresh' = refresh, NEW q, Become(r, q), Unlinking(q) PROVE Chained
  BY <1>2, ChainsStutter, UnchangedLinks, LinksKept DEF Chained
<1>3. ASSUME Chains!Next, SameLinks, NEW q, Become(r, q), Unlinking(q) PROVE Chained
  BY <1>3, LinksKept DEF Chained
<1>4. CASE LoginStep(r)
  <2>1. CASE OpenSession(r) BY <2>1, OpenLinks DEF Chained
  <2>2. CASE ~OpenSession(r)
    <3>1. PICK q : Become(r, q) /\ Unlinking(q) BY <1>4, <2>2, LoginPlain DEF Plain, Unlinking
    <3> QED BY <1>2, <1>4, <2>2, <3>1, LoginPlain
  <2> QED BY <2>1, <2>2
<1>5. CASE RefreshStep(r)
  <2>1. CASE Rotate(r) BY <2>1, RotateLinks DEF Chained
  <2>2. CASE MarkSpent(r) BY <2>2, MarkLinks DEF Chained
  <2>3. CASE ~Rotate(r) /\ ~MarkSpent(r)
    <3>1. PICK q : Become(r, q) /\ Unlinking(q) BY <1>5, <2>3, RefreshUnlinking
    <3>2. CASE CutSession(r)
      <4>1. PICK s : s = refresh[requests[r].token].session OBVIOUS
      <4>2. RevokeSession(s) BY <3>2, <4>1 DEF CutSession
      <4> QED BY <1>3, <3>1, <4>2, RevocationLinks
    <3>3. CASE ~CutSession(r)
      <4>1. refresh' = refresh
        BY <1>5, <2>3, <3>3 DEF RefreshStep, RefreshStart, Lookup, CheckAccount, refreshVars
      <4> QED BY <1>2, <3>1, <4>1
    <3> QED BY <3>2, <3>3
  <2> QED BY <2>1, <2>2, <2>3
<1>6. CASE LogoutStep(r) \/ Respond(r) \/ Abort(r)
  <2>1. PICK q : Become(r, q) /\ Unlinking(q) BY <1>6, EndPlain DEF Plain, Unlinking
  <2>2. \/ refresh' = refresh
        \/ \E s : RevokeSession(s)
        \/ \E u : RevokeAllForUser(u)
    BY <1>6 DEF LogoutStep, LogoutStart, LeaveSession, DenyAccess, LogoutAllStart, LogoutAll,
                Respond, Abort, refreshVars
  <2> QED BY <1>2, <1>3, <2>1, <2>2, RevocationLinks
<1> QED BY <1>1, <1>4, <1>5, <1>6

LEMMA ChainStep ==
  ASSUME TypeInv, ChainInv, [Next]_vars
  PROVE  Chained
<1>1. AuthInv BY DEF TypeInv
<1>2. ASSUME refresh' = refresh, requests' = requests PROVE Chained
  BY <1>1, <1>2, ChainsStutter, UnchangedLinks, LinksRest DEF Chained
<1>3. CASE Tick /\ UNCHANGED <<accountVars, refreshVars, accessVars, authVars, calls>>
  BY <1>2, <1>3 DEF refreshVars, authVars
<1>4. CASE AuthStep BY <1>1, <1>4, RequestChains
<1>5. ASSUME NEW c \in TeamCall, AdminStart(c) \/ TeamStep(c), UNCHANGED authVars PROVE Chained
  <2>1. requests' = requests BY <1>5 DEF authVars
  <2>2. CASE CloseSessions(c)
    <3>1. PICK u : u = calls[c].member OBVIOUS
    <3>2. Chains!Next /\ SameLinks BY <1>1, <2>2, <3>1, RevocationLinks DEF CloseSessions
    <3> QED BY <1>1, <2>1, <3>2, LinksRest DEF Chained
  <2>3. CASE ~CloseSessions(c)
    <3>1. refresh' = refresh
      BY <1>5, <2>3 DEF AdminStart, StartRevoke, StartUpdateRole, TeamStep, ReadMember,
                        SuspendMember, SetRole, AbortCall, refreshVars
    <3> QED BY <1>2, <2>1, <3>1
  <2> QED BY <2>2, <2>3
<1>6. CASE UNCHANGED vars BY <1>2, <1>6 DEF vars, refreshVars, authVars
<1> QED BY <1>3, <1>4, <1>5, <1>6 DEF Next

LEMMA ChainInit == Init => ChainInv /\ Chains!Init
<1> SUFFICES ASSUME Init PROVE ChainInv /\ Chains!Init OBVIOUS
<1>1. refresh = EmptyTable /\ requests = [r \in Request |-> Idle]
  BY DEF Init, RefreshInit, AuthInit
<1>2. DOMAIN refresh = {} BY <1>1 DEF EmptyTable
<1>3. ChainInv
  BY <1>1, <1>2 DEF ChainInv, RowsLinked, OneUserPerSession, IssuedApart, RequestLinks, At, Idle
<1>4. Chains!Init BY <1>2 DEF Chains!Init
<1> QED BY <1>3, <1>4

(* What a session consists of, at any moment: rows of one user, linked to  *)
(* each other and to nothing else.                                         *)
THEOREM LinksHold == Spec => []ChainInv
<1>1. Init => ChainInv BY ChainInit
<1>2. TypeInv /\ ChainInv /\ [Next]_vars => ChainInv' BY ChainStep DEF Chained
<1> QED BY <1>1, <1>2, TypesAndLocals, PTL DEF Spec

(* The table implements RotationChain: no interleaving of requests gives a *)
(* token a second successor, one token two predecessors or a successor in  *)
(* another session, revokes part of a session or revives a dead token.     *)
THEOREM ChainsImplemented == Spec => ChainsHold
<1>1. Init => Chains!Init BY ChainInit
<1>2. TypeInv /\ ChainInv /\ [Next]_vars => [Chains!Next]_(Chains!vars) BY ChainStep DEF Chained
<1> QED BY <1>1, <1>2, TypesAndLocals, LinksHold, PTL DEF Spec, ChainsHold, Chains!Spec
---------------------------------------------------------------------------
(* What the code promises of calls that do not overlap.  The two violated  *)
(* promises fail for one reason each, a value checked and used later; they *)
(* hold of every behaviour in which that does not happen.                  *)

\* A request that has found its token unused and has not linked it yet.
Exchanging == {"account", "rotate", "mark"}

\* No token is being exchanged by two requests at once.
Apart ==
  \A r, x \in Request :
    r # x /\ requests[r].pc \in Exchanging /\ requests[x].pc \in Exchanging
      => requests[r].token # requests[x].token

\* What such a request found is still so; an answer is the successor.
Unspent(q) ==
  /\ q.pc \in Exchanging => refresh[q.token].replacedBy = None
  /\ q.pc = "respond" /\ q.token # None =>
       q.token \in DOMAIN refresh /\ refresh[q.token].replacedBy = q.issued

Linked(e) == e[1] \in DOMAIN refresh /\ refresh[e[1]].replacedBy = e[2]

ExchangeInv ==
  /\ \A r \in Request : Unspent(requests[r])
  /\ \A e \in exchanged : Linked(e)

\* Every statement but MarkUsed leaves the links of the rows that exist.
LinksStay ==
  /\ DOMAIN refresh \subseteq DOMAIN (refresh')
  /\ \A o \in DOMAIN refresh : refresh'[o].replacedBy = refresh[o].replacedBy

LEMMA UnspentStays ==
  ASSUME NEW y, Unspent(y), LinksStay, y.pc \in Exchanging => y.token \in DOMAIN refresh
  PROVE  Unspent(y)'
BY DEF Unspent, LinksStay

\* One request moves on, and links nothing.
LEMMA ExchangeKept ==
  ASSUME AuthInv, ExchangeInv, LinksStay, NEW r \in Request, NEW q, Become(r, q), Unspent(q),
         q.pc \in Exchanging => q.token \in DOMAIN refresh,
         \A e \in exchanged' : Linked(e)
  PROVE  ExchangeInv'
<1>1. requests'[r] = q /\ \A x \in Request \ {r} : requests'[x] = requests[x]
  BY DEF AuthInv, AuthTypeOK, Become
<1>2. ASSUME NEW x \in Request PROVE Unspent(requests[x])'
  <2>1. PICK y : y = requests'[x] OBVIOUS
  <2>2. Unspent(y) /\ (y.pc \in Exchanging => y.token \in DOMAIN refresh)
    <3>1. CASE x = r BY <1>1, <2>1, <3>1
    <3>2. CASE x # r
      <4>1. y = requests[x] BY <1>1, <2>1, <3>2
      <4>2. RequestShape(y) /\ Unspent(y) BY <4>1 DEF AuthInv, ExchangeInv
      <4> QED BY <4>2 DEF RequestShape, Exchanging
    <3> QED BY <3>1, <3>2
  <2>3. Unspent(y)' BY <2>2, UnspentStays
  <2> QED BY <2>1, <2>3 DEF Unspent
<1>3. \A e \in exchanged' : Linked(e)'
  BY DEF Linked, LinksStay
<1> QED BY <1>2, <1>3 DEF ExchangeInv

LEMMA ExchangePlain ==
  ASSUME AuthInv, ExchangeInv, LinksStay, UNCHANGED exchanged,
         NEW r \in Request, NEW q, Become(r, q), Plain(q)
  PROVE  ExchangeInv'
<1>1. Unspent(q) /\ q.pc \notin Exchanging BY DEF Plain, Unspent, Exchanging
<1>2. \A e \in exchanged' : Linked(e) BY DEF ExchangeInv
<1> QED BY <1>1, <1>2, ExchangeKept

\* The steps of a request that link nothing.
LEMMA ReadsExchange ==
  ASSUME AuthInv, ExchangeInv, NEW r \in Request, Lookup(r) \/ CheckAccount(r)
  PROVE  ExchangeInv'
<1>1. PICK t : t = requests[r].token OBVIOUS
<1>2. requests[r] \in RequestState /\ t \in DOMAIN refresh
  BY <1>1 DEF AuthInv, AuthTypeOK, Lookup, CheckAccount, At, RequestShape
<1>3. LinksStay /\ UNCHANGED exchanged BY DEF Lookup, CheckAccount, refreshVars, LinksStay
<1>4. ASSUME NEW q, Become(r, q), Plain(q) PROVE ExchangeInv'
  BY <1>3, <1>4, ExchangePlain
<1>5. CASE ToCut(r)
  <2>1. PICK q : q = [Idle EXCEPT !.pc = "cut", !.token = t] OBVIOUS
  <2>2. q.pc = "cut" BY <2>1 DEF Idle
  <2> QED BY <1>1, <1>4, <1>5, <2>1, <2>2 DEF ToCut, Plain
<1>6. CASE Finish(r)
  <2>1. Plain(Idle) BY DEF Plain, Idle
  <2> QED BY <1>4, <1>6, <2>1 DEF Finish
<1>7. ASSUME NEW q, Become(r, q), q.token = t, q.pc \in Exchanging, refresh[t].replacedBy = None
      PROVE  ExchangeInv'
  <2>1. Unspent(q) BY <1>7 DEF Unspent, Exchanging
  <2>2. \A e \in exchanged' : Linked(e) BY <1>3 DEF ExchangeInv
  <2> QED BY <1>2, <1>3, <1>7, <2>1, <2>2, ExchangeKept
<1>8. CASE Lookup(r) /\ ~ToCut(r) /\ ~Finish(r)
  <2>1. PICK u : u = refresh[t].user OBVIOUS
  <2>2. Become(r, [requests[r] EXCEPT !.pc = "account", !.user = u]) /\ ~IsUsed(refresh[t])
    BY <1>1, <1>8, <2>1 DEF Lookup
  <2>3. PICK q : q = [requests[r] EXCEPT !.pc = "account", !.user = u] OBVIOUS
  <2>4. q.pc = "account" /\ q.token = t BY <1>1, <1>2, <2>3 DEF RequestState
  <2> QED BY <1>7, <2>2, <2>3, <2>4 DEF IsUsed, Exchanging
<1>9. CASE CheckAccount(r) /\ ~ToCut(r)
  <2>1. PICK role : role = users[requests[r].user].role OBVIOUS
  <2>2. Become(r, [requests[r] EXCEPT !.pc = "rotate", !.role = role]) BY <1>9, <2>1 DEF CheckAccount
  <2>3. PICK q : q = [requests[r] EXCEPT !.pc = "rotate", !.role = role] OBVIOUS
  <2>4. q.pc = "rotate" /\ q.token = t BY <1>1, <1>2, <2>3 DEF RequestState
  <2>5. refresh[t].replacedBy = None
    BY <1>1, <1>9 DEF CheckAccount, At, ExchangeInv, Unspent, Exchanging
  <2> QED BY <1>7, <2>2, <2>3, <2>4, <2>5 DEF Exchanging
<1> QED BY <1>5, <1>6, <1>8, <1>9

LEMMA InsertsExchange ==
  ASSUME AuthInv, ExchangeInv, NEW r \in Request, OpenSession(r) \/ Rotate(r)
  PROVE  ExchangeInv'
<1>1. PICK t : t = requests[r].token OBVIOUS
<1>2. \A e \in exchanged' : Linked(e) BY DEF OpenSession, Rotate, ExchangeInv
<1>3. ASSUME NEW p, p \notin DOMAIN refresh, NEW u, NEW s, NEW now, CreateRefreshToken(p, u, s, now)
      PROVE  LinksStay
  BY <1>3 DEF CreateRefreshToken, LinksStay
<1>4. CASE OpenSession(r)
  <2>1. PICK p \in Token :
          /\ IssuePair(p, requests[r].user, requests[r].role, p, requests[r].at)
          /\ Become(r, [Idle EXCEPT !.pc = "respond", !.issued = p])
    BY <1>4, Zenon DEF OpenSession
  <2>2. PICK q : q = [Idle EXCEPT !.pc = "respond", !.issued = p] OBVIOUS
  <2>3. q.pc = "respond" /\ q.token = None BY <2>2 DEF Idle
  <2>4. LinksStay BY <1>3, <2>1 DEF IssuePair
  <2>5. Unspent(q) /\ q.pc \notin Exchanging BY <2>3 DEF Unspent, Exchanging
  <2> QED BY <1>2, <2>1, <2>2, <2>4, <2>5, ExchangeKept
<1>5. CASE Rotate(r)
  <2>1. PICK p \in Token :
          /\ IssuePair(p, requests[r].user, requests[r].role, refresh[requests[r].token].session,
                       requests[r].at)
          /\ Become(r, [Idle EXCEPT !.pc = "mark", !.token = requests[r].token, !.issued = p])
    BY <1>5, Zenon DEF Rotate
  <2>2. PICK q : q = [Idle EXCEPT !.pc = "mark", !.token = t, !.issued = p] OBVIOUS
  <2>3. q.pc = "mark" /\ q.token = t BY <2>2 DEF Idle
  <2>4. LinksStay BY <1>3, <2>1 DEF IssuePair
  <2>5. t \in DOMAIN refresh /\ refresh[t].replacedBy = None
    BY <1>1, <1>5 DEF Rotate, At, AuthInv, RequestShape, ExchangeInv, Unspent, Exchanging
  <2>6. Unspent(q) BY <2>3, <2>5 DEF Unspent, Exchanging
  <2> QED BY <1>1, <1>2, <2>1, <2>2, <2>3, <2>4, <2>5, <2>6, ExchangeKept
<1> QED BY <1>4, <1>5

LEMMA AnswersExchange ==
  ASSUME AuthInv, ExchangeInv, NEW r \in Request, Respond(r)
  PROVE  ExchangeInv'
<1>1. PICK t, i : t = requests[r].token /\ i = requests[r].issued OBVIOUS
<1>2. t # None => t \in DOMAIN refresh /\ refresh[t].replacedBy = i
  BY <1>1 DEF Respond, At, ExchangeInv, Unspent
<1>3. \A e \in exchanged' : e \in exchanged \/ (t # None /\ e = <<t, i>>)
  BY <1>1 DEF Respond
<1>4. \A e \in exchanged' : Linked(e) BY <1>2, <1>3 DEF ExchangeInv, Linked
<1>5. LinksStay BY DEF Respond, refreshVars, LinksStay
<1>6. Become(r, Idle) BY DEF Respond, Finish
<1>7. Unspent(Idle) /\ Idle.pc \notin Exchanging BY DEF Unspent, Exchanging, Idle
<1> QED BY <1>4, <1>5, <1>6, <1>7, ExchangeKept

\* The link: this row and no other, and nobody else relies on it.
LEMMA MarkExchange ==
  ASSUME AuthInv, ExchangeInv, Apart, NEW r \in Request, MarkSpent(r)
  PROVE  ExchangeInv'
<1>1. PICK t, i : t = requests[r].token /\ i = requests[r].issued OBVIOUS
<1>2. /\ requests[r] \in RequestState /\ t \in DOMAIN refresh /\ refresh[t].replacedBy = None
      /\ i \in DOMAIN refresh /\ refresh \in [DOMAIN refresh -> RefreshRow] /\ i # None
  BY <1>1, NoneAssumption DEF NoneAssumption, MarkSpent, At, AuthInv, AuthTypeOK, RequestShape,
                              ExchangeInv, Unspent, Exchanging, RefreshTypeOK
<1>3. /\ DOMAIN (refresh') = DOMAIN refresh /\ refresh'[t].replacedBy = i
      /\ \A o \in DOMAIN refresh \ {t} : refresh'[o] = refresh[o]
  BY <1>1, <1>2 DEF MarkSpent, MarkUsed, IsUsed, RefreshRow
<1>4. PICK q : q = [requests[r] EXCEPT !.pc = "respond"] OBVIOUS
<1>5. q.pc = "respond" /\ q.token = t /\ q.issued = i BY <1>1, <1>2, <1>4 DEF RequestState
<1>6. requests'[r] = q /\ \A x \in Request \ {r} : requests'[x] = requests[x]
  BY <1>4 DEF MarkSpent, Goto, AuthInv, AuthTypeOK
<1>7. ASSUME NEW x \in Request PROVE Unspent(requests[x])'
  <2>1. PICK y : y = requests'[x] OBVIOUS
  <2>2. CASE x = r BY <1>2, <1>3, <1>5, <1>6, <2>1, <2>2 DEF Unspent, Exchanging
  <2>3. CASE x # r
    <3>1. y = requests[x] /\ RequestShape(y) /\ Unspent(y) BY <1>6, <2>1, <2>3 DEF AuthInv, ExchangeInv
    <3>2. y.pc \in Exchanging => y.token # t
      BY <1>1, <2>3, <3>1 DEF Apart, MarkSpent, At, Exchanging
    <3>3. y.pc = "respond" /\ y.token # None => y.token # t
      BY <1>2, <3>1, NoneAssumption DEF NoneAssumption, Unspent, RequestShape, AuthInv, RefreshTypeOK
    <3>4. Unspent(y)' BY <1>3, <3>1, <3>2, <3>3 DEF Unspent, RequestShape, Exchanging
    <3> QED BY <2>1, <3>4 DEF Unspent
  <2> QED BY <2>2, <2>3
<1>8. \A e \in exchanged : e[1] # t
  <2> SUFFICES ASSUME NEW e \in exchanged PROVE e[1] # t OBVIOUS
  <2>1. refresh[e[1]].replacedBy = e[2] BY DEF ExchangeInv, Linked
  <2>2. e[2] # None BY NoneAssumption DEF NoneAssumption, AuthInv, AuthTypeOK
  <2> QED BY <1>2, <2>1, <2>2
<1>9. \A e \in exchanged : Linked(e)' BY <1>3, <1>8 DEF ExchangeInv, Linked
<1>10. UNCHANGED exchanged BY DEF MarkSpent
<1> QED BY <1>7, <1>9, <1>10 DEF ExchangeInv
\* Nobody's request moves.
LEMMA ExchangeRest ==
  ASSUME AuthInv, ExchangeInv, LinksStay, UNCHANGED authVars
  PROVE  ExchangeInv'
<1>1. requests' = requests /\ exchanged' = exchanged BY DEF authVars
<1>2. ASSUME NEW x \in Request PROVE Unspent(requests[x])'
  <2>1. PICK y : y = requests[x] OBVIOUS
  <2>2. RequestShape(y) /\ Unspent(y) BY <2>1 DEF AuthInv, ExchangeInv
  <2>3. Unspent(y)' BY <2>2, UnspentStays DEF RequestShape, Exchanging
  <2> QED BY <1>1, <2>1, <2>3 DEF Unspent
<1>3. \A e \in exchanged' : Linked(e)' BY <1>1 DEF ExchangeInv, Linked, LinksStay
<1> QED BY <1>1, <1>2, <1>3 DEF ExchangeInv

\* Revocation covers whole sessions, and leaves the links.
LEMMA RevocationStays ==
  ASSUME AuthInv, ChainInv,
         \/ UNCHANGED refresh \/ \E s : RevokeSession(s) \/ \E u : RevokeAllForUser(u)
  PROVE  LinksStay
<1>1. CASE UNCHANGED refresh BY <1>1 DEF LinksStay
<1>2. CASE (\E s : RevokeSession(s)) \/ \E u : RevokeAllForUser(u)
  <2>1. SameLinks BY <1>2, RevocationLinks
  <2> QED BY <2>1 DEF SameLinks, LinksStay
<1> QED BY <1>1, <1>2

LEMMA ExchangeRequests ==
  ASSUME AuthInv, ChainInv, ExchangeInv, Apart, AuthStep
  PROVE  ExchangeInv'
<1>1. PICK r \in Request : LoginStep(r) \/ RefreshStep(r) \/ LogoutStep(r) \/ Respond(r) \/ Abort(r)
  BY DEF AuthStep
<1>2. ASSUME LinksStay, UNCHANGED exchanged, NEW q, Become(r, q), Plain(q) PROVE ExchangeInv'
  BY <1>2, ExchangePlain
<1>3. CASE OpenSession(r) \/ Rotate(r) BY <1>3, InsertsExchange
<1>4. CASE Lookup(r) \/ CheckAccount(r) BY <1>4, ReadsExchange
<1>5. CASE MarkSpent(r) BY <1>5, MarkExchange
<1>6. CASE Respond(r) BY <1>6, AnswersExchange
<1>7. CASE LoginStep(r) /\ ~OpenSession(r)
  <2>1. UNCHANGED refresh /\ \E q : Become(r, q) /\ Plain(q) BY <1>7, LoginPlain
  <2>2. UNCHANGED exchanged
    BY <1>7 DEF LoginStep, LoginStart, WrongPassword, RegisterFailure, RightPassword, RefuseLogin,
                RegisterSuccess
  <2> QED BY <1>2, <2>1, <2>2, RevocationStays
<1>8. CASE \E p \in Token : RefreshStart(r, p)
  <2>1. PICK p \in Token : RefreshStart(r, p) BY <1>8
  <2>2. PICK q : q = [Idle EXCEPT !.pc = "lookup", !.at = clock, !.token = p] OBVIOUS
  <2>3. Plain(q) BY <2>2 DEF Idle, Plain
  <2>4. Become(r, q) /\ UNCHANGED refresh /\ UNCHANGED exchanged
    BY <2>1, <2>2 DEF RefreshStart, Begin, refreshVars
  <2> QED BY <1>2, <2>3, <2>4, RevocationStays
<1>9. CASE CutSession(r)
  <2>1. Plain(Idle) BY DEF Plain, Idle
  <2>2. Become(r, Idle) /\ UNCHANGED exchanged /\ \E s : RevokeSession(s)
    BY <1>9 DEF CutSession, Finish
  <2> QED BY <1>2, <2>1, <2>2, RevocationStays
<1>10. CASE LogoutStep(r) \/ Abort(r)
  <2>1. PICK q : Become(r, q) /\ Plain(q) BY <1>10, EndPlain
  <2>2. \/ UNCHANGED refresh \/ \E s : RevokeSession(s) \/ \E u : RevokeAllForUser(u)
    BY <1>10 DEF LogoutStep, LogoutStart, LeaveSession, DenyAccess, LogoutAllStart, LogoutAll,
                 Abort, refreshVars
  <2>3. UNCHANGED exchanged
    BY <1>10 DEF LogoutStep, LogoutStart, LeaveSession, DenyAccess, LogoutAllStart, LogoutAll, Abort
  <2> QED BY <1>2, <2>1, <2>2, <2>3, RevocationStays
<1> QED BY <1>1, <1>3, <1>4, <1>5, <1>6, <1>7, <1>8, <1>9, <1>10 DEF RefreshStep

\* A call of the team usecase touches the table in its last statement only.
LEMMA TeamWays ==
  ASSUME NEW c \in TeamCall, AdminStart(c) \/ TeamStep(c)
  PROVE  UNCHANGED refreshVars \/ \E u : RevokeAllForUser(u)
<1>1. CASE AdminStart(c) BY <1>1 DEF AdminStart, StartRevoke, StartUpdateRole
<1>2. CASE TeamStep(c)
  BY <1>2 DEF TeamStep, ReadMember, SuspendMember, SetRole, AbortCall, CloseSessions
<1> QED BY <1>1, <1>2

LEMMA ExchangeStep ==
  ASSUME TypeInv, ChainInv, ExchangeInv, Apart, [Next]_vars
  PROVE  ExchangeInv'
<1>1. AuthInv BY DEF TypeInv
<1>2. ASSUME UNCHANGED authVars, UNCHANGED refresh \/ \E u : RevokeAllForUser(u)
      PROVE  ExchangeInv'
  <2>1. LinksStay BY <1>1, <1>2, RevocationStays
  <2> QED BY <1>1, <1>2, <2>1, ExchangeRest
<1>3. CASE AuthStep BY <1>1, <1>3, ExchangeRequests
<1>4. CASE Tick /\ UNCHANGED <<accountVars, refreshVars, accessVars, authVars, calls>>
  BY <1>2, <1>4 DEF refreshVars
<1>5. CASE UNCHANGED vars BY <1>2, <1>5 DEF vars, refreshVars
<1>6. ASSUME NEW c \in TeamCall, AdminStart(c) \/ TeamStep(c), UNCHANGED authVars
      PROVE  ExchangeInv'
  BY <1>2, <1>6, TeamWays DEF refreshVars
<1> QED BY <1>3, <1>4, <1>5, <1>6 DEF Next

LEMMA ExchangeInit == Init => ExchangeInv
BY DEF Init, AuthInit, ExchangeInv, Unspent, Exchanging, Idle

LEMMA ExchangeOnce == TypeInv /\ ExchangeInv => OneExchangePerToken
BY DEF TypeInv, AuthInv, AuthTypeOK, ExchangeInv, Linked, OneExchangePerToken

(* While no two requests exchange the same token at once, a refresh token  *)
(* is exchanged for at most one pair.  Requests may overlap in every other *)
(* way, fail anywhere and present tokens spent long ago.                   *)
THEOREM ExchangedOnce == Spec /\ []Apart => []OneExchangePerToken
<1>1. Init => ExchangeInv BY ExchangeInit
<1>2. TypeInv /\ ChainInv /\ ExchangeInv /\ Apart /\ [Next]_vars => ExchangeInv' BY ExchangeStep
<1>3. TypeInv /\ ExchangeInv => OneExchangePerToken BY ExchangeOnce
<1> QED BY <1>1, <1>2, <1>3, TypesAndLocals, LinksHold, PTL DEF Spec
---------------------------------------------------------------------------
(* Closed sessions.                                                        *)

\* No session is revoked while a request that has looked up one of its
\* tokens has still to insert the successor.
Guarded ==
  \A r \in Request :
    requests[r].pc \in {"account", "rotate"} => refresh[requests[r].token].session \notin closed

ClosedInv == closed \subseteq DOMAIN refresh /\ ClosedSessionsStayClosed

LEMMA ClosedRest == ClosedInv /\ UNCHANGED refreshVars => ClosedInv'
BY DEF ClosedInv, ClosedSessionsStayClosed, refreshVars

LEMMA RevokeCloses ==
  ASSUME RefreshTypeOK, RowsLinked, ClosedInv, NEW rows \in SUBSET DOMAIN refresh, RevokeRows(rows),
         \A p \in rows, o \in DOMAIN refresh : refresh[o].session = refresh[p].session => o \in rows
  PROVE  ClosedInv'
<1>1. /\ DOMAIN (refresh') = DOMAIN refresh
      /\ \A p \in DOMAIN refresh : /\ refresh'[p].session = refresh[p].session
                                   /\ refresh'[p].revoked = (refresh[p].revoked \/ p \in rows)
  BY DEF RevokeRows, RefreshTypeOK, RefreshRow
<1>2. closed' = closed \cup {refresh[p].session : p \in rows} BY DEF RevokeRows
<1>3. closed' \subseteq DOMAIN (refresh') BY <1>1, <1>2 DEF ClosedInv, RowsLinked
<1>4. ASSUME NEW o \in DOMAIN refresh, refresh[o].session \in closed' PROVE refresh'[o].revoked
  <2>1. refresh[o].session \in closed => refresh[o].revoked
    BY DEF ClosedInv, ClosedSessionsStayClosed
  <2>2. refresh[o].session \in closed \/ \E p \in rows : refresh[o].session = refresh[p].session
    BY <1>2, <1>4
  <2> QED BY <1>1, <2>1, <2>2
<1> QED BY <1>1, <1>3, <1>4 DEF ClosedInv, ClosedSessionsStayClosed

LEMMA RevocationCloses ==
  ASSUME AuthInv, ChainInv, ClosedInv, (\E s : RevokeSession(s)) \/ \E u : RevokeAllForUser(u)
  PROVE  ClosedInv'
<1>1. CASE \E s : RevokeSession(s)
  BY <1>1, RevokeCloses DEF RevokeSession, RowsOf, AuthInv, ChainInv
<1>2. CASE \E u : RevokeAllForUser(u)
  <2>1. PICK u : RevokeAllForUser(u) BY <1>2
  <2>2. PICK rows \in SUBSET DOMAIN refresh :
          rows = {p \in DOMAIN refresh : refresh[p].user = u} /\ RevokeRows(rows)
    BY <2>1 DEF RevokeAllForUser
  <2>3. \A p \in rows, o \in DOMAIN refresh : refresh[o].session = refresh[p].session => o \in rows
    BY <2>2 DEF ChainInv, OneUserPerSession
  <2> QED BY <2>2, <2>3, RevokeCloses DEF AuthInv, ChainInv
<1> QED BY <1>1, <1>2

\* A row inserted in a session nobody has closed, a row linked.
LEMMA InsertCloses ==
  ASSUME ClosedInv, NEW p, NEW u, NEW s, NEW now, p \notin DOMAIN refresh, s \notin closed,
         CreateRefreshToken(p, u, s, now)
  PROVE  ClosedInv'
<1>1. /\ DOMAIN (refresh') = DOMAIN refresh \cup {p} /\ closed' = closed
      /\ refresh'[p].session = s /\ \A o \in DOMAIN refresh : refresh'[o] = refresh[o]
  BY DEF CreateRefreshToken
<1> QED BY <1>1 DEF ClosedInv, ClosedSessionsStayClosed

LEMMA MarkCloses ==
  ASSUME RefreshTypeOK, ClosedInv, NEW p, NEW q, MarkUsed(p, q)
  PROVE  ClosedInv'
<1>1. /\ DOMAIN (refresh') = DOMAIN refresh /\ closed' = closed
      /\ \A o \in DOMAIN refresh : /\ refresh'[o].session = refresh[o].session
                                   /\ refresh'[o].revoked = refresh[o].revoked
  BY DEF MarkUsed, RefreshTypeOK, RefreshRow
<1> QED BY <1>1 DEF ClosedInv, ClosedSessionsStayClosed

LEMMA SuccessorCloses ==
  ASSUME ClosedInv, Guarded, NEW r \in Request, OpenSession(r) \/ Rotate(r)
  PROVE  ClosedInv'
<1>1. CASE OpenSession(r)
  <2>1. PICK p \in Token : IssuePair(p, requests[r].user, requests[r].role, p, requests[r].at)
    BY <1>1, Zenon DEF OpenSession
  <2>2. p \notin closed BY <2>1 DEF IssuePair, ClosedInv
  <2> QED BY <2>1, <2>2, InsertCloses DEF IssuePair
<1>2. CASE Rotate(r)
  <2>1. PICK s : s = refresh[requests[r].token].session OBVIOUS
  <2>2. PICK p \in Token : IssuePair(p, requests[r].user, requests[r].role, s, requests[r].at)
    BY <1>2, <2>1 DEF Rotate
  <2>3. s \notin closed BY <1>2, <2>1 DEF Rotate, At, Guarded
  <2> QED BY <2>2, <2>3, InsertCloses DEF IssuePair
<1> QED BY <1>1, <1>2

LEMMA RequestWays ==
  ASSUME NEW r \in Request,
         LoginStep(r) \/ RefreshStep(r) \/ LogoutStep(r) \/ Respond(r) \/ Abort(r)
  PROVE  \/ UNCHANGED refreshVars
         \/ (\E s : RevokeSession(s)) \/ \E u : RevokeAllForUser(u)
         \/ OpenSession(r) \/ Rotate(r) \/ MarkSpent(r)
<1>1. CASE LoginStep(r)
  BY <1>1 DEF LoginStep, LoginStart, WrongPassword, RegisterFailure, RightPassword, RefuseLogin,
              RegisterSuccess
<1>2. CASE RefreshStep(r)
  BY <1>2 DEF RefreshStep, RefreshStart, Lookup, CheckAccount, CutSession
<1>3. CASE LogoutStep(r)
  BY <1>3 DEF LogoutStep, LogoutStart, LeaveSession, DenyAccess, LogoutAllStart, LogoutAll
<1>4. CASE Respond(r) \/ Abort(r) BY <1>4 DEF Respond, Abort, refreshVars
<1> QED BY <1>1, <1>2, <1>3, <1>4

LEMMA ClosedStep ==
  ASSUME TypeInv, ChainInv, ClosedInv, Guarded, [Next]_vars
  PROVE  ClosedInv'
<1>1. AuthInv BY DEF TypeInv
<1>2. CASE UNCHANGED refreshVars BY <1>2, ClosedRest
<1>3. CASE (\E s : RevokeSession(s)) \/ \E u : RevokeAllForUser(u) BY <1>1, <1>3, RevocationCloses
<1>4. ASSUME NEW r \in Request, OpenSession(r) \/ Rotate(r) PROVE ClosedInv'
  BY <1>4, SuccessorCloses
<1>5. ASSUME NEW r \in Request, MarkSpent(r) PROVE ClosedInv'
  BY <1>1, <1>5, MarkCloses DEF MarkSpent, AuthInv
<1>6. CASE AuthStep BY <1>2, <1>3, <1>4, <1>5, <1>6, RequestWays DEF AuthStep
<1>7. CASE \E c \in TeamCall : AdminStart(c) \/ TeamStep(c) BY <1>2, <1>3, <1>7, TeamWays
<1>8. CASE UNCHANGED vars BY <1>2, <1>8 DEF vars
<1> QED BY <1>2, <1>6, <1>7, <1>8 DEF Next

LEMMA ClosedInit == Init => ClosedInv
BY DEF Init, RefreshInit, ClosedInv, ClosedSessionsStayClosed, EmptyTable

(* While no session is revoked between a Refresh's lookup of its token and *)
(* its insertion of the successor, what has been revoked stays revoked:    *)
(* that window is the only way a usable token enters a closed session.     *)
THEOREM ClosedForGood == Spec /\ []Guarded => []ClosedSessionsStayClosed
<1>1. Init => ClosedInv BY ClosedInit
<1>2. TypeInv /\ ChainInv /\ ClosedInv /\ Guarded /\ [Next]_vars => ClosedInv' BY ClosedStep
<1>3. ClosedInv => ClosedSessionsStayClosed BY DEF ClosedInv
<1> QED BY <1>1, <1>2, <1>3, TypesAndLocals, LinksHold, PTL DEF Spec
---------------------------------------------------------------------------
(* One request at a time: the calls of every test of auth_test.go.         *)

LEMMA AloneApart ==
  ASSUME \A r, x \in Request : r = x
  PROVE  Apart
BY DEF Apart

LEMMA AloneGuarded ==
  ASSUME \A r, x \in Request : r = x, TeamCall = {},
         TypeInv, ChainInv, ClosedInv, Guarded, [Next]_vars
  PROVE  Guarded'
<1>1. AuthInv BY DEF TypeInv
<1>2. CASE UNCHANGED <<refreshVars, requests>> BY <1>2 DEF Guarded, refreshVars
<1>3. ASSUME NEW r \in Request,
             LoginStep(r) \/ RefreshStep(r) \/ LogoutStep(r) \/ Respond(r) \/ Abort(r)
      PROVE  Guarded'
  <2>1. ASSUME NEW q, Become(r, q),
               q.pc \in {"account", "rotate"} => refresh'[q.token].session \notin closed'
        PROVE  Guarded'
    <3>1. requests'[r] = q BY <1>1, <2>1 DEF AuthInv, AuthTypeOK, Become
    <3> QED BY <2>1, <3>1 DEF Guarded
  <2>2. ASSUME NEW q, Become(r, q), Plain(q) PROVE Guarded' BY <2>1, <2>2 DEF Plain
  <2>3. PICK t : t = requests[r].token OBVIOUS
  <2>4. requests[r] \in RequestState BY <1>1 DEF AuthInv, AuthTypeOK
  <2>5. CASE LoginStep(r) /\ ~OpenSession(r) BY <1>1, <2>2, <2>5, LoginPlain
  <2>6. CASE LogoutStep(r) \/ Respond(r) \/ Abort(r) BY <1>1, <2>2, <2>6, EndPlain
  <2>7. CASE OpenSession(r)
    <3>1. PICK p \in Token : Become(r, [Idle EXCEPT !.pc = "respond", !.issued = p])
      BY <2>7 DEF OpenSession
    <3>2. PICK q : q = [Idle EXCEPT !.pc = "respond", !.issued = p] OBVIOUS
    <3>3. q.pc = "respond" BY <3>2 DEF Idle
    <3> QED BY <2>1, <3>1, <3>2, <3>3
  <2>8. CASE Rotate(r)
    <3>1. PICK p \in Token : Become(r, [Idle EXCEPT !.pc = "mark", !.token = t, !.issued = p])
      BY <2>3, <2>8 DEF Rotate
    <3>2. PICK q : q = [Idle EXCEPT !.pc = "mark", !.token = t, !.issued = p] OBVIOUS
    <3>3. q.pc = "mark" BY <3>2 DEF Idle
    <3> QED BY <2>1, <3>1, <3>2, <3>3
  <2>9. CASE MarkSpent(r)
    <3>1. PICK q : q = [requests[r] EXCEPT !.pc = "respond"] OBVIOUS
    <3>2. q.pc = "respond" BY <2>4, <3>1 DEF RequestState
    <3>3. Become(r, q) BY <2>9, <3>1 DEF MarkSpent, Goto, Become
    <3> QED BY <2>1, <3>2, <3>3
  <2>10. ASSUME NEW p \in Token, RefreshStart(r, p) PROVE Guarded'
    <3>1. PICK q : q = [Idle EXCEPT !.pc = "lookup", !.at = clock, !.token = p] OBVIOUS
    <3>2. q.pc = "lookup" BY <3>1 DEF Idle
    <3> QED BY <2>1, <2>10, <3>1, <3>2 DEF RefreshStart, Begin
  <2>11. ASSUME Finish(r) \/ ToCut(r) PROVE Guarded'
    <3>1. PICK q : q = [Idle EXCEPT !.pc = "cut", !.token = t] OBVIOUS
    <3>2. Plain(q) /\ Plain(Idle) BY <3>1 DEF Plain, Idle
    <3> QED BY <2>2, <2>3, <2>11, <3>1, <3>2 DEF Finish, ToCut
  <2>12. CASE CutSession(r) BY <2>11, <2>12 DEF CutSession
  <2>13. CASE Lookup(r) /\ ~Finish(r) /\ ~ToCut(r)
    <3>1. PICK u : u = refresh[t].user OBVIOUS
    <3>2. Become(r, [requests[r] EXCEPT !.pc = "account", !.user = u]) /\ ~IsRevoked(refresh[t])
          /\ UNCHANGED refreshVars
      BY <2>3, <2>13, <3>1 DEF Lookup
    <3>3. PICK q : q = [requests[r] EXCEPT !.pc = "account", !.user = u] OBVIOUS
    <3>4. q.token = t BY <2>3, <2>4, <3>3 DEF RequestState
    <3>5. t \in DOMAIN refresh BY <1>1, <2>3, <2>13 DEF Lookup, At, AuthInv, RequestShape
    <3>6. refresh[t].session \notin closed
      BY <3>2, <3>5 DEF IsRevoked, ClosedInv, ClosedSessionsStayClosed
    <3> QED BY <2>1, <3>2, <3>3, <3>4, <3>6 DEF refreshVars
  <2>14. CASE CheckAccount(r) /\ ~ToCut(r)
    <3>1. PICK role : role = users[requests[r].user].role OBVIOUS
    <3>2. Become(r, [requests[r] EXCEPT !.pc = "rotate", !.role = role]) /\ UNCHANGED refreshVars
      BY <2>14, <3>1 DEF CheckAccount
    <3>3. PICK q : q = [requests[r] EXCEPT !.pc = "rotate", !.role = role] OBVIOUS
    <3>4. q.token = t BY <2>3, <2>4, <3>3 DEF RequestState
    <3>5. refresh[t].session \notin closed BY <2>3, <2>14 DEF CheckAccount, At, Guarded
    <3> QED BY <2>1, <3>2, <3>3, <3>4, <3>5 DEF refreshVars
  <2> QED
    BY <1>3, <2>5, <2>6, <2>7, <2>8, <2>9, <2>10, <2>11, <2>12, <2>13, <2>14 DEF RefreshStep
<1>4. CASE UNCHANGED vars BY <1>2, <1>4 DEF vars, authVars
<1> QED BY <1>2, <1>3, <1>4 DEF Next, AuthStep, authVars

LEMMA AloneInit == Init => Guarded
BY DEF Init, AuthInit, Guarded, Idle

(* What the tests of auth_test.go see: with one request at a time, failing *)
(* anywhere, and nobody administering, a token is exchanged for one pair   *)
(* and what has been revoked stays revoked.                                *)
THEOREM InSequence ==
  ASSUME \A r, x \in Request : r = x, TeamCall = {}
  PROVE  Spec => [](OneExchangePerToken /\ ClosedSessionsStayClosed)
<1>1. Init => ClosedInv /\ Guarded /\ ExchangeInv BY ClosedInit, AloneInit, ExchangeInit
<1>2. TypeInv /\ ChainInv /\ ClosedInv /\ Guarded /\ ExchangeInv /\ [Next]_vars
        => (ClosedInv /\ Guarded /\ ExchangeInv)'
  BY ClosedStep, AloneGuarded, AloneApart, ExchangeStep
<1>3. TypeInv /\ ClosedInv /\ ExchangeInv => OneExchangePerToken /\ ClosedSessionsStayClosed
  BY ExchangeOnce DEF ClosedInv
<1> QED BY <1>1, <1>2, <1>3, TypesAndLocals, LinksHold, PTL DEF Spec
=============================================================================
