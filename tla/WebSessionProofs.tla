-------------------------- MODULE WebSessionProofs --------------------------
(***************************************************************************)
(* Proofs about WebSession, for any set of users and of requests and for   *)
(* visits of any length: types, that a request takes effect at most once,  *)
(* that a replayed refresh token has a cause, and whose token a tab holds. *)
(***************************************************************************)
EXTENDS WebSession, SequenceTheorems, TLAPS

\* The calls, when n token pairs have been issued.
Answering == {"none", "ok", "denied", "failed", "lost"}
CallRec(n) ==
  [at : {"idle", "sent", "answered", "waiting"},
   token : 0..n, retry : BOOLEAN, user : UserOrNot,
   answer : Answering, pair : 0..n, applied : Nat]
Calls(n) == [Tab -> [Call -> CallRec(n)]]

\* A call that brings a token pair, and its answer on the way back.
Bringing == {"refresh", "login"}
Brings(tab, c) == Answered(tab, c) /\ calls[tab][c].answer = "ok"

\* Nothing was applied for a call that may still be sent.
AppliedShape ==
  \A tab \in Tab, c \in Authorized :
    LET call == calls[tab][c] IN
    /\ call.applied <= 1
    /\ call.at # "answered" \/ call.answer = "denied" => call.applied = 0

PresentedByTwo(token) ==
  \E a, b \in Tab : a # b /\ {<<a, token>>, <<b, token>>} \subseteq presented
Caused(token) == token \in unheard \/ PresentedByTwo(token)

\* What the server will see, or has seen, was presented by somebody.
PresentedShape ==
  /\ \A tab \in Tab :
       InFlight(tab, "refresh") => <<tab, calls[tab]["refresh"].token>> \in presented
  /\ \A token \in strays : token \in unheard /\ \E tab \in Tab : <<tab, token>> \in presented

\* A used token at the browser or on its way to the server: its answer was
\* lost or is on its way, or another tab presented it.
CookieShape ==
  cookie \in used =>
    \/ cookie \in unheard
    \/ \E tab \in Tab : Brings(tab, "refresh") /\ calls[tab]["refresh"].token = cookie
SentShape ==
  \A tab \in Tab, token \in used :
    calls[tab]["refresh"].at = "sent" /\ calls[tab]["refresh"].token = token => Caused(token)

\* A pair on its way to the browser is known to nobody else.
Unknown(n) ==
  /\ n \in 1..Len(pairs) /\ n \notin used /\ n # cookie
  /\ \A tab \in Tab : <<tab, n>> \notin presented
PairShape ==
  \A tab \in Tab, c \in Bringing, n \in Nat :
    Brings(tab, c) /\ calls[tab][c].pair = n =>
      /\ Unknown(n)
      /\ \A o \in Tab, d \in Bringing :
           Brings(o, d) /\ calls[o][d].pair = n => o = tab /\ d = c

CauseInv == PresentedShape /\ CookieShape /\ SentShape /\ PairShape /\ ReuseHasACause

\* Outside of mixed sessions everything belongs to one user.
Owned(n, u) == n # 0 => pairs[n].user = u
MeOwned(tab, u) ==
  /\ auth[tab].user \in {None, u}
  /\ auth[tab].status = "authenticated" => auth[tab].user = u
  /\ auth[tab].status = "authenticated" \/ InFlight(tab, "me") => Owned(auth[tab].token, u)
  /\ InFlight(tab, "me") => Owned(calls[tab]["me"].token, u)
  /\ Brings(tab, "me") => calls[tab]["me"].user = u
RefreshOwned(tab, u) ==
  /\ InFlight(tab, "refresh") => Owned(calls[tab]["refresh"].token, u)
  /\ Brings(tab, "refresh") => Owned(calls[tab]["refresh"].pair, u)
OneTab(tab, u) == MeOwned(tab, u) /\ RefreshOwned(tab, u)
OneUser(u) == Owned(cookie, u) /\ \A tab \in Tab : OneTab(tab, u)
LoginOwned ==
  \A tab \in Tab :
    Brings(tab, "login") => Owned(calls[tab]["login"].pair, calls[tab]["login"].user)
UserInv == LoginOwned /\ (mixed \/ \E u \in User : OneUser(u))
---------------------------------------------------------------------------
(* Records of calls.                                                       *)

LEMMA MorePairs ==
  ASSUME NEW m \in Nat, NEW n \in Nat, m <= n
  PROVE  CallRec(m) \subseteq CallRec(n) /\ Calls(m) \subseteq Calls(n)
<1>1. CallRec(m) \subseteq CallRec(n)
  BY SMT DEF CallRec
<1> QED BY <1>1 DEF Calls

LEMMA IdleIs ==
  ASSUME NEW n \in Nat
  PROVE  /\ Idle \in CallRec(n)
         /\ Idle.at = "idle" /\ Idle.answer = "none" /\ Idle.applied = 0 /\ Idle.token = 0
BY SMT DEF Answering, Idle, CallRec, UserOrNot

LEMMA SentIs ==
  ASSUME NEW n \in Nat, NEW token \in 0..n, NEW retry \in BOOLEAN
  PROVE  /\ Sent(token, retry) \in CallRec(n)
         /\ Sent(token, retry).at = "sent" /\ Sent(token, retry).token = token
         /\ Sent(token, retry).applied = 0 /\ Sent(token, retry).answer = "none"
<1>1. PICK q : q = Idle OBVIOUS
<1>2. q \in CallRec(n) /\ q.applied = 0 /\ q.answer = "none"
  BY <1>1, IdleIs
<1>3. PICK q1 : q1 = [q EXCEPT !.at = "sent"] OBVIOUS
<1>4. PICK q2 : q2 = [q1 EXCEPT !.token = token] OBVIOUS
<1>5. PICK q3 : q3 = [q2 EXCEPT !.retry = retry] OBVIOUS
<1>6. q1 \in CallRec(n) /\ q1.at = "sent" /\ q1.applied = 0 /\ q1.answer = "none"
  BY <1>2, <1>3, SMT DEF CallRec
<1>7. q2 \in CallRec(n) /\ q2.at = "sent" /\ q2.applied = 0 /\ q2.answer = "none" /\ q2.token = token
  BY <1>4, <1>6, SMT DEF CallRec
<1>8. q3 \in CallRec(n) /\ q3.at = "sent" /\ q3.applied = 0 /\ q3.answer = "none" /\ q3.token = token
  BY <1>5, <1>7, SMT DEF CallRec
<1>9. Sent(token, retry) = q3
  BY <1>1, <1>3, <1>4, <1>5, Zenon DEF Sent
<1> QED BY <1>8, <1>9

LEMMA AnswersNamed == {"ok", "denied", "failed", "lost"} \subseteq Answering
BY DEF Answering

LEMMA AnsweredIs ==
  ASSUME NEW n \in Nat, NEW q \in CallRec(n), NEW answer \in Answering,
         NEW s, s = [q EXCEPT !.at = "answered", !.answer = answer]
  PROVE  /\ s \in CallRec(n)
         /\ s.at = "answered" /\ s.answer = answer
         /\ s.token = q.token /\ s.user = q.user /\ s.pair = q.pair /\ s.applied = q.applied
<1>1. PICK q1 : q1 = [q EXCEPT !.at = "answered"] OBVIOUS
<1>2. PICK q2 : q2 = [q1 EXCEPT !.answer = answer] OBVIOUS
<1>3. q1 \in CallRec(n) BY <1>1, SMT DEF CallRec
<1>4. q2 \in CallRec(n) BY <1>2, <1>3, SMT DEF CallRec
<1>5. s = q2 BY <1>1, <1>2, Zenon
<1>6. /\ s.at = "answered" /\ s.answer = answer
      /\ s.token = q.token /\ s.user = q.user /\ s.pair = q.pair /\ s.applied = q.applied
  BY SMT DEF CallRec
<1> QED BY <1>4, <1>5, <1>6

Brought(q, answer, pair) == [q EXCEPT !.at = "answered", !.answer = answer, !.pair = pair]

LEMMA BroughtIs ==
  ASSUME NEW n \in Nat, NEW q \in CallRec(n), NEW answer \in Answering,
         NEW pair \in 0..n
  PROVE  Brought(q, answer, pair) \in CallRec(n)
<1>1. PICK q1 : q1 = [q EXCEPT !.at = "answered", !.answer = answer] OBVIOUS
<1>2. PICK q2 : q2 = [q1 EXCEPT !.pair = pair] OBVIOUS
<1>3. q1 \in CallRec(n) BY <1>1, AnsweredIs
<1>4. q2 \in CallRec(n) BY <1>2, <1>3, SMT DEF CallRec
<1>5. Brought(q, answer, pair) = q2 BY <1>1, <1>2, Zenon DEF Brought
<1> QED BY <1>4, <1>5

Granted(q, user) ==
  [q EXCEPT !.at = "answered", !.answer = "ok", !.user = user, !.applied = @ + 1]

LEMMA GrantedIs ==
  ASSUME NEW n \in Nat, NEW q \in CallRec(n), NEW user \in UserOrNot
  PROVE  Granted(q, user) \in CallRec(n)
<1>1. PICK q1 : q1 = [q EXCEPT !.at = "answered", !.answer = "ok"] OBVIOUS
<1>2. PICK q2 : q2 = [q1 EXCEPT !.user = user] OBVIOUS
<1>3. PICK q3 : q3 = [q2 EXCEPT !.applied = q.applied + 1] OBVIOUS
<1>4. q1 \in CallRec(n) BY <1>1, AnsweredIs, AnswersNamed
<1>5. q2 \in CallRec(n) BY <1>2, <1>4, SMT DEF CallRec
<1>6. q3 \in CallRec(n) BY <1>3, <1>5, SMT DEF CallRec
<1>7. Granted(q, user) = q3 BY <1>1, <1>2, <1>3, SMT DEF CallRec, Granted
<1> QED BY <1>6, <1>7

\* One call of one tab changes.
Others(tab, c) == \A o \in Tab, d \in Call : o # tab \/ d # c => calls'[o][d] = calls[o][d]
Becomes(tab, c, call) == calls' = [calls EXCEPT ![tab][c] = call]

LEMMA OneCall ==
  ASSUME NEW n \in Nat, calls \in Calls(n), NEW tab \in Tab, NEW c \in Call,
         NEW call \in CallRec(n), Becomes(tab, c, call)
  PROVE  calls' \in Calls(n) /\ calls'[tab][c] = call /\ Others(tab, c)
BY SMT DEF Calls, Becomes, Others

LEMMA OneAnswer ==
  ASSUME NEW n \in Nat, calls \in Calls(n), NEW tab \in Tab, NEW c \in Call,
         NEW answer \in Answering, Answer(tab, c, answer)
  PROVE  /\ calls' \in Calls(n)
         /\ calls'[tab][c].at = "answered" /\ calls'[tab][c].answer = answer
         /\ calls'[tab][c].token = calls[tab][c].token
         /\ calls'[tab][c].user = calls[tab][c].user
         /\ calls'[tab][c].pair = calls[tab][c].pair
         /\ calls'[tab][c].applied = calls[tab][c].applied
         /\ Others(tab, c)
<1>1. PICK q : q = calls[tab][c] OBVIOUS
<1>2. q \in CallRec(n) BY <1>1 DEF Calls
<1>3. PICK s : s = [q EXCEPT !.at = "answered", !.answer = answer] OBVIOUS
<1>4. s \in CallRec(n) BY <1>2, <1>3, AnsweredIs
<1>5. /\ s.at = "answered" /\ s.answer = answer
      /\ s.token = q.token /\ s.user = q.user /\ s.pair = q.pair /\ s.applied = q.applied
  BY <1>2, <1>3, SMT DEF CallRec
<1>6. calls' = [calls EXCEPT ![tab][c] = s]
  BY <1>1, <1>3, Zenon DEF Answer, Calls, CallRec
<1>7. calls' \in Calls(n) BY <1>4, <1>6, SMT DEF Calls
<1>8. calls'[tab][c] = s BY <1>6, SMT DEF Calls
<1>9. Others(tab, c) BY <1>6, SMT DEF Calls, Others
<1> QED BY <1>1, <1>5, <1>7, <1>8, <1>9
---------------------------------------------------------------------------
(* What each action does to the calls, and types.                          *)

\* TypeOK but for the calls.
OtherTypes ==
  /\ pairs \in Seq([family : Nat \ {0}, user : User])
  /\ auth \in [Tab -> [token : TokenOrNot, user : UserOrNot,
                       status : {"checking", "authenticated", "anonymous"}]]
  /\ page \in [Tab -> {"none", "closed", "login", "app"}]
  /\ restoring \in [Tab -> {"no", "refresh", "me"}]
  /\ stranded \in [Tab -> BOOLEAN]
  /\ cookie \in TokenOrNot
  /\ used \subseteq 1..Len(pairs) /\ ended \subseteq Nat /\ expired \subseteq 1..Len(pairs)
  /\ strays \subseteq TokenOrNot /\ reused \subseteq used /\ unheard \subseteq TokenOrNot
  /\ presented \subseteq Tab \X TokenOrNot
  /\ mixed \in BOOLEAN /\ left \in Nat
Types == OtherTypes /\ calls \in Calls(Len(pairs))

LEMMA TypesAre == Types <=> TypeOK
BY DEF Types, OtherTypes, TypeOK, Answering, Calls, CallRec, TokenOrNot

LEMMA CountIsNat == Types => Len(pairs) \in Nat
BY SMT DEF Types, OtherTypes

Pair == [family : Nat \ {0}, user : User]

LEMMA PairIs ==
  ASSUME Types, NEW n \in 1..Len(pairs)
  PROVE  pairs[n] \in Pair /\ pairs[n].family \in Nat /\ pairs[n].user \in User
<1>1. pairs \in Seq(Pair) BY Zenon DEF Types, OtherTypes, Pair
<1>2. pairs[n] \in Pair BY <1>1, SMT
<1> QED BY <1>2, SMT DEF Pair

LEMMA ExchangeEffect ==
  ASSUME Types, NEW token \in TokenOrNot, Exchange(token)
  PROVE  /\ pairs' \in Seq([family : Nat \ {0}, user : User])
         /\ \A n \in 1..Len(pairs) : pairs'[n] = pairs[n]
         /\ ended' \subseteq Nat
         /\ expired' = expired
         /\ reused' = IF token \in used THEN reused \cup {token} ELSE reused
         /\ \/ pairs' = pairs /\ used' = used
            \/ /\ token \in 1..Len(pairs) /\ token \notin used
               /\ Len(pairs') = Len(pairs) + 1 /\ pairs'[Len(pairs')] = pairs[token]
               /\ used' = used \cup {token}
<1>1. token \in Nat /\ (token # 0 => token \in 1..Len(pairs)) /\ 0 \notin used
  BY SMT DEF Types, OtherTypes, TokenOrNot
<1>0. /\ IF token # 0 /\ token \in used THEN reused' = reused \cup {token} /\ ended' = ended \cup {Family(token)}
                                       ELSE reused' = reused /\ ended' = ended
      /\ expired' = expired
  BY Zenon DEF Exchange
<1>2. ended' \subseteq Nat
  <2>1. CASE token # 0 /\ token \in used
    <3>1. ended' = ended \cup {Family(token)} BY <1>0, <2>1
    <3>2. Family(token) \in Nat BY <1>1, <2>1, PairIs DEF Family
    <3>3. ended \subseteq Nat BY DEF Types, OtherTypes
    <3> QED BY <3>1, <3>2, <3>3
  <2>2. CASE ~(token # 0 /\ token \in used)
    <3>1. ended' = ended BY <1>0, <2>2
    <3> QED BY <3>1 DEF Types, OtherTypes
  <2> QED BY <2>1, <2>2
<1>3. reused' = IF token \in used THEN reused \cup {token} ELSE reused
  BY <1>0, <1>1
<1>4. CASE token = 0 \/ token \in used \/ Family(token) \in ended
  BY <1>2, <1>3, <1>4, SMT DEF Exchange, Types, OtherTypes
<1>5. CASE ~(token = 0 \/ token \in used \/ Family(token) \in ended)
  <2>1. pairs' = Append(pairs, pairs[token]) /\ used' = used \cup {token}
    BY <1>5, SMT DEF Exchange
  <2>2. token \in 1..Len(pairs) /\ token \notin used BY <1>1, <1>5
  <2>0. pairs \in Seq(Pair) /\ pairs[token] \in Pair
    BY <2>2, PairIs DEF Types, OtherTypes, Pair
  <2>3. /\ pairs' \in Seq(Pair)
        /\ \A n \in 1..Len(pairs) : pairs'[n] = pairs[n]
        /\ Len(pairs') = Len(pairs) + 1 /\ pairs'[Len(pairs')] = pairs[token]
    BY <2>0, <2>1, <2>2, SMT
  <2> QED BY <1>0, <1>2, <1>3, <2>1, <2>2, <2>3 DEF Pair
<1> QED BY <1>4, <1>5

LEMMA ClickEffect ==
  ASSUME Types, NEW tab \in Tab, NEW r \in Request, Click(tab, r)
  PROVE  /\ Types'
         /\ calls'[tab][r].at = "sent" /\ calls'[tab][r].applied = 0
         /\ Others(tab, r)
<1>1. r \in Call BY DEF Call, Authorized
<1>2. auth[tab].token \in 0..Len(pairs) /\ Len(pairs) \in Nat
  BY CountIsNat, SMT DEF Types, OtherTypes, TokenOrNot
<1>3. PICK s : s = Sent(auth[tab].token, FALSE) OBVIOUS
<1>4. s \in CallRec(Len(pairs)) /\ s.at = "sent" /\ s.applied = 0 BY <1>2, <1>3, SentIs
<1>5. Becomes(tab, r, s) BY <1>3 DEF Click, Becomes
<1>6. calls' \in Calls(Len(pairs)) /\ calls'[tab][r] = s /\ Others(tab, r)
  BY <1>1, <1>2, <1>4, <1>5, OneCall DEF Types
<1>7. /\ UNCHANGED <<auth, page, restoring, stranded, cookie, server, strays, history>>
      /\ left' \in Nat
  BY SMT DEF Click, Spend, Types, OtherTypes
<1>8. Types'
  BY <1>6, <1>7 DEF server, history, Types, OtherTypes, TokenOrNot
<1> QED BY <1>4, <1>6, <1>8

LEMMA SubmitEffect ==
  ASSUME Types, NEW tab \in Tab, NEW u \in User, Submit(tab, u)
  PROVE  /\ Types'
         /\ calls'[tab]["login"].at = "sent" /\ calls'[tab]["login"].user = u
         /\ Others(tab, "login")
<1>1. "login" \in Call BY DEF Call
<1>2. auth[tab].token \in 0..Len(pairs) /\ Len(pairs) \in Nat
  BY CountIsNat, SMT DEF Types, OtherTypes, TokenOrNot
<1>3. PICK q : q = Sent(auth[tab].token, FALSE) OBVIOUS
<1>4. q \in CallRec(Len(pairs)) /\ q.at = "sent" BY <1>2, <1>3, SentIs
<1>5. PICK s : s = [q EXCEPT !.user = u] OBVIOUS
<1>6. s \in CallRec(Len(pairs)) /\ s.at = "sent" /\ s.user = u
  BY <1>4, <1>5, SMT DEF CallRec, UserOrNot
<1>7. Becomes(tab, "login", s) BY <1>3, <1>5 DEF Submit, Becomes
<1>8. calls' \in Calls(Len(pairs)) /\ calls'[tab]["login"] = s /\ Others(tab, "login")
  BY <1>1, <1>2, <1>6, <1>7, OneCall DEF Types
<1>9. Types'
  <2>1. left' \in Nat BY SMT DEF Submit, Spend, Types, OtherTypes
  <2>2. UNCHANGED <<auth, page, restoring, stranded, cookie, server, strays, history>>
    BY Zenon DEF Submit
  <2> QED BY <1>8, <2>1, <2>2 DEF server, history, Types, OtherTypes, TokenOrNot
<1> QED BY <1>6, <1>8, <1>9

LEMMA LogoutEffect ==
  ASSUME Types, NEW tab \in Tab, Logout(tab)
  PROVE  Types' /\ Others(tab, "logout")
<1>1. "logout" \in Call BY DEF Call
<1>2. cookie \in 0..Len(pairs) /\ Len(pairs) \in Nat
  BY CountIsNat, SMT DEF Types, OtherTypes, TokenOrNot
<1>3. Sent(cookie, FALSE) \in CallRec(Len(pairs)) BY <1>2, SentIs
<1>4. Becomes(tab, "logout", Sent(cookie, FALSE)) BY DEF Logout, Becomes
<1>5. calls' \in Calls(Len(pairs)) /\ Others(tab, "logout")
  BY <1>1, <1>2, <1>3, <1>4, OneCall DEF Types
<1>6. Types'
  BY <1>5, SMT DEF Logout, Spend, server, history, Types, OtherTypes, TokenOrNot
<1> QED BY <1>5, <1>6

\* The server has answered something: nothing of the browser moved but calls.
LEMMA ServerTypes ==
  ASSUME Types, pairs' \in Seq(Pair), Len(pairs) <= Len(pairs'),
         calls' \in Calls(Len(pairs')),
         UNCHANGED <<auth, page, restoring, stranded, cookie, presented, unheard, mixed>>,
         used' \subseteq 1..Len(pairs'), ended' \subseteq Nat, expired' \subseteq 1..Len(pairs'),
         strays' \subseteq strays, reused' \subseteq used', left' \in Nat
  PROVE  Types'
<1>1. TokenOrNot \subseteq TokenOrNot' /\ Len(pairs) \in Nat /\ Len(pairs') \in Nat
  BY CountIsNat, SMT DEF TokenOrNot
<1>2. auth' \in [Tab -> [token : TokenOrNot', user : UserOrNot,
                        status : {"checking", "authenticated", "anonymous"}]]
  <2>1. auth \in [Tab -> [token : TokenOrNot, user : UserOrNot,
                        status : {"checking", "authenticated", "anonymous"}]]
    BY DEF Types, OtherTypes
  <2> QED BY <1>1, <2>1, SMT
<1>3. presented' \subseteq Tab \X TokenOrNot'
  <2>1. presented \subseteq Tab \X TokenOrNot BY DEF Types, OtherTypes
  <2> QED BY <1>1, <2>1
<1>4. cookie' \in TokenOrNot' /\ strays' \subseteq TokenOrNot' /\ unheard' \subseteq TokenOrNot'
  <2>1. cookie \in TokenOrNot /\ strays \subseteq TokenOrNot /\ unheard \subseteq TokenOrNot
    BY DEF Types, OtherTypes
  <2> QED BY <1>1, <2>1
<1>5. /\ page' \in [Tab -> {"none", "closed", "login", "app"}]
      /\ restoring' \in [Tab -> {"no", "refresh", "me"}]
      /\ stranded' \in [Tab -> BOOLEAN] /\ mixed' \in BOOLEAN
  BY DEF Types, OtherTypes
<1> QED BY <1>2, <1>3, <1>4, <1>5 DEF Types, OtherTypes, Pair, UserOrNot

LEMMA HandleRefreshEffect ==
  ASSUME Types, NEW tab \in Tab, HandleRefresh(tab)
  PROVE  /\ Types' /\ Others(tab, "refresh")
         /\ calls[tab]["refresh"].at = "sent" /\ Exchange(calls[tab]["refresh"].token)
         /\ calls'[tab]["refresh"].at = "answered"
         /\ calls'[tab]["refresh"].token = calls[tab]["refresh"].token
         /\ IF pairs' = pairs THEN calls'[tab]["refresh"].answer = "denied"
            ELSE calls'[tab]["refresh"].answer = "ok" /\ calls'[tab]["refresh"].pair = Len(pairs')
<1>1. PICK call : call = calls[tab]["refresh"] OBVIOUS
<1>2. "refresh" \in Call BY DEF Call
<1>3. call \in CallRec(Len(pairs)) BY <1>1, <1>2 DEF Types, Calls
<1>4. call.token \in TokenOrNot BY <1>3, SMT DEF CallRec, TokenOrNot
<1>5. Exchange(call.token) /\ call.at = "sent" BY <1>1 DEF HandleRefresh
<1>6. /\ pairs' \in Seq(Pair)
      /\ ended' \subseteq Nat
      /\ expired' = expired
      /\ reused' = IF call.token \in used THEN reused \cup {call.token} ELSE reused
      /\ \/ pairs' = pairs /\ used' = used
         \/ /\ call.token \in 1..Len(pairs) /\ call.token \notin used
            /\ Len(pairs') = Len(pairs) + 1 /\ used' = used \cup {call.token}
  BY <1>4, <1>5, ExchangeEffect, Zenon DEF Pair
<1>7. /\ Len(pairs) \in Nat /\ Len(pairs') \in Nat /\ Len(pairs) <= Len(pairs')
      /\ (Len(pairs') > Len(pairs)) <=> (pairs' # pairs)
  BY <1>6, CountIsNat, SMT
<1>8. used' \subseteq 1..Len(pairs') /\ expired' \subseteq 1..Len(pairs') /\ reused' \subseteq used'
  <2>1. used \subseteq 1..Len(pairs) /\ expired \subseteq 1..Len(pairs) /\ reused \subseteq used
    BY DEF Types, OtherTypes
  <2>2. used' \subseteq 1..Len(pairs') /\ used \subseteq used'
    <3>1. 1..Len(pairs) \subseteq 1..Len(pairs') BY <1>7, SMT
    <3> QED BY <1>6, <2>1, <3>1
  <2>3. expired' \subseteq 1..Len(pairs') BY <1>6, <1>7, <2>1, SMT
  <2>4. reused' \subseteq used' BY <1>6, <2>1, <2>2, Zenon
  <2> QED BY <2>2, <2>3, <2>4
<1>9. PICK answer \in {"ok", "denied"}, pair \in 0..Len(pairs') :
        /\ answer = IF Len(pairs') > Len(pairs) THEN "ok" ELSE "denied"
        /\ pair = IF Len(pairs') > Len(pairs) THEN Len(pairs') ELSE 0
  BY <1>7, SMT
<1>10. PICK s : s = Brought(call, answer, pair) OBVIOUS
<1>11. call \in CallRec(Len(pairs')) /\ calls \in Calls(Len(pairs'))
  BY <1>3, <1>7, MorePairs DEF Types
<1>12. /\ s \in CallRec(Len(pairs')) /\ s.at = "answered" /\ s.answer = answer
       /\ s.pair = pair /\ s.token = call.token
  <2>1. answer \in Answering BY DEF Answering
  <2>0. PICK n : n = Len(pairs') OBVIOUS
  <2>7. n \in Nat /\ call \in CallRec(n) /\ pair \in 0..n BY <1>7, <1>11, <2>0
  <2>2. Brought(call, answer, pair) \in CallRec(n)
    BY <2>1, <2>7, BroughtIs, Zenon
  <2>3. Brought(call, answer, pair).at = "answered"
    BY <2>1, <2>7, SMT DEF CallRec, Brought
  <2>4. Brought(call, answer, pair).answer = answer
    BY <2>1, <2>7, SMT DEF CallRec, Brought
  <2>5. Brought(call, answer, pair).pair = pair
    BY <2>1, <2>7, SMT DEF CallRec, Brought
  <2>6. Brought(call, answer, pair).token = call.token
    BY <2>1, <2>7, SMT DEF CallRec, Brought
  <2> QED BY <1>10, <2>0, <2>2, <2>3, <2>4, <2>5, <2>6, Zenon
<1>14. Becomes(tab, "refresh", s)
  BY <1>1, <1>9, <1>10 DEF HandleRefresh, Becomes, Brought
<1>15. calls' \in Calls(Len(pairs')) /\ calls'[tab]["refresh"] = s /\ Others(tab, "refresh")
  BY <1>2, <1>7, <1>11, <1>12, <1>14, OneCall
<1>16. /\ UNCHANGED <<auth, page, restoring, stranded, cookie, strays, presented, unheard, mixed, left>>
       /\ left \in Nat
  BY Zenon DEF HandleRefresh, history, Types, OtherTypes
<1>17. Types' BY <1>6, <1>7, <1>8, <1>15, <1>16, ServerTypes
<1> QED BY <1>1, <1>5, <1>7, <1>9, <1>12, <1>15, <1>17

LEMMA HandleStrayTypes ==
  ASSUME Types, HandleStray
  PROVE  Types' /\ calls' = calls
<1>1. PICK token \in strays : Exchange(token) /\ strays' = strays \ {token}
  BY DEF HandleStray
<1>2. /\ UNCHANGED <<auth, page, calls, restoring, stranded, cookie, presented, unheard, mixed, left>>
      /\ left \in Nat
  BY Zenon DEF HandleStray, history, Types, OtherTypes
<1>3. token \in TokenOrNot BY DEF Types, OtherTypes
<1>4. /\ pairs' \in Seq(Pair)
      /\ ended' \subseteq Nat
      /\ expired' = expired
      /\ reused' = IF token \in used THEN reused \cup {token} ELSE reused
      /\ \/ pairs' = pairs /\ used' = used
         \/ /\ token \in 1..Len(pairs) /\ token \notin used
            /\ Len(pairs') = Len(pairs) + 1 /\ used' = used \cup {token}
  BY <1>1, <1>3, ExchangeEffect, Zenon DEF Pair
<1>5. Len(pairs) \in Nat /\ Len(pairs') \in Nat /\ Len(pairs) <= Len(pairs')
  BY <1>4, CountIsNat, SMT
<1>6. used' \subseteq 1..Len(pairs') /\ expired' \subseteq 1..Len(pairs') /\ reused' \subseteq used'
  <2>1. used \subseteq 1..Len(pairs) /\ expired \subseteq 1..Len(pairs) /\ reused \subseteq used
    BY DEF Types, OtherTypes
  <2>2. used' \subseteq 1..Len(pairs') /\ used \subseteq used'
    <3>1. 1..Len(pairs) \subseteq 1..Len(pairs') BY <1>5, SMT
    <3> QED BY <1>4, <2>1, <3>1
  <2>3. expired' \subseteq 1..Len(pairs') BY <1>4, <1>5, <2>1, SMT
  <2>4. reused' \subseteq used' BY <1>4, <2>1, <2>2, Zenon
  <2> QED BY <2>2, <2>3, <2>4
<1>7. calls' \in Calls(Len(pairs')) BY <1>2, <1>5, MorePairs DEF Types
<1> QED BY <1>1, <1>2, <1>4, <1>5, <1>6, <1>7, ServerTypes

LEMMA HandleLoginEffect ==
  ASSUME Types, NEW tab \in Tab, HandleLogin(tab), calls[tab]["login"].user \in User
  PROVE  /\ Types' /\ Others(tab, "login")
         /\ calls[tab]["login"].at = "sent" /\ calls'[tab]["login"].at = "answered"
         /\ calls'[tab]["login"].user = calls[tab]["login"].user
         /\ \/ calls'[tab]["login"].answer = "denied" /\ pairs' = pairs
            \/ /\ calls'[tab]["login"].answer = "ok" /\ calls'[tab]["login"].pair = Len(pairs')
               /\ pairs' = Append(pairs, [family |-> Len(pairs) + 1, user |-> calls[tab]["login"].user])
<1>1. PICK call : call = calls[tab]["login"] OBVIOUS
<1>2. "login" \in Call BY DEF Call
<1>3. call \in CallRec(Len(pairs)) /\ calls \in Calls(Len(pairs)) /\ Len(pairs) \in Nat
  BY <1>1, <1>2, CountIsNat DEF Types, Calls
<1>4. /\ UNCHANGED <<auth, page, restoring, stranded, cookie, strays, presented, unheard, mixed>>
      /\ UNCHANGED <<used, ended, expired, reused, left>> /\ call.at = "sent"
  BY <1>1, Zenon DEF HandleLogin, history
<1>5. /\ used \subseteq 1..Len(pairs) /\ expired \subseteq 1..Len(pairs) /\ reused \subseteq used
      /\ ended \subseteq Nat /\ left \in Nat /\ pairs \in Seq(Pair)
  BY DEF Types, OtherTypes, Pair
<1>6. CASE Answer(tab, "login", "denied") /\ pairs' = pairs
  <2>1. /\ calls' \in Calls(Len(pairs)) /\ Others(tab, "login")
        /\ calls'[tab]["login"].at = "answered" /\ calls'[tab]["login"].answer = "denied"
        /\ calls'[tab]["login"].user = calls[tab]["login"].user
    BY <1>2, <1>3, <1>6, OneAnswer, AnswersNamed
  <2> QED BY <1>1, <1>3, <1>4, <1>5, <1>6, <2>1, ServerTypes
<1>7. CASE /\ pairs' = Append(pairs, [family |-> Len(pairs) + 1, user |-> call.user])
           /\ calls' = [calls EXCEPT ![tab]["login"] =
                [call EXCEPT !.at = "answered", !.answer = "ok", !.pair = Len(pairs')]]
  <2>1. /\ pairs' \in Seq(Pair) /\ Len(pairs') = Len(pairs) + 1
    <3>1. [family |-> Len(pairs) + 1, user |-> call.user] \in Pair BY <1>1, <1>3, SMT DEF Pair
    <3> QED BY <1>5, <1>7, <3>1, SMT
  <2>2. call \in CallRec(Len(pairs')) /\ calls \in Calls(Len(pairs')) /\ Len(pairs') \in Nat
    BY <1>3, <2>1, MorePairs
  <2>3. PICK s : s = Brought(call, "ok", Len(pairs')) OBVIOUS
  <2>4. Len(pairs') \in 0..Len(pairs') /\ "ok" \in Answering BY <2>2 DEF Answering
  <2>5. PICK n : n = Len(pairs') OBVIOUS
  <2>6. /\ s \in CallRec(Len(pairs')) /\ s.at = "answered" /\ s.answer = "ok"
        /\ s.pair = Len(pairs') /\ s.user = call.user
    <3>1. n \in Nat /\ n \in 0..n /\ call \in CallRec(n) BY <2>2, <2>4, <2>5
    <3>2. Brought(call, "ok", n) \in CallRec(n)
      BY <2>4, <3>1, BroughtIs, Zenon
    <3>3. Brought(call, "ok", n).at = "answered"
      BY <2>4, <3>1, SMT DEF CallRec, Brought
    <3>4. Brought(call, "ok", n).answer = "ok"
      BY <2>4, <3>1, SMT DEF CallRec, Brought
    <3>5. Brought(call, "ok", n).pair = n
      BY <2>4, <3>1, SMT DEF CallRec, Brought
    <3>6. Brought(call, "ok", n).user = call.user
      BY <2>4, <3>1, SMT DEF CallRec, Brought
    <3> QED BY <2>3, <2>5, <3>2, <3>3, <3>4, <3>5, <3>6, Zenon
  <2>8. Becomes(tab, "login", s) BY <1>7, <2>3 DEF Becomes, Brought
  <2>9. calls' \in Calls(Len(pairs')) /\ calls'[tab]["login"] = s /\ Others(tab, "login")
    BY <1>2, <2>2, <2>6, <2>8, OneCall
  <2>10. /\ used' \subseteq 1..Len(pairs') /\ expired' \subseteq 1..Len(pairs')
         /\ Len(pairs) <= Len(pairs')
    BY <1>3, <1>4, <1>5, <2>1, SMT
  <2>11. Types' BY <1>4, <1>5, <2>1, <2>9, <2>10, ServerTypes
  <2> QED BY <1>1, <1>4, <1>7, <2>6, <2>9, <2>11
<1> QED BY <1>1, <1>6, <1>7 DEF HandleLogin

LEMMA OpenEffect ==
  ASSUME Types, NEW tab \in Tab, Open(tab)
  PROVE  /\ Types' /\ \A o \in Tab \ {tab} : calls'[o] = calls[o]
         /\ calls'[tab]["refresh"].at = "sent" /\ calls'[tab]["refresh"].token = cookie
         /\ calls'[tab]["refresh"].answer = "none"
         /\ \A c \in Call \ {"refresh"} : calls'[tab][c] = Idle
         /\ auth' = [auth EXCEPT ![tab] = [Cleared EXCEPT !.status = "checking"]]
<1>1. cookie \in 0..Len(pairs) /\ Len(pairs) \in Nat /\ calls \in Calls(Len(pairs))
  BY CountIsNat, SMT DEF Types, OtherTypes, TokenOrNot
<1>2. PICK s : s = Sent(cookie, FALSE) OBVIOUS
<1>3. /\ s \in CallRec(Len(pairs)) /\ s.at = "sent" /\ s.token = cookie /\ s.answer = "none"
  BY <1>1, <1>2, SentIs
<1>4. Idle \in CallRec(Len(pairs)) BY <1>1, IdleIs
<1>5. PICK new : new = [c \in Call |-> IF c = "refresh" THEN s ELSE Idle] OBVIOUS
<1>6. /\ new \in [Call -> CallRec(Len(pairs))] /\ new["refresh"] = s
      /\ \A c \in Call \ {"refresh"} : new[c] = Idle
  BY <1>3, <1>4, <1>5, SMT DEF Call
<1>7. calls' = [calls EXCEPT ![tab] = new] BY <1>2, <1>5 DEF Open
<1>8. /\ calls' \in Calls(Len(pairs)) /\ calls'[tab] = new
      /\ \A o \in Tab \ {tab} : calls'[o] = calls[o]
  BY <1>1, <1>6, <1>7, SMT DEF Calls
<1>9. /\ auth' = [auth EXCEPT ![tab] = [Cleared EXCEPT !.status = "checking"]]
      /\ UNCHANGED <<cookie, server, mixed>>
      /\ left' \in Nat
  BY SMT DEF Open, Spend, Types, OtherTypes
<1>10. [Cleared EXCEPT !.status = "checking"] \in
         [token : TokenOrNot, user : UserOrNot, status : {"checking", "authenticated", "anonymous"}]
  BY <1>1, SMT DEF Cleared, TokenOrNot, UserOrNot
<1>11. auth' \in [Tab -> [token : TokenOrNot, user : UserOrNot,
                         status : {"checking", "authenticated", "anonymous"}]]
  BY <1>9, <1>10, SMT DEF Types, OtherTypes
<1>12. /\ page' \in [Tab -> {"none", "closed", "login", "app"}]
       /\ restoring' \in [Tab -> {"no", "refresh", "me"}] /\ stranded' \in [Tab -> BOOLEAN]
  BY SMT DEF Open, Types, OtherTypes
<1>13. "refresh" \in Call /\ calls[tab]["refresh"].token \in 0..Len(pairs)
  <2>1. "refresh" \in Call BY DEF Call
  <2>2. calls[tab]["refresh"] \in CallRec(Len(pairs)) BY <1>1, <2>1 DEF Calls
  <2> QED BY <2>1, <2>2, SMT DEF CallRec
<1>14. /\ strays' \subseteq TokenOrNot /\ unheard' \subseteq TokenOrNot
       /\ presented' \subseteq Tab \X TokenOrNot
  <2>1. PICK forsaken : forsaken = IF InFlight(tab, "refresh") THEN {calls[tab]["refresh"].token} ELSE {}
    OBVIOUS
  <2>2. forsaken \subseteq TokenOrNot BY <1>13, <2>1 DEF TokenOrNot
  <2>3. /\ strays' \subseteq strays \cup forsaken /\ unheard' = unheard \cup forsaken
        /\ presented' = presented \cup {<<tab, cookie>>}
    BY <2>1 DEF Open
  <2> QED BY <1>1, <2>2, <2>3 DEF Types, OtherTypes, TokenOrNot
<1>15. Types'
  BY <1>8, <1>9, <1>11, <1>12, <1>14 DEF server, Types, OtherTypes, TokenOrNot
<1> QED BY <1>3, <1>6, <1>8, <1>9, <1>15

LEMMA HandleLogoutEffect ==
  ASSUME Types, NEW tab \in Tab, HandleLogout(tab)
  PROVE  Types' /\ Others(tab, "logout")
<1>1. PICK call : call = calls[tab]["logout"] OBVIOUS
<1>2. "logout" \in Call BY DEF Call
<1>3. call \in CallRec(Len(pairs)) /\ calls \in Calls(Len(pairs)) /\ Len(pairs) \in Nat
  BY <1>1, <1>2, CountIsNat DEF Types, Calls
<1>4. call.token \in 0..Len(pairs) BY <1>3, SMT DEF CallRec
<1>5. calls' \in Calls(Len(pairs)) /\ Others(tab, "logout")
  <2>1. Answer(tab, "logout", "ok") BY DEF HandleLogout
  <2> QED BY <1>2, <1>3, <2>1, OneAnswer, AnswersNamed
<1>6. ended' \subseteq Nat
  <2>1. ended \subseteq Nat BY DEF Types, OtherTypes
  <2>2. CASE call.token = 0 BY <1>1, <2>1, <2>2 DEF HandleLogout
  <2>3. CASE call.token # 0
    <3>1. call.token \in 1..Len(pairs) BY <1>3, <1>4, <2>3, SMT
    <3>2. Family(call.token) \in Nat BY <3>1, PairIs DEF Family
    <3>3. ended' = ended \cup {Family(call.token)} BY <1>1, <2>3 DEF HandleLogout
    <3> QED BY <2>1, <3>2, <3>3
  <2> QED BY <2>2, <2>3
<1>7. UNCHANGED <<auth, page, restoring, stranded, cookie, pairs, used, expired, reused,
                  strays, history, left>>
  BY Zenon DEF HandleLogout
<1>8. Types' BY <1>5, <1>6, <1>7 DEF history, Types, OtherTypes, TokenOrNot
<1> QED BY <1>5, <1>8

LEMMA HandleAuthorizedEffect ==
  ASSUME Types, NEW tab \in Tab, NEW c \in Authorized, HandleAuthorized(tab, c)
  PROVE  /\ Types' /\ Others(tab, c)
         /\ calls[tab][c].at = "sent" /\ calls'[tab][c].at = "answered"
         /\ calls'[tab][c].token = calls[tab][c].token
         /\ \/ /\ calls'[tab][c].answer = "denied"
               /\ calls'[tab][c].applied = calls[tab][c].applied
            \/ /\ calls'[tab][c].answer = "ok" /\ calls[tab][c].token \in 1..Len(pairs)
               /\ calls'[tab][c].user = pairs[calls[tab][c].token].user
               /\ calls'[tab][c].applied = calls[tab][c].applied + 1
<1>1. PICK call : call = calls[tab][c] OBVIOUS
<1>2. c \in Call BY DEF Call
<1>3. call \in CallRec(Len(pairs)) /\ calls \in Calls(Len(pairs)) /\ Len(pairs) \in Nat
  BY <1>1, <1>2, CountIsNat DEF Types, Calls
<1>4. call.token \in 0..Len(pairs) BY <1>3, SMT DEF CallRec
<1>5. /\ UNCHANGED <<auth, page, restoring, stranded, cookie, server, strays, history, left>>
      /\ call.at = "sent"
  BY <1>1, Zenon DEF HandleAuthorized
<1>6. ASSUME calls' \in Calls(Len(pairs)) PROVE Types'
  BY <1>5, <1>6 DEF server, history, Types, OtherTypes, TokenOrNot
<1>7. CASE Answer(tab, c, "denied")
  <2>1. /\ calls' \in Calls(Len(pairs)) /\ Others(tab, c)
        /\ calls'[tab][c].at = "answered" /\ calls'[tab][c].answer = "denied"
        /\ calls'[tab][c].token = calls[tab][c].token
        /\ calls'[tab][c].applied = calls[tab][c].applied
    BY <1>2, <1>3, <1>7, OneAnswer, AnswersNamed
  <2> QED BY <1>1, <1>5, <1>6, <2>1
<1>8. CASE /\ ~(call.token = 0 \/ call.token \in expired)
           /\ calls' = [calls EXCEPT ![tab][c] =
                [call EXCEPT !.at = "answered", !.answer = "ok",
                             !.user = pairs[call.token].user, !.applied = @ + 1]]
  <2>1. call.token \in 1..Len(pairs) BY <1>3, <1>4, <1>8, SMT
  <2>2. PICK u : u = pairs[call.token].user OBVIOUS
  <2>3. u \in UserOrNot BY <2>1, <2>2, PairIs DEF UserOrNot
  <2>4. PICK s : s = Granted(call, u) OBVIOUS
  <2>5. s \in CallRec(Len(pairs))
    <3>1. Granted(call, u) \in CallRec(Len(pairs)) BY <1>3, <2>3, GrantedIs, Zenon
    <3> QED BY <2>4, <3>1
  <2>6. /\ s.at = "answered" /\ s.answer = "ok" /\ s.user = u
        /\ s.token = call.token /\ s.applied = call.applied + 1
    BY <1>3, <2>4, SMT DEF CallRec, Granted
  <2>7. Becomes(tab, c, s) BY <1>8, <2>2, <2>4 DEF Becomes, Granted
  <2>8. calls' \in Calls(Len(pairs)) /\ calls'[tab][c] = s /\ Others(tab, c)
    BY <1>2, <1>3, <2>5, <2>7, OneCall
  <2> QED BY <1>1, <1>5, <1>6, <2>1, <2>2, <2>6, <2>8
<1> QED BY <1>1, <1>7, <1>8 DEF HandleAuthorized

LEMMA ExpireTypes ==
  ASSUME Types, NEW n \in 1..Len(pairs), Expire(n)
  PROVE  Types'
<1>1. expired' \subseteq 1..Len(pairs) /\ left' \in Nat
  BY SMT DEF Expire, Spend, Types, OtherTypes
<1>2. UNCHANGED <<auth, page, calls, restoring, stranded, cookie, pairs, used, ended, reused,
                  strays, history>>
  BY Zenon DEF Expire
<1> QED BY <1>1, <1>2 DEF history, Types, OtherTypes, TokenOrNot

LEMMA LoseStrayTypes ==
  ASSUME Types, LoseStray
  PROVE  Types'
<1>1. strays' \subseteq strays /\ left' \in Nat
  BY SMT DEF LoseStray, Spend, Types, OtherTypes
<1>2. UNCHANGED <<auth, page, calls, restoring, stranded, cookie, server, history>>
  BY Zenon DEF LoseStray
<1> QED BY <1>1, <1>2 DEF server, history, Types, OtherTypes, TokenOrNot

LEMMA LoseEffect ==
  ASSUME Types, NEW tab \in Tab, NEW c \in Call, Lose(tab, c)
  PROVE  /\ Types' /\ Others(tab, c)
         /\ calls[tab][c].at \in {"sent", "answered"}
         /\ calls'[tab][c].at = "answered" /\ calls'[tab][c].answer \in {"lost", "failed"}
         /\ (calls'[tab][c].answer = "failed" => c = "refresh")
         /\ calls'[tab][c].token = calls[tab][c].token
         /\ calls'[tab][c].user = calls[tab][c].user
         /\ calls'[tab][c].applied = calls[tab][c].applied
<1>1. calls \in Calls(Len(pairs)) /\ Len(pairs) \in Nat BY CountIsNat DEF Types
<1>2. PICK answer \in {"lost", "failed"} :
        Answer(tab, c, answer) /\ (answer = "failed" => c = "refresh")
  BY DEF Lose
<1>3. /\ calls' \in Calls(Len(pairs)) /\ Others(tab, c)
      /\ calls'[tab][c].at = "answered" /\ calls'[tab][c].answer = answer
      /\ calls'[tab][c].token = calls[tab][c].token
      /\ calls'[tab][c].user = calls[tab][c].user
      /\ calls'[tab][c].applied = calls[tab][c].applied
  BY <1>1, <1>2, OneAnswer, AnswersNamed
<1>4. unheard' \subseteq TokenOrNot /\ left' \in Nat
  <2>1. calls[tab][c].token \in TokenOrNot
    <3>1. calls[tab][c] \in CallRec(Len(pairs)) BY <1>1 DEF Calls
    <3> QED BY <3>1, SMT DEF CallRec, TokenOrNot
  <2>2. unheard' = unheard \/ unheard' = unheard \cup {calls[tab][c].token} BY DEF Lose
  <2>3. left' \in Nat BY SMT DEF Lose, Spend, Types, OtherTypes
  <2> QED BY <2>1, <2>2, <2>3 DEF Types, OtherTypes
<1>5. /\ UNCHANGED <<auth, page, restoring, stranded, cookie, server, strays, presented, mixed>>
      /\ calls[tab][c].at \in {"sent", "answered"}
  BY Zenon DEF Lose
<1>6. Types' BY <1>3, <1>4, <1>5 DEF server, Types, OtherTypes, TokenOrNot
<1> QED BY <1>2, <1>3, <1>5, <1>6

AuthRec ==
  [token : TokenOrNot, user : UserOrNot, status : {"checking", "authenticated", "anonymous"}]

LEMMA RedirectedIs ==
  ASSUME Types, NEW tab \in Tab, NEW status, page' = Redirected(tab, status)
  PROVE  page' \in [Tab -> {"none", "closed", "login", "app"}]
BY SMT DEF Redirected, Types, OtherTypes

\* The browser has moved on; the server has not.
LEMMA BrowserTypes ==
  ASSUME Types, calls' \in Calls(Len(pairs)), auth' \in [Tab -> AuthRec],
         page' \in [Tab -> {"none", "closed", "login", "app"}],
         restoring' \in [Tab -> {"no", "refresh", "me"}], stranded' \in [Tab -> BOOLEAN],
         cookie' \in TokenOrNot, presented' \subseteq Tab \X TokenOrNot, mixed' \in BOOLEAN,
         UNCHANGED <<server, strays, unheard, left>>
  PROVE  Types'
BY DEF server, Types, OtherTypes, TokenOrNot, AuthRec

LEMMA ClearedIs ==
  Types => /\ Cleared \in AuthRec
           /\ Cleared.token = 0 /\ Cleared.user = None /\ Cleared.status = "anonymous"
BY CountIsNat, SMT DEF Cleared, AuthRec, TokenOrNot, UserOrNot

LEMMA DeliverLogoutEffect ==
  ASSUME Types, NEW tab \in Tab, DeliverLogout(tab)
  PROVE  /\ Types' /\ Others(tab, "logout")
         /\ auth' = [auth EXCEPT ![tab] = Cleared] /\ cookie' \in {0, cookie}
<1>1. "logout" \in Call BY DEF Call
<1>2. Len(pairs) \in Nat /\ calls \in Calls(Len(pairs)) BY CountIsNat DEF Types
<1>3. Becomes(tab, "logout", Idle) BY DEF DeliverLogout, Becomes
<1>4. calls' \in Calls(Len(pairs)) /\ Others(tab, "logout")
  BY <1>1, <1>2, <1>3, IdleIs, OneCall
<1>5. auth' = [auth EXCEPT ![tab] = Cleared] BY DEF DeliverLogout
<1>6. auth' \in [Tab -> AuthRec]
  <2>1. auth \in [Tab -> AuthRec] BY DEF Types, OtherTypes, AuthRec
  <2> QED BY <1>5, <2>1, ClearedIs, SMT
<1>7. cookie' \in {0, cookie} BY DEF DeliverLogout
<1>8. cookie' \in TokenOrNot
  BY <1>2, <1>7, SMT DEF Types, OtherTypes, TokenOrNot
<1>9. page' \in [Tab -> {"none", "closed", "login", "app"}]
  <2>1. page' = Redirected(tab, "anonymous") BY DEF DeliverLogout
  <2> QED BY <2>1, RedirectedIs
<1>10. UNCHANGED <<restoring, stranded, server, strays, presented, unheard, mixed, left>>
  BY Zenon DEF DeliverLogout, history
<1>11. /\ restoring' \in [Tab -> {"no", "refresh", "me"}] /\ stranded' \in [Tab -> BOOLEAN]
       /\ presented' \subseteq Tab \X TokenOrNot /\ mixed' \in BOOLEAN
  BY <1>10 DEF Types, OtherTypes
<1>12. Types' BY <1>4, <1>6, <1>8, <1>9, <1>10, <1>11, BrowserTypes
<1> QED BY <1>4, <1>5, <1>7, <1>12

LEMMA DeliverLoginEffect ==
  ASSUME Types, NEW tab \in Tab, DeliverLogin(tab)
  PROVE  /\ Types' /\ Others(tab, "login") /\ calls'[tab]["login"] = Idle
         /\ IF Brings(tab, "login")
              THEN /\ cookie' = calls[tab]["login"].pair
                   /\ auth' = [auth EXCEPT ![tab] = SignedIn(tab, calls[tab]["login"])]
              ELSE UNCHANGED <<cookie, auth, mixed>>
<1>1. PICK call : call = calls[tab]["login"] OBVIOUS
<1>2. "login" \in Call BY DEF Call
<1>3. call \in CallRec(Len(pairs)) /\ calls \in Calls(Len(pairs)) /\ Len(pairs) \in Nat
  BY <1>1, <1>2, CountIsNat DEF Types, Calls
<1>4. Becomes(tab, "login", Idle) BY DEF DeliverLogin, Becomes
<1>5. calls' \in Calls(Len(pairs)) /\ calls'[tab]["login"] = Idle /\ Others(tab, "login")
  BY <1>2, <1>3, <1>4, IdleIs, OneCall
<1>6. UNCHANGED <<restoring, stranded, server, strays, presented, unheard, left>>
  BY Zenon DEF DeliverLogin
<1>7. /\ restoring' \in [Tab -> {"no", "refresh", "me"}] /\ stranded' \in [Tab -> BOOLEAN]
      /\ presented' \subseteq Tab \X TokenOrNot
  BY <1>6 DEF Types, OtherTypes
<1>8. IF Brings(tab, "login")
        THEN /\ cookie' = call.pair
             /\ auth' = [auth EXCEPT ![tab] = SignedIn(tab, call)]
             /\ page' = [page EXCEPT ![tab] = "app"] /\ mixed' \in BOOLEAN
        ELSE UNCHANGED <<cookie, auth, page, mixed>>
  BY <1>1 DEF DeliverLogin, Brings
<1>9. /\ auth \in [Tab -> AuthRec] /\ page \in [Tab -> {"none", "closed", "login", "app"}]
      /\ cookie \in TokenOrNot /\ mixed \in BOOLEAN
  BY DEF Types, OtherTypes, AuthRec
<1>10. /\ auth' \in [Tab -> AuthRec] /\ page' \in [Tab -> {"none", "closed", "login", "app"}]
       /\ cookie' \in TokenOrNot /\ mixed' \in BOOLEAN
  <2>1. CASE Brings(tab, "login")
    <3>1. call.pair \in TokenOrNot /\ SignedIn(tab, call) \in AuthRec
      BY <1>3, SMT DEF CallRec, SignedIn, AuthRec, TokenOrNot, UserOrNot
    <3>2. /\ cookie' = call.pair
          /\ auth' = [auth EXCEPT ![tab] = SignedIn(tab, call)]
          /\ page' = [page EXCEPT ![tab] = "app"] /\ mixed' \in BOOLEAN
      BY <1>8, <2>1
    <3>3. auth' \in [Tab -> AuthRec] BY <1>9, <3>1, <3>2, SMT
    <3>4. page' \in [Tab -> {"none", "closed", "login", "app"}] BY <1>9, <3>2, SMT
    <3> QED BY <3>1, <3>2, <3>3, <3>4
  <2>2. CASE ~Brings(tab, "login") BY <1>8, <1>9, <2>2
  <2> QED BY <2>1, <2>2
<1>11. Types' BY <1>5, <1>6, <1>7, <1>10, BrowserTypes
<1> QED BY <1>1, <1>5, <1>8, <1>11

LEMMA WaitingIs ==
  ASSUME NEW n \in Nat, NEW q \in CallRec(n), NEW s, s = [q EXCEPT !.at = "waiting"]
  PROVE  s \in CallRec(n) /\ s.at = "waiting" /\ s.token = q.token /\ s.applied = q.applied
BY SMT DEF CallRec

LEMMA DeliverAuthorizedEffect ==
  ASSUME Types, NEW tab \in Tab, NEW c \in Authorized, DeliverAuthorized(tab, c)
  PROVE  /\ Types' /\ calls[tab][c].at = "answered" /\ c # "refresh"
         /\ IF WorthRetrying(calls[tab][c])
              THEN /\ calls'[tab][c].at = "waiting" /\ calls[tab][c].answer = "denied"
                   /\ calls'[tab][c].token = calls[tab][c].token
                   /\ calls'[tab][c].applied = calls[tab][c].applied
              ELSE calls'[tab][c] = Idle
         /\ IF WorthRetrying(calls[tab][c]) /\ calls[tab]["refresh"].at = "idle"
              THEN /\ calls'[tab]["refresh"].at = "sent" /\ calls'[tab]["refresh"].token = cookie
                   /\ presented' = presented \cup {<<tab, cookie>>}
              ELSE /\ calls'[tab]["refresh"] = calls[tab]["refresh"] /\ presented' = presented
         /\ \A o \in Tab, d \in Call :
              o # tab \/ d \notin {c, "refresh"} => calls'[o][d] = calls[o][d]
         /\ IF c = "me" /\ ~WorthRetrying(calls[tab][c])
              THEN auth' = [auth EXCEPT ![tab] = RestoreOutcome(tab, calls[tab][c])]
              ELSE auth' = auth
<1>1. PICK call, old, again, starts :
        /\ call = calls[tab][c] /\ old = calls[tab]["refresh"]
        /\ again = WorthRetrying(call) /\ starts = (again /\ RefreshFree(tab))
  OBVIOUS
<1>2. c \in Call /\ "refresh" \in Call /\ c # "refresh"
  BY NamesAssumption DEF Call, Authorized
<1>3. /\ call \in CallRec(Len(pairs)) /\ old \in CallRec(Len(pairs))
      /\ calls \in Calls(Len(pairs)) /\ Len(pairs) \in Nat
      /\ cookie \in 0..Len(pairs)
  BY <1>1, <1>2, CountIsNat, SMT DEF Types, OtherTypes, Calls, TokenOrNot
<1>4. PICK s : s = IF again THEN [call EXCEPT !.at = "waiting"] ELSE Idle OBVIOUS
<1>5. PICK r : r = IF starts THEN Sent(cookie, FALSE) ELSE old OBVIOUS
<1>6. /\ s \in CallRec(Len(pairs)) 
      /\ IF again THEN s.at = "waiting" /\ s.token = call.token /\ s.applied = call.applied
                  ELSE s = Idle
  BY <1>3, <1>4, WaitingIs, IdleIs
<1>7. /\ r \in CallRec(Len(pairs))
      /\ IF starts THEN r.at = "sent" /\ r.token = cookie ELSE r = old
  BY <1>3, <1>5, SentIs
<1>8. calls' = [calls EXCEPT ![tab][c] = s, ![tab]["refresh"] = r]
  BY <1>1, <1>2, <1>3, <1>4, <1>5, Zenon DEF DeliverAuthorized, Calls, CallRec
<1>9. /\ calls' \in Calls(Len(pairs)) /\ calls'[tab][c] = s /\ calls'[tab]["refresh"] = r
      /\ \A o \in Tab, d \in Call :
           o # tab \/ d \notin {c, "refresh"} => calls'[o][d] = calls[o][d]
  BY <1>2, <1>3, <1>6, <1>7, <1>8, SMT DEF Calls
<1>10. /\ presented' = IF starts THEN presented \cup {<<tab, cookie>>} ELSE presented
       /\ IF c = "me" /\ ~again
            THEN /\ auth' = [auth EXCEPT ![tab] = RestoreOutcome(tab, call)]
                 /\ restoring' = [restoring EXCEPT ![tab] = "no"]
            ELSE UNCHANGED <<auth, restoring>>
       /\ page' = Redirected(tab, auth'[tab].status)
       /\ UNCHANGED <<stranded, cookie, server, strays, unheard, mixed, left>>
       /\ call.at = "answered"
  BY <1>1, Zenon DEF DeliverAuthorized, Answered
<1>11. auth' \in [Tab -> AuthRec] /\ restoring' \in [Tab -> {"no", "refresh", "me"}]
  <2>1. auth \in [Tab -> AuthRec] /\ restoring \in [Tab -> {"no", "refresh", "me"}]
    BY DEF Types, OtherTypes, AuthRec
  <2>2. RestoreOutcome(tab, call) \in AuthRec
    <3>1. CASE call.answer = "ok"
      <4>1. call.user \in UserOrNot /\ auth[tab].token \in TokenOrNot
        BY <1>3, <2>1, SMT DEF CallRec, AuthRec
      <4> QED BY <3>1, <4>1, SMT DEF RestoreOutcome, AuthRec
    <3>2. CASE call.answer # "ok" BY <3>2, ClearedIs DEF RestoreOutcome
    <3> QED BY <3>1, <3>2
  <2>3. CASE c = "me" /\ ~again
    <3>1. /\ auth' = [auth EXCEPT ![tab] = RestoreOutcome(tab, call)]
          /\ restoring' = [restoring EXCEPT ![tab] = "no"]
      BY <1>10, <2>3
    <3> QED BY <2>1, <2>2, <3>1, SMT
  <2>4. CASE ~(c = "me" /\ ~again) BY <1>10, <2>1, <2>4
  <2> QED BY <2>3, <2>4
<1>12. page' \in [Tab -> {"none", "closed", "login", "app"}] BY <1>10, RedirectedIs
<1>13. /\ presented' \subseteq Tab \X TokenOrNot
       /\ stranded' \in [Tab -> BOOLEAN] /\ cookie' \in TokenOrNot /\ mixed' \in BOOLEAN
  <2>1. /\ presented \subseteq Tab \X TokenOrNot /\ <<tab, cookie>> \in Tab \X TokenOrNot
        /\ stranded \in [Tab -> BOOLEAN] /\ cookie \in TokenOrNot /\ mixed \in BOOLEAN
    BY DEF Types, OtherTypes
  <2> QED BY <1>10, <2>1
<1>14. Types' BY <1>9, <1>10, <1>11, <1>12, <1>13, BrowserTypes
<1>15. again => call.answer = "denied" BY <1>1 DEF WorthRetrying
<1>16. starts <=> again /\ old.at = "idle" BY <1>1 DEF RefreshFree
<1> QED BY <1>1, <1>2, <1>6, <1>7, <1>9, <1>10, <1>14, <1>15, <1>16

Retried(pair, applied) == [Sent(pair, TRUE) EXCEPT !.applied = applied]

LEMMA RetriedIs ==
  ASSUME NEW n \in Nat, NEW pair \in 0..n, NEW applied \in Nat, NEW s, s = Retried(pair, applied)
  PROVE  s \in CallRec(n) /\ s.at = "sent" /\ s.token = pair /\ s.applied = applied
<1>1. PICK q : q = Sent(pair, TRUE) OBVIOUS
<1>2. q \in CallRec(n) /\ q.at = "sent" /\ q.token = pair BY <1>1, SentIs
<1>3. s = [q EXCEPT !.applied = applied] BY <1>1 DEF Retried
<1> QED BY <1>2, <1>3, SMT DEF CallRec

\* What becomes of each call of a tab when its refresh settles.
Continued(tab, c, s) ==
  LET call == calls[tab]["refresh"]
      ok == call.answer = "ok"
  IN CASE c = "refresh" -> s = Idle
       [] c # "refresh" /\ Waits(tab, c) ->
            IF ok THEN s = Retried(call.pair, calls[tab][c].applied) ELSE s = Idle
       [] c = "me" /\ ~Waits(tab, c) /\ ok /\ restoring[tab] = "refresh" -> s = Sent(call.pair, FALSE)
       [] OTHER -> s = calls[tab][c]

LEMMA DeliverRefreshEffect ==
  ASSUME Types, NEW tab \in Tab, DeliverRefresh(tab)
  PROVE  /\ Types' /\ calls[tab]["refresh"].at = "answered"
         /\ \A o \in Tab, d \in Call : o # tab => calls'[o][d] = calls[o][d]
         /\ \A c \in Call : Continued(tab, c, calls'[tab][c])
         /\ cookie' = IF calls[tab]["refresh"].answer = "ok" THEN calls[tab]["refresh"].pair
                      ELSE IF calls[tab]["refresh"].answer = "denied" THEN 0 ELSE cookie
         /\ \/ auth' = auth /\ calls[tab]["refresh"].answer # "ok"
            \/ auth' = [auth EXCEPT ![tab] = Cleared]
            \/ /\ calls[tab]["refresh"].answer = "ok"
               /\ auth' = [auth EXCEPT ![tab].token = calls[tab]["refresh"].pair]
<1>1. PICK call : call = calls[tab]["refresh"] OBVIOUS
<1>2. PICK ok \in BOOLEAN : ok = (call.answer = "ok") OBVIOUS
<1>3. "refresh" \in Call BY DEF Call
<1>4. /\ call \in CallRec(Len(pairs)) /\ calls \in Calls(Len(pairs)) /\ Len(pairs) \in Nat
      /\ call.pair \in 0..Len(pairs)
  <2>1. call \in CallRec(Len(pairs)) /\ calls \in Calls(Len(pairs)) /\ Len(pairs) \in Nat
    BY <1>1, <1>3, CountIsNat DEF Types, Calls
  <2> QED BY <2>1, SMT DEF CallRec
<1>5. /\ auth \in [Tab -> AuthRec] /\ restoring \in [Tab -> {"no", "refresh", "me"}]
      /\ cookie \in TokenOrNot /\ mixed \in BOOLEAN
      /\ presented \subseteq Tab \X TokenOrNot /\ stranded \in [Tab -> BOOLEAN]
  BY DEF Types, OtherTypes, AuthRec
<1>6. PICK new : new = [c \in Call |->
             CASE c = "refresh" -> Idle
               [] c # "refresh" /\ Waits(tab, c) ->
                    IF ok THEN Retried(call.pair, calls[tab][c].applied) ELSE Idle
               [] c = "me" /\ ~Waits(tab, c) /\ ok /\ restoring[tab] = "refresh" -> Sent(call.pair, FALSE)
               [] OTHER -> calls[tab][c]]
  OBVIOUS
<1>7. calls' = [calls EXCEPT ![tab] = new] BY <1>1, <1>2, <1>6 DEF DeliverRefresh, Retried
<1>8. \A c \in Call : Continued(tab, c, new[c]) /\ new[c] \in CallRec(Len(pairs))
  <2> SUFFICES ASSUME NEW c \in Call
               PROVE  Continued(tab, c, new[c]) /\ new[c] \in CallRec(Len(pairs))
    OBVIOUS
  <2>1. calls[tab][c] \in CallRec(Len(pairs)) BY <1>4 DEF Calls
  <2>2. CASE c = "refresh"
    <3>1. new[c] = Idle BY <1>6, <2>2
    <3> QED BY <1>4, <2>2, <3>1, IdleIs DEF Continued
  <2>3. CASE c # "refresh" /\ Waits(tab, c)
    <3>1. calls[tab][c].applied \in Nat BY <2>1, SMT DEF CallRec
    <3>2. new[c] = IF ok THEN Retried(call.pair, calls[tab][c].applied) ELSE Idle
      BY <1>6, <2>3
    <3>3. new[c] \in CallRec(Len(pairs)) BY <1>4, <3>1, <3>2, RetriedIs, IdleIs
    <3>4. Continued(tab, c, new[c]) BY <1>1, <1>2, <2>3, <3>2 DEF Continued
    <3> QED BY <3>3, <3>4
  <2>4. CASE c = "me" /\ ~Waits(tab, c) /\ ok /\ restoring[tab] = "refresh"
    <3>1. new[c] = Sent(call.pair, FALSE) BY <1>6, <2>4
    <3>2. new[c] \in CallRec(Len(pairs))
      <4>1. PICK n, pair : n = Len(pairs) /\ pair = call.pair OBVIOUS
      <4>2. n \in Nat /\ pair \in 0..n /\ FALSE \in BOOLEAN BY <1>4, <4>1
      <4>3. Sent(pair, FALSE) \in CallRec(n) BY <4>2, SentIs, Zenon
      <4> QED BY <3>1, <4>1, <4>3
    <3>3. Continued(tab, c, new[c]) BY <1>1, <1>2, <2>4, <3>1 DEF Continued
    <3> QED BY <3>2, <3>3
  <2>5. CASE c # "refresh" /\ ~Waits(tab, c) /\ ~(c = "me" /\ ~Waits(tab, c) /\ ok /\ restoring[tab] = "refresh")
    <3>1. new[c] = calls[tab][c] BY <1>6, <2>5
    <3> QED BY <1>1, <1>2, <2>1, <2>5, <3>1 DEF Continued
  <2> QED BY <2>2, <2>3, <2>4, <2>5
<1>9. /\ calls' \in Calls(Len(pairs)) /\ \A c \in Call : calls'[tab][c] = new[c]
      /\ \A o \in Tab, d \in Call : o # tab => calls'[o][d] = calls[o][d]
  <2>1. new \in [Call -> CallRec(Len(pairs))] BY <1>6, <1>8
  <2> QED BY <1>4, <1>7, <2>1, SMT DEF Calls
<1>10. PICK out \in BOOLEAN :
         /\ auth' = [auth EXCEPT ![tab] =
              IF out THEN Cleared ELSE IF ok THEN [@ EXCEPT !.token = call.pair] ELSE @]
         /\ ok => ~out
  <2>1. PICK out \in BOOLEAN : out = (call.answer \in {"denied", "failed"} \/ (call.answer = "lost" /\ Waits(tab, "me")))
    OBVIOUS
  <2> QED BY <1>1, <1>2, <2>1 DEF DeliverRefresh
<1>11. PICK mine : mine = IF out THEN Cleared
                          ELSE IF ok THEN [auth[tab] EXCEPT !.token = call.pair] ELSE auth[tab]
  OBVIOUS
<1>12. auth' = [auth EXCEPT ![tab] = mine] BY <1>5, <1>10, <1>11, Zenon DEF AuthRec
<1>13. mine \in AuthRec
  <2>1. auth[tab] \in AuthRec BY <1>5
  <2>2. [auth[tab] EXCEPT !.token = call.pair] \in AuthRec
    BY <1>4, <2>1, SMT DEF AuthRec, TokenOrNot
  <2> QED BY <1>11, <2>1, <2>2, ClearedIs
<1>14. /\ cookie' = IF call.answer = "ok" THEN call.pair
                    ELSE IF call.answer = "denied" THEN 0 ELSE cookie
       /\ cookie' \in TokenOrNot
  <2>1. cookie' = CASE call.answer = "ok" -> call.pair [] call.answer = "denied" -> 0
                    [] OTHER -> cookie
    BY <1>1 DEF DeliverRefresh
  <2> QED BY <1>4, <1>5, <2>1, SMT DEF TokenOrNot
<1>15. restoring' \in [Tab -> {"no", "refresh", "me"}] /\ stranded' \in [Tab -> BOOLEAN]
  <2>1. PICK r \in {"no", "refresh", "me"}, b \in BOOLEAN :
          restoring' = [restoring EXCEPT ![tab] = r] /\ stranded' = [stranded EXCEPT ![tab] = b]
    <3>1. restoring[tab] \in {"no", "refresh", "me"} /\ stranded[tab] \in BOOLEAN BY <1>5
    <3>2. PICK r : r = IF ok THEN IF restoring[tab] = "refresh" THEN "me" ELSE restoring[tab]
                       ELSE IF restoring[tab] = "refresh" \/ Waits(tab, "me") THEN "no"
                            ELSE restoring[tab]
      OBVIOUS
    <3>3. PICK b \in BOOLEAN : b = (stranded[tab] \/ (call.answer = "lost" /\ restoring[tab] = "refresh"))
      BY <3>1
    <3>4. restoring' = [restoring EXCEPT ![tab] = r]
      BY <1>1, <1>2, <1>5, <3>2, Zenon DEF DeliverRefresh
    <3>5. stranded' = [stranded EXCEPT ![tab] = b]
      BY <1>1, <1>5, <3>3, Zenon DEF DeliverRefresh
    <3> QED BY <3>1, <3>2, <3>4, <3>5
  <2> QED BY <1>5, <2>1, SMT
<1>16. /\ page' = Redirected(tab, auth'[tab].status)
       /\ UNCHANGED <<server, strays, presented, unheard, mixed, left>> /\ call.at = "answered"
  BY <1>1, Zenon DEF DeliverRefresh, history, Answered
<1>17. page' \in [Tab -> {"none", "closed", "login", "app"}] BY <1>16, RedirectedIs
<1>18. auth' \in [Tab -> AuthRec] BY <1>5, <1>12, <1>13, SMT
<1>19. Types' BY <1>5, <1>9, <1>14, <1>15, <1>16, <1>17, <1>18, BrowserTypes
<1>20. \/ auth' = auth /\ ~ok
       \/ auth' = [auth EXCEPT ![tab] = Cleared]
       \/ ok /\ auth' = [auth EXCEPT ![tab].token = call.pair]
  <2>1. CASE out BY <1>11, <1>12, <2>1
  <2>2. CASE ~out /\ ok BY <1>10, <2>2
  <2>3. CASE ~out /\ ~ok BY <1>5, <1>11, <1>12, <2>3, SMT
  <2> QED BY <2>1, <2>2, <2>3
<1> QED BY <1>1, <1>2, <1>8, <1>9, <1>14, <1>16, <1>19, <1>20

\* A sign-in is never kept waiting and knows whom it is for.
LoginUsers ==
  \A tab \in Tab :
    LET call == calls[tab]["login"] IN
    call.at # "waiting" /\ (call.at # "idle" => call.user \in User)
TypesInv == Types /\ LoginUsers

LEMMA InitTypes == Init => TypesInv
<1> SUFFICES ASSUME Init PROVE TypesInv
  OBVIOUS
<1>1. /\ pairs \in Seq(Pair) /\ Len(pairs) \in Nat
      /\ used \subseteq 1..Len(pairs) /\ expired \subseteq 1..Len(pairs) /\ cookie \in 0..Len(pairs)
      /\ auth \in [Tab -> AuthRec]
      /\ page \in [Tab -> {"none", "closed", "login", "app"}] /\ left \in Nat
  <2>1. CASE FirstVisit
    <3>1. PICK u \in User : pairs = <<[family |-> 1, user |-> u]>> BY <2>1 DEF FirstVisit
    <3>2. pairs \in Seq(Pair) /\ Len(pairs) = 1 BY <3>1, SMT DEF Pair
    <3>3. [Cleared EXCEPT !.status = "checking"] \in AuthRec
      BY <3>2, SMT DEF Cleared, AuthRec, TokenOrNot, UserOrNot
    <3>4. auth \in [Tab -> AuthRec] BY <2>1, <3>3 DEF FirstVisit
    <3>5. /\ used \subseteq 1..Len(pairs) /\ expired \subseteq 1..Len(pairs)
          /\ cookie \in 0..Len(pairs) /\ left \in Nat
      BY <2>1, <3>2, BudgetAssumption, SMT DEF FirstVisit
    <3>6. page \in [Tab -> {"none", "closed", "login", "app"}] BY <2>1, SMT DEF FirstVisit
    <3> QED BY <3>2, <3>4, <3>5, <3>6
  <2>2. CASE Overnight
    <3>1. PICK last \in {1, 2} : last = IF 2 \in Tab THEN 2 ELSE 1 OBVIOUS
    <3>2. PICK u \in User :
            /\ pairs = [n \in 1..last |-> [family |-> 1, user |-> u]]
            /\ auth = [tab \in Tab |-> [token |-> tab, user |-> u, status |-> "authenticated"]]
      BY <2>2, <3>1 DEF Overnight
    <3>3. [family |-> 1, user |-> u] \in Pair BY SMT DEF Pair
    <3>4. pairs \in Seq(Pair) /\ Len(pairs) = last
      <4>1. pairs \in [1..last -> Pair] BY <3>2, <3>3
      <4>2. DOMAIN pairs = 1..last BY <3>2
      <4> QED BY <3>1, <4>1, <4>2, SMT
    <3>5. Tab \subseteq 0..last BY <3>1, TabAssumption, SMT
    <3>6. auth \in [Tab -> AuthRec] BY <3>2, <3>4, <3>5, SMT DEF AuthRec, TokenOrNot, UserOrNot
    <3>7. /\ used \subseteq 1..Len(pairs) /\ expired \subseteq 1..Len(pairs)
          /\ cookie \in 0..Len(pairs) /\ left \in Nat
      BY <2>2, <3>1, <3>4, BudgetAssumption, SMT DEF Overnight
    <3>8. page \in [Tab -> {"none", "closed", "login", "app"}] BY <2>2, SMT DEF Overnight
    <3> QED BY <3>1, <3>4, <3>6, <3>7, <3>8
  <2> QED BY <2>1, <2>2 DEF Init
<1>2. /\ calls \in Calls(Len(pairs)) /\ \A tab \in Tab, c \in Call : calls[tab][c] = Idle
  <2>1. calls = [tab \in Tab |-> [c \in Call |-> Idle]] BY DEF Init, Nothing
  <2> QED BY <1>1, <2>1, IdleIs DEF Calls
<1>3. LoginUsers BY <1>1, <1>2, IdleIs DEF LoginUsers, Call
<1>4. /\ restoring \in [Tab -> {"no", "refresh", "me"}] /\ stranded \in [Tab -> BOOLEAN]
      /\ ended = {} /\ strays = {} /\ reused = {} /\ presented = {} /\ unheard = {} /\ mixed = FALSE
  BY SMT DEF Init
<1> QED BY <1>1, <1>2, <1>3, <1>4 DEF TypesInv, Types, OtherTypes, Pair, AuthRec, TokenOrNot

LEMMA LoginElsewhere ==
  ASSUME LoginUsers, NEW tab \in Tab, NEW c \in Call, c # "login", Others(tab, c)
  PROVE  LoginUsers'
<1>1. "login" \in Call BY DEF Call
<1> QED BY <1>1 DEF LoginUsers, Others

LEMMA LoginChanged ==
  ASSUME LoginUsers, NEW tab \in Tab, Others(tab, "login"),
         calls'[tab]["login"].at # "waiting",
         calls'[tab]["login"].at = "idle" \/ calls'[tab]["login"].user \in User
  PROVE  LoginUsers'
<1>1. "login" \in Call BY DEF Call
<1> QED BY <1>1 DEF LoginUsers, Others

LEMMA NamesOfCalls ==
  /\ {"me", "refresh", "login", "logout"} \subseteq Call
  /\ Request \subseteq Authorized /\ Authorized \subseteq Call
  /\ Authorized \cap {"refresh", "login", "logout"} = {}
BY NamesAssumption DEF Call, Authorized

\* Types hold all along: the numbers of tokens stay within those issued.
LEMMA TypesStep ==
  ASSUME TypesInv, [Next]_vars
  PROVE  TypesInv'
<1> USE DEF TypesInv
<1>1. ASSUME NEW tab \in Tab, Open(tab) PROVE TypesInv'
  <2>1. Types' /\ (\A o \in Tab \ {tab} : calls'[o] = calls[o]) /\ calls'[tab]["login"] = Idle
    BY <1>1, OpenEffect, NamesOfCalls
  <2> QED BY <2>1, IdleIs DEF LoginUsers
<1>2. ASSUME NEW tab \in Tab, NEW r \in Request, Click(tab, r) PROVE TypesInv'
  BY <1>2, ClickEffect, LoginElsewhere, NamesOfCalls
<1>3. ASSUME NEW tab \in Tab, NEW u \in User, Submit(tab, u) PROVE TypesInv'
  BY <1>3, SubmitEffect, LoginChanged
<1>4. ASSUME NEW tab \in Tab, Logout(tab) PROVE TypesInv'
  BY <1>4, LogoutEffect, LoginElsewhere, NamesOfCalls
<1>5. ASSUME NEW tab \in Tab, HandleRefresh(tab) PROVE TypesInv'
  BY <1>5, HandleRefreshEffect, LoginElsewhere, NamesOfCalls
<1>6. ASSUME NEW tab \in Tab, HandleLogin(tab) PROVE TypesInv'
  <2>1. calls[tab]["login"].user \in User BY <1>6 DEF HandleLogin, LoginUsers
  <2> QED BY <1>6, <2>1, HandleLoginEffect, LoginChanged
<1>7. ASSUME NEW tab \in Tab, HandleLogout(tab) PROVE TypesInv'
  BY <1>7, HandleLogoutEffect, LoginElsewhere, NamesOfCalls
<1>8. ASSUME NEW tab \in Tab, NEW c \in Authorized, HandleAuthorized(tab, c) PROVE TypesInv'
  BY <1>8, HandleAuthorizedEffect, LoginElsewhere, NamesOfCalls
<1>9. ASSUME NEW tab \in Tab, DeliverRefresh(tab) PROVE TypesInv'
  <2>1. /\ Types' /\ \A o \in Tab, d \in Call : o # tab => calls'[o][d] = calls[o][d]
        /\ Continued(tab, "login", calls'[tab]["login"])
    BY <1>9, DeliverRefreshEffect, NamesOfCalls
  <2>2. calls'[tab]["login"] = calls[tab]["login"]
    BY <2>1 DEF LoginUsers, Continued, Waits
  <2> QED BY <2>1, <2>2, NamesOfCalls DEF LoginUsers
<1>10. ASSUME NEW tab \in Tab, DeliverLogin(tab) PROVE TypesInv'
  <2>1. Types' /\ Others(tab, "login") /\ calls'[tab]["login"] = Idle
    BY <1>10, DeliverLoginEffect
  <2> QED BY <2>1, IdleIs, LoginChanged
<1>11. ASSUME NEW tab \in Tab, DeliverLogout(tab) PROVE TypesInv'
  BY <1>11, DeliverLogoutEffect, LoginElsewhere, NamesOfCalls
<1>12. ASSUME NEW tab \in Tab, NEW c \in Authorized, DeliverAuthorized(tab, c) PROVE TypesInv'
  <2>1. Types' /\ \A o \in Tab : calls'[o]["login"] = calls[o]["login"]
    BY <1>12, DeliverAuthorizedEffect, NamesOfCalls
  <2> QED BY <2>1 DEF LoginUsers
<1>13. ASSUME NEW tab \in Tab, NEW c \in Call, Lose(tab, c) PROVE TypesInv'
  <2>1. /\ Types' /\ Others(tab, c)
        /\ calls[tab][c].at \in {"sent", "answered"}
        /\ calls'[tab][c].at = "answered" /\ calls'[tab][c].user = calls[tab][c].user
    BY <1>13, LoseEffect
  <2>2. CASE c = "login"
    <3>1. calls[tab]["login"].user \in User BY <2>1, <2>2 DEF LoginUsers
    <3> QED BY <2>1, <2>2, <3>1, LoginChanged
  <2>3. CASE c # "login" BY <2>1, <2>3, LoginElsewhere
  <2> QED BY <2>2, <2>3
<1>14. ASSUME NEW n \in 1..Len(pairs), Expire(n) PROVE TypesInv'
  BY <1>14, ExpireTypes DEF Expire, LoginUsers
<1>15. CASE HandleStray BY <1>15, HandleStrayTypes DEF LoginUsers
<1>16. CASE LoseStray BY <1>16, LoseStrayTypes DEF LoseStray, LoginUsers
<1>17. CASE UNCHANGED vars
  BY <1>17 DEF vars, server, history, Types, OtherTypes, TokenOrNot, LoginUsers
<1> QED BY <1>1, <1>2, <1>3, <1>4, <1>5, <1>6, <1>7, <1>8, <1>9, <1>10, <1>11, <1>12, <1>13, <1>14,
           <1>15, <1>16, <1>17 DEF Next, Handle, Deliver

\* Type correctness of every session, for any users and requests: no tab, no
\* cookie and no call holds a token that was never issued.
THEOREM SessionTypeCorrect == Spec => []TypeOK
<1>1. Init => TypesInv BY InitTypes
<1>2. TypesInv /\ [Next]_vars => TypesInv' BY TypesStep
<1>3. TypesInv => TypeOK BY TypesAre DEF TypesInv
<1> QED BY <1>1, <1>2, <1>3, PTL DEF Spec
---------------------------------------------------------------------------
(* A request takes effect at most once.                                    *)

ShapeOf(call) ==
  /\ call.applied <= 1
  /\ call.at # "answered" \/ call.answer = "denied" => call.applied = 0

LEMMA AppliedIs == AppliedShape <=> \A tab \in Tab, c \in Authorized : ShapeOf(calls[tab][c])
BY DEF AppliedShape, ShapeOf

LEMMA AppliedElsewhere ==
  ASSUME AppliedShape, NEW tab \in Tab, NEW c \in Call, Others(tab, c),
         c \in Authorized => ShapeOf(calls'[tab][c])
  PROVE  AppliedShape'
<1> SUFFICES ASSUME NEW o \in Tab, NEW d \in Authorized PROVE ShapeOf(calls'[o][d])
  BY DEF AppliedShape, ShapeOf
<1>1. ShapeOf(calls[o][d]) BY AppliedIs
<1>2. CASE o # tab \/ d # c
  <2>1. calls'[o][d] = calls[o][d] BY <1>2, NamesOfCalls DEF Others
  <2> QED BY <1>1, <2>1
<1>3. CASE o = tab /\ d = c BY <1>3
<1> QED BY <1>2, <1>3

LEMMA AppliedStep ==
  ASSUME TypesInv, AppliedShape, [Next]_vars
  PROVE  AppliedShape'
<1> USE DEF TypesInv
<1>0. ShapeOf(Idle) BY IdleIs DEF ShapeOf
<1>1. ASSUME NEW tab \in Tab, Open(tab) PROVE AppliedShape'
  <2>1. /\ \A o \in Tab \ {tab} : calls'[o] = calls[o]
        /\ \A c \in Authorized : calls'[tab][c] = Idle
    BY <1>1, OpenEffect, NamesOfCalls
  <2> QED BY <1>0, <2>1 DEF AppliedShape, ShapeOf
<1>2. ASSUME NEW tab \in Tab, NEW r \in Request, Click(tab, r) PROVE AppliedShape'
  <2>1. calls'[tab][r].at = "sent" /\ calls'[tab][r].applied = 0 /\ Others(tab, r)
    BY <1>2, ClickEffect
  <2>2. ShapeOf(calls'[tab][r]) BY <2>1, SMT DEF ShapeOf
  <2> QED BY <2>1, <2>2, AppliedElsewhere, NamesOfCalls
<1>3. ASSUME NEW tab \in Tab, NEW u \in User, Submit(tab, u) PROVE AppliedShape'
  BY <1>3, SubmitEffect, AppliedElsewhere, NamesOfCalls
<1>4. ASSUME NEW tab \in Tab, Logout(tab) PROVE AppliedShape'
  BY <1>4, LogoutEffect, AppliedElsewhere, NamesOfCalls
<1>5. ASSUME NEW tab \in Tab, HandleRefresh(tab) PROVE AppliedShape'
  BY <1>5, HandleRefreshEffect, AppliedElsewhere, NamesOfCalls
<1>6. ASSUME NEW tab \in Tab, HandleLogin(tab) PROVE AppliedShape'
  <2>1. calls[tab]["login"].user \in User BY <1>6 DEF HandleLogin, LoginUsers
  <2> QED BY <1>6, <2>1, HandleLoginEffect, AppliedElsewhere, NamesOfCalls
<1>7. ASSUME NEW tab \in Tab, HandleLogout(tab) PROVE AppliedShape'
  BY <1>7, HandleLogoutEffect, AppliedElsewhere, NamesOfCalls
<1>8. ASSUME NEW tab \in Tab, NEW c \in Authorized, HandleAuthorized(tab, c) PROVE AppliedShape'
  <2>1. /\ Others(tab, c) /\ calls[tab][c].at = "sent" /\ calls'[tab][c].at = "answered"
        /\ \/ /\ calls'[tab][c].answer = "denied"
              /\ calls'[tab][c].applied = calls[tab][c].applied
           \/ /\ calls'[tab][c].answer = "ok"
              /\ calls'[tab][c].applied = calls[tab][c].applied + 1
    BY <1>8, HandleAuthorizedEffect
  <2>2. calls[tab][c].applied = 0 BY <2>1 DEF AppliedShape
  <2>3. ShapeOf(calls'[tab][c]) BY <2>1, <2>2, SMT DEF ShapeOf
  <2> QED BY <2>1, <2>3, AppliedElsewhere, NamesOfCalls
<1>9. ASSUME NEW tab \in Tab, DeliverRefresh(tab) PROVE AppliedShape'
  <2>1. /\ \A o \in Tab, d \in Call : o # tab => calls'[o][d] = calls[o][d]
        /\ \A c \in Call : Continued(tab, c, calls'[tab][c])
    BY <1>9, DeliverRefreshEffect
  <2>2. ASSUME NEW c \in Authorized PROVE ShapeOf(calls'[tab][c])
    <3>1. Continued(tab, c, calls'[tab][c]) /\ c # "refresh" /\ c \in Call
      BY <2>1, NamesOfCalls
    <3>2. ShapeOf(calls[tab][c]) BY AppliedIs
    <3>3. CASE calls'[tab][c] = Idle BY <1>0, <3>3
    <3>4. CASE calls'[tab][c] = calls[tab][c] BY <3>2, <3>4
    <3>5. CASE calls'[tab][c] = Sent(calls[tab]["refresh"].pair, FALSE)
      <4>1. calls'[tab][c].at = "sent" /\ calls'[tab][c].applied = 0
        BY <3>5, SMT DEF Sent, Idle
      <4> QED BY <4>1, SMT DEF ShapeOf
    <3>6. CASE /\ Waits(tab, c)
               /\ calls'[tab][c] = Retried(calls[tab]["refresh"].pair, calls[tab][c].applied)
      <4>1. calls'[tab][c].at = "sent" /\ calls'[tab][c].applied = calls[tab][c].applied
        BY <3>6, SMT DEF Retried, Sent, Idle
      <4>2. calls[tab][c].applied = 0 BY <3>6 DEF AppliedShape, Waits
      <4> QED BY <4>1, <4>2, SMT DEF ShapeOf
    <3> QED BY <3>1, <3>3, <3>4, <3>5, <3>6 DEF Continued
  <2> QED BY <2>1, <2>2, NamesOfCalls DEF AppliedShape, ShapeOf
<1>10. ASSUME NEW tab \in Tab, DeliverLogin(tab) PROVE AppliedShape'
  BY <1>10, DeliverLoginEffect, AppliedElsewhere, NamesOfCalls
<1>11. ASSUME NEW tab \in Tab, DeliverLogout(tab) PROVE AppliedShape'
  BY <1>11, DeliverLogoutEffect, AppliedElsewhere, NamesOfCalls
<1>12. ASSUME NEW tab \in Tab, NEW c \in Authorized, DeliverAuthorized(tab, c) PROVE AppliedShape'
  <2>1. /\ \/ /\ calls'[tab][c].at = "waiting" /\ calls[tab][c].answer = "denied"
              /\ calls'[tab][c].applied = calls[tab][c].applied
           \/ calls'[tab][c] = Idle
        /\ \A o \in Tab, d \in Call :
             o # tab \/ d \notin {c, "refresh"} => calls'[o][d] = calls[o][d]
    BY <1>12, DeliverAuthorizedEffect
  <2>2. ShapeOf(calls'[tab][c])
    <3>1. CASE calls'[tab][c] = Idle BY <1>0, <3>1
    <3>2. CASE /\ calls'[tab][c].at = "waiting" /\ calls[tab][c].answer = "denied"
               /\ calls'[tab][c].applied = calls[tab][c].applied
      <4>1. calls[tab][c].applied = 0 BY <3>2 DEF AppliedShape
      <4> QED BY <3>2, <4>1, SMT DEF ShapeOf
    <3> QED BY <2>1, <3>1, <3>2
  <2> QED BY <2>1, <2>2, NamesOfCalls DEF AppliedShape, ShapeOf
<1>13. ASSUME NEW tab \in Tab, NEW c \in Call, Lose(tab, c) PROVE AppliedShape'
  <2>1. /\ Others(tab, c)
        /\ calls'[tab][c].at = "answered" /\ calls'[tab][c].answer \in {"lost", "failed"}
        /\ calls'[tab][c].applied = calls[tab][c].applied
    BY <1>13, LoseEffect
  <2>2. c \in Authorized => ShapeOf(calls'[tab][c]) BY <2>1 DEF AppliedShape, ShapeOf
  <2> QED BY <2>1, <2>2, AppliedElsewhere
<1>14. CASE UNCHANGED calls BY <1>14 DEF AppliedShape
<1>15. ASSUME NEW n \in 1..Len(pairs), Expire(n) PROVE UNCHANGED calls BY <1>15 DEF Expire
<1>16. HandleStray \/ LoseStray \/ UNCHANGED vars => UNCHANGED calls
  BY Zenon DEF HandleStray, LoseStray, vars
<1>17. ASSUME NEW tab \in Tab, Handle(tab) PROVE AppliedShape'
  BY <1>5, <1>6, <1>7, <1>8, <1>17 DEF Handle
<1>18. ASSUME NEW tab \in Tab, Deliver(tab) PROVE AppliedShape'
  BY <1>9, <1>10, <1>11, <1>12, <1>18 DEF Deliver
<1> QED BY <1>1, <1>2, <1>3, <1>4, <1>6, <1>13, <1>14, <1>15, <1>16, <1>17, <1>18 DEF Next

\* A click takes effect on the server at most once, however often request()
\* sent it: it is sent again only after a 401, which applied nothing.
THEOREM AppliedOnce == Spec => []AppliedAtMostOnce
<1>1. Init => TypesInv /\ AppliedShape
  <2>1. Init => \A tab \in Tab, c \in Call : calls[tab][c] = Idle BY DEF Init, Nothing
  <2> QED BY <2>1, InitTypes, IdleIs, NamesOfCalls DEF AppliedShape
<1>2. TypesInv /\ AppliedShape /\ [Next]_vars => TypesInv' /\ AppliedShape'
  BY TypesStep, AppliedStep
<1>3. AppliedShape => AppliedAtMostOnce BY NamesOfCalls DEF AppliedShape, AppliedAtMostOnce
<1> QED BY <1>1, <1>2, <1>3, PTL DEF Spec
---------------------------------------------------------------------------
(* Every used token the server sees again has a cause.                     *)

LEMMA CausedStays ==
  ASSUME NEW token, Caused(token), presented \subseteq presented', unheard \subseteq unheard'
  PROVE  Caused(token)'
BY DEF Caused, PresentedByTwo

LEMMA ReuseIs == ReuseHasACause <=> \A token \in reused : Caused(token)
BY DEF ReuseHasACause, Caused, PresentedByTwo

LEMMA ReuseStays ==
  ASSUME ReuseHasACause, presented \subseteq presented', unheard \subseteq unheard',
         \A token \in reused' \ reused : Caused(token)'
  PROVE  ReuseHasACause'
<1>1. \A token \in reused' : Caused(token)' BY ReuseIs, CausedStays
<1> QED BY <1>1 DEF ReuseHasACause, Caused, PresentedByTwo

\* No token is presented, no pair issued or handed over.
LEMMA CauseFrame ==
  ASSUME Types, CauseInv,
         \A o \in Tab, c \in Bringing :
           Brings(o, c)' => Brings(o, c) /\ calls'[o][c].pair = calls[o][c].pair,
         \A o \in Tab :
           /\ InFlight(o, "refresh")' =>
                InFlight(o, "refresh") /\ calls'[o]["refresh"].token = calls[o]["refresh"].token
           /\ calls'[o]["refresh"].at = "sent" => calls[o]["refresh"].at = "sent"
           /\ Brings(o, "refresh") =>
                \/ Brings(o, "refresh")' /\ calls'[o]["refresh"].token = calls[o]["refresh"].token
                \/ calls[o]["refresh"].token \in unheard',
         cookie' \in {0, cookie}, UNCHANGED <<pairs, used, reused, presented>>,
         unheard \subseteq unheard', strays' \subseteq strays
  PROVE  CauseInv'
<1>0. 0 \notin used BY SMT DEF Types, OtherTypes
<1>1. PresentedShape' BY DEF CauseInv, PresentedShape
<1>2. CookieShape' BY <1>0 DEF CauseInv, CookieShape
<1>3. SentShape'
  <2> SUFFICES ASSUME NEW o \in Tab, NEW t \in used, calls'[o]["refresh"].at = "sent",
                      calls'[o]["refresh"].token = t
               PROVE  Caused(t)'
    BY DEF SentShape
  <2>1. calls[o]["refresh"].token = t /\ calls[o]["refresh"].at = "sent"
    BY DEF InFlight
  <2>2. Caused(t) BY <2>1 DEF CauseInv, SentShape
  <2> QED BY <2>2, CausedStays
<1>4. PairShape'
  <2> SUFFICES ASSUME NEW o \in Tab, NEW c \in Bringing, NEW n \in Nat,
                      Brings(o, c)', calls'[o][c].pair = n
               PROVE  /\ Unknown(n)'
                      /\ \A p \in Tab, d \in Bringing :
                           Brings(p, d)' /\ calls'[p][d].pair = n => p = o /\ d = c
    BY DEF PairShape
  <2>1. Brings(o, c) /\ calls[o][c].pair = n OBVIOUS
  <2>2. Unknown(n) BY <2>1 DEF CauseInv, PairShape
  <2>3. n # 0 BY <2>2, SMT DEF Unknown
  <2>4. \A p \in Tab, d \in Bringing : Brings(p, d)' /\ calls'[p][d].pair = n => p = o /\ d = c
    BY <2>1 DEF CauseInv, PairShape
  <2>5. Unknown(n)' BY <2>2, <2>3 DEF Unknown
  <2> QED BY <2>4, <2>5
<1>5. ReuseHasACause' BY ReuseStays DEF CauseInv
<1> QED BY <1>1, <1>2, <1>3, <1>4, <1>5 DEF CauseInv

\* A tab presents the cookie, with or without abandoning a refresh for it.
LEMMA CookiePresented ==
  ASSUME Types, CauseInv, NEW tab \in Tab,
         calls'[tab]["refresh"].at = "sent", calls'[tab]["refresh"].token = cookie,
         \A o \in Tab \ {tab} : calls'[o]["refresh"] = calls[o]["refresh"],
         \A o \in Tab, c \in Bringing :
           Brings(o, c)' => Brings(o, c) /\ calls'[o][c].pair = calls[o][c].pair,
         InFlight(tab, "refresh") => calls[tab]["refresh"].token \in unheard',
         presented' = presented \cup {<<tab, cookie>>}, unheard \subseteq unheard',
         \A token \in strays' : token \in strays \/ (token \in unheard' /\ <<tab, token>> \in presented),
         UNCHANGED <<pairs, used, reused, cookie>>
  PROVE  CauseInv'
<1>1. PresentedShape'
  <2>1. ASSUME NEW o \in Tab, InFlight(o, "refresh")'
        PROVE  <<o, calls'[o]["refresh"].token>> \in presented'
    <3>1. CASE o = tab BY <3>1
    <3>2. CASE o # tab BY <2>1, <3>2 DEF CauseInv, PresentedShape, InFlight
    <3> QED BY <3>1, <3>2
  <2>2. ASSUME NEW token \in strays'
        PROVE  token \in unheard' /\ \E o \in Tab : <<o, token>> \in presented'
    BY DEF CauseInv, PresentedShape
  <2> QED BY <2>1, <2>2 DEF PresentedShape
<1>2. CookieShape'
  <2> SUFFICES ASSUME cookie \in used, cookie \notin unheard'
               PROVE  \E o \in Tab : Brings(o, "refresh")' /\ calls'[o]["refresh"].token = cookie
    BY DEF CookieShape
  <2>1. PICK o \in Tab : Brings(o, "refresh") /\ calls[o]["refresh"].token = cookie
    BY DEF CauseInv, CookieShape
  <2>2. o # tab BY <2>1 DEF Brings, Answered, InFlight
  <2> QED BY <2>1, <2>2 DEF Brings, Answered
<1>3. SentShape'
  <2> SUFFICES ASSUME NEW o \in Tab, NEW t \in used, calls'[o]["refresh"].at = "sent",
                      calls'[o]["refresh"].token = t
               PROVE  Caused(t)'
    BY DEF SentShape
  <2>1. CASE o # tab
    <3>1. Caused(t) BY <2>1 DEF CauseInv, SentShape
    <3> QED BY <3>1, CausedStays
  <2>2. CASE o = tab /\ t \in unheard' BY <2>2 DEF Caused
  <2>3. CASE o = tab /\ t \notin unheard'
    <3>1. PICK p \in Tab : Brings(p, "refresh") /\ calls[p]["refresh"].token = t
      BY <2>3 DEF CauseInv, CookieShape
    <3>2. p # tab BY <2>3, <3>1 DEF Brings, Answered, InFlight
    <3>3. <<p, t>> \in presented
      BY <3>1 DEF CauseInv, PresentedShape, Brings, Answered, InFlight
    <3> QED BY <2>3, <3>2, <3>3 DEF Caused, PresentedByTwo
  <2> QED BY <2>1, <2>2, <2>3
<1>4. PairShape'
  <2> SUFFICES ASSUME NEW o \in Tab, NEW c \in Bringing, NEW n \in Nat,
                      Brings(o, c)', calls'[o][c].pair = n
               PROVE  /\ Unknown(n)'
                      /\ \A p \in Tab, d \in Bringing :
                           Brings(p, d)' /\ calls'[p][d].pair = n => p = o /\ d = c
    BY DEF PairShape
  <2>1. Brings(o, c) /\ calls[o][c].pair = n OBVIOUS
  <2>2. Unknown(n) BY <2>1 DEF CauseInv, PairShape
  <2>4. \A p \in Tab, d \in Bringing : Brings(p, d)' /\ calls'[p][d].pair = n => p = o /\ d = c
    BY <2>1 DEF CauseInv, PairShape
  <2>5. Unknown(n)' BY <2>2 DEF Unknown
  <2> QED BY <2>4, <2>5
<1>5. ReuseHasACause' BY ReuseStays DEF CauseInv
<1> QED BY <1>1, <1>2, <1>3, <1>4, <1>5 DEF CauseInv

\* A pair reaches the browser, whose cookie is now a token nobody has used.
LEMMA PairDelivered ==
  ASSUME Types, CauseInv, NEW tab \in Tab, NEW c \in Bringing, Brings(tab, c),
         calls'[tab][c] = Idle,
         \A o \in Tab, d \in Bringing : o # tab \/ d # c => calls'[o][d] = calls[o][d],
         cookie' = calls[tab][c].pair,
         UNCHANGED <<pairs, used, reused, presented, unheard, strays>>
  PROVE  CauseInv'
<1>0. calls'[tab][c].at = "idle" BY IdleIs, CountIsNat
<1>1. cookie' \in Nat /\ Unknown(cookie')
  <2>1. calls \in Calls(Len(pairs)) /\ c \in Call BY DEF Types, Bringing, Call
  <2>2. calls[tab][c] \in CallRec(Len(pairs)) BY <2>1 DEF Calls
  <2>3. cookie' \in Nat BY <2>2, CountIsNat, SMT DEF CallRec
  <2> QED BY <2>3 DEF CauseInv, PairShape
<1>2. PresentedShape' BY <1>0 DEF CauseInv, PresentedShape, InFlight, Bringing
<1>3. CookieShape' BY <1>1 DEF CookieShape, Unknown
<1>4. SentShape'
  <2> SUFFICES ASSUME NEW o \in Tab, NEW t \in used, calls'[o]["refresh"].at = "sent",
                      calls'[o]["refresh"].token = t
               PROVE  Caused(t)'
    BY DEF SentShape
  <2>1. calls'[o]["refresh"] = calls[o]["refresh"] BY <1>0 DEF Bringing
  <2>2. Caused(t) BY <2>1 DEF CauseInv, SentShape
  <2> QED BY <2>2, CausedStays
<1>5. PairShape'
  <2> SUFFICES ASSUME NEW o \in Tab, NEW d \in Bringing, NEW n \in Nat,
                      Brings(o, d)', calls'[o][d].pair = n
               PROVE  /\ Unknown(n)'
                      /\ \A p \in Tab, e \in Bringing :
                           Brings(p, e)' /\ calls'[p][e].pair = n => p = o /\ e = d
    BY DEF PairShape
  <2>1. \A p \in Tab, e \in Bringing : Brings(p, e)' =>
          Brings(p, e) /\ calls'[p][e] = calls[p][e] /\ (p # tab \/ e # c)
    BY <1>0 DEF Brings, Answered
  <2>2. Brings(o, d) /\ calls[o][d].pair = n BY <2>1
  <2>3. Unknown(n) BY <2>2 DEF CauseInv, PairShape
  <2>4. n # cookie' BY <2>1, <2>2 DEF CauseInv, PairShape
  <2>5. Unknown(n)' BY <2>3, <2>4 DEF Unknown
  <2>6. \A p \in Tab, e \in Bringing : Brings(p, e)' /\ calls'[p][e].pair = n => p = o /\ e = d
    BY <2>1, <2>2 DEF CauseInv, PairShape
  <2> QED BY <2>5, <2>6
<1>6. ReuseHasACause' BY ReuseStays DEF CauseInv
<1> QED BY <1>2, <1>3, <1>4, <1>5, <1>6 DEF CauseInv

LEMMA OldPairStaysUnknown ==
  ASSUME NEW n \in Nat, Unknown(n), UNCHANGED <<cookie, presented>>,
         Len(pairs) \in Nat, Len(pairs') \in Nat, Len(pairs) <= Len(pairs'),
         \A t \in used' \ used : \E o \in Tab : <<o, t>> \in presented
  PROVE  Unknown(n)'
<1>1. n \in 1..Len(pairs') BY SMT DEF Unknown
<1>2. n \notin used' BY DEF Unknown
<1> QED BY <1>1, <1>2 DEF Unknown

LEMMA NewPairIsUnknown ==
  ASSUME Types, UNCHANGED <<cookie, presented>>,
         Len(pairs') = Len(pairs) + 1, used' \subseteq 1..Len(pairs),
         NEW n \in Nat, n = Len(pairs')
  PROVE  Unknown(n)'
<1>1. Len(pairs) \in Nat BY CountIsNat
<1>2. n \in 1..Len(pairs') /\ n \notin used' BY <1>1, SMT
<1>3. n # cookie BY <1>1, SMT DEF Types, OtherTypes, TokenOrNot
<1>4. ASSUME NEW o \in Tab PROVE <<o, n>> \notin presented
  <2>1. n \notin TokenOrNot BY <1>1, SMT DEF TokenOrNot
  <2>2. presented \subseteq Tab \X TokenOrNot BY DEF Types, OtherTypes
  <2> QED BY <2>1, <2>2
<1> QED BY <1>2, <1>3, <1>4 DEF Unknown

\* Every pair on its way is one of those issued.
LEMMA BroughtIsIssued ==
  ASSUME Types, NEW tab \in Tab, NEW c \in Bringing
  PROVE  calls[tab][c].pair \in 0..Len(pairs)
<1>1. calls \in Calls(Len(pairs)) /\ c \in Call BY DEF Types, Bringing, Call
<1>2. calls[tab][c] \in CallRec(Len(pairs)) BY <1>1 DEF Calls
<1> QED BY <1>2, SMT DEF CallRec

\* The server issues a pair and tells the tab.
LEMMA PairIssued ==
  ASSUME Types, CauseInv, NEW tab \in Tab, NEW c \in Bringing,
         calls'[tab][c].pair = Len(pairs'), ~Brings(tab, c),
         \A o \in Tab, d \in Bringing : o # tab \/ d # c => calls'[o][d] = calls[o][d],
         UNCHANGED <<cookie, presented>>, Len(pairs') = Len(pairs) + 1,
         used' \subseteq 1..Len(pairs),
         \A t \in used' \ used : \E o \in Tab : <<o, t>> \in presented
  PROVE  PairShape'
<1>1. Len(pairs) \in Nat /\ Len(pairs') \in Nat BY CountIsNat, SMT
<1>2. \A p \in Tab, d \in Bringing : p # tab \/ d # c =>
        /\ Brings(p, d)' => Brings(p, d)
        /\ calls'[p][d].pair = calls[p][d].pair /\ calls'[p][d].pair # Len(pairs')
  <2> SUFFICES ASSUME NEW p \in Tab, NEW d \in Bringing, p # tab \/ d # c
               PROVE  /\ Brings(p, d)' => Brings(p, d)
                      /\ calls'[p][d].pair = calls[p][d].pair /\ calls'[p][d].pair # Len(pairs')
    OBVIOUS
  <2>1. calls'[p][d] = calls[p][d] OBVIOUS
  <2>2. calls[p][d].pair \in 0..Len(pairs) BY BroughtIsIssued
  <2>3. calls'[p][d].pair # Len(pairs') BY <1>1, <2>1, <2>2, SMT
  <2> QED BY <2>1, <2>3 DEF Brings, Answered
<1> SUFFICES ASSUME NEW o \in Tab, NEW d \in Bringing, NEW n \in Nat,
                    Brings(o, d)', calls'[o][d].pair = n
             PROVE  /\ Unknown(n)'
                    /\ \A p \in Tab, e \in Bringing :
                         Brings(p, e)' /\ calls'[p][e].pair = n => p = o /\ e = d
  BY DEF PairShape
<1>3. CASE o = tab /\ d = c
  <2>1. Unknown(n)' BY <1>3, NewPairIsUnknown
  <2> QED BY <1>2, <1>3, <2>1
<1>4. CASE o # tab \/ d # c
  <2>1. Brings(o, d) /\ calls[o][d].pair = n /\ n # Len(pairs') BY <1>2, <1>4
  <2>2. Unknown(n) BY <2>1 DEF CauseInv, PairShape
  <2>5. Len(pairs) <= Len(pairs') BY <1>1, SMT
  <2>3. Unknown(n)' BY <1>1, <2>2, <2>5, OldPairStaysUnknown
  <2>4. \A p \in Tab, e \in Bringing : Brings(p, e)' /\ calls'[p][e].pair = n => p = o /\ e = d
    BY <1>2, <2>1 DEF CauseInv, PairShape
  <2> QED BY <2>3, <2>4
<1> QED BY <1>3, <1>4

LEMMA HandleLoginCause ==
  ASSUME TypesInv, CauseInv, NEW tab \in Tab, HandleLogin(tab)
  PROVE  CauseInv'
<1> USE DEF TypesInv
<1>1. calls[tab]["login"].user \in User BY DEF HandleLogin, LoginUsers
<1>2. /\ Others(tab, "login")
      /\ calls[tab]["login"].at = "sent" /\ calls'[tab]["login"].at = "answered"
      /\ \/ calls'[tab]["login"].answer = "denied" /\ pairs' = pairs
         \/ /\ calls'[tab]["login"].answer = "ok" /\ calls'[tab]["login"].pair = Len(pairs')
            /\ pairs' = Append(pairs, [family |-> Len(pairs) + 1, user |-> calls[tab]["login"].user])
  BY <1>1, HandleLoginEffect
<1>3. UNCHANGED <<cookie, used, reused, presented, unheard, strays>>
  BY Zenon DEF HandleLogin, history
<1>4. \A o \in Tab, d \in Bringing : o # tab \/ d # "login" => calls'[o][d] = calls[o][d]
  BY <1>2 DEF Others, Bringing, Call
<1>5. \A o \in Tab : calls'[o]["refresh"] = calls[o]["refresh"] BY <1>4 DEF Bringing
<1>6. CASE calls'[tab]["login"].answer = "denied" /\ pairs' = pairs
  <2>1. \A o \in Tab, c \in Bringing :
          Brings(o, c)' => Brings(o, c) /\ calls'[o][c].pair = calls[o][c].pair
    BY <1>4, <1>6 DEF Brings, Answered
  <2> QED BY <1>3, <1>5, <1>6, <2>1, CauseFrame DEF InFlight, Brings, Answered
<1>7. CASE /\ calls'[tab]["login"].pair = Len(pairs')
           /\ pairs' = Append(pairs, [family |-> Len(pairs) + 1, user |-> calls[tab]["login"].user])
  <2>1. Len(pairs') = Len(pairs) + 1
    <3>1. pairs \in Seq(Pair) /\ Len(pairs) \in Nat BY CountIsNat DEF Types, OtherTypes, Pair
    <3> QED BY <1>7, <3>1, SMT
  <2>2. "login" \in Bringing /\ ~Brings(tab, "login") BY <1>2 DEF Bringing, Brings, Answered
  <2>3. used' \subseteq 1..Len(pairs) /\ used' \ used = {} BY <1>3 DEF Types, OtherTypes
  <2>4. PairShape' BY <1>3, <1>4, <1>7, <2>1, <2>2, <2>3, PairIssued
  <2>5. PresentedShape' BY <1>3, <1>5 DEF CauseInv, PresentedShape, InFlight
  <2>6. CookieShape' BY <1>3, <1>5 DEF CauseInv, CookieShape, Brings, Answered
  <2>7. SentShape'
    <3> SUFFICES ASSUME NEW o \in Tab, NEW t \in used, calls'[o]["refresh"].at = "sent",
                        calls'[o]["refresh"].token = t
                 PROVE  Caused(t)'
      BY <1>3 DEF SentShape
    <3>1. Caused(t) BY <1>5 DEF CauseInv, SentShape
    <3> QED BY <1>3, <3>1, CausedStays
  <2>8. ReuseHasACause' BY <1>3, ReuseStays DEF CauseInv
  <2> QED BY <2>4, <2>5, <2>6, <2>7, <2>8 DEF CauseInv
<1> QED BY <1>2, <1>6, <1>7

LEMMA HandleRefreshCause ==
  ASSUME TypesInv, CauseInv, NEW tab \in Tab, HandleRefresh(tab)
  PROVE  CauseInv'
<1> USE DEF TypesInv
<1>1. PICK t : t = calls[tab]["refresh"].token OBVIOUS
<1>2. /\ Others(tab, "refresh") /\ Exchange(t)
      /\ calls[tab]["refresh"].at = "sent" /\ calls'[tab]["refresh"].at = "answered"
      /\ calls'[tab]["refresh"].token = t
      /\ IF pairs' = pairs THEN calls'[tab]["refresh"].answer = "denied"
         ELSE calls'[tab]["refresh"].answer = "ok" /\ calls'[tab]["refresh"].pair = Len(pairs')
  BY <1>1, HandleRefreshEffect
<1>3. UNCHANGED <<cookie, presented, unheard, strays>>
  BY Zenon DEF HandleRefresh, history
<1>4. t \in TokenOrNot
  <2>1. "refresh" \in Call /\ calls \in Calls(Len(pairs)) BY DEF Types, Call
  <2>2. calls[tab]["refresh"] \in CallRec(Len(pairs)) BY <2>1 DEF Calls
  <2> QED BY <1>1, <2>2, SMT DEF CallRec, TokenOrNot
<1>5. /\ reused' = IF t \in used THEN reused \cup {t} ELSE reused
      /\ \/ pairs' = pairs /\ used' = used
         \/ /\ t \in 1..Len(pairs) /\ t \notin used
            /\ Len(pairs') = Len(pairs) + 1 /\ used' = used \cup {t}
  BY <1>2, <1>4, ExchangeEffect
<1>6. <<tab, t>> \in presented BY <1>1, <1>2 DEF CauseInv, PresentedShape, InFlight
<1>7. \A o \in Tab, d \in Bringing : o # tab \/ d # "refresh" => calls'[o][d] = calls[o][d]
  BY <1>2 DEF Others, Bringing, Call
<1>8. \A o \in Tab \ {tab} : calls'[o]["refresh"] = calls[o]["refresh"] BY <1>7 DEF Bringing
<1>9. PresentedShape' BY <1>1, <1>2, <1>3, <1>6, <1>8 DEF CauseInv, PresentedShape, InFlight
<1>10. CookieShape'
  <2> SUFFICES ASSUME cookie \in used', cookie \notin unheard
               PROVE  \E o \in Tab : Brings(o, "refresh")' /\ calls'[o]["refresh"].token = cookie
    BY <1>3 DEF CookieShape
  <2>1. CASE cookie \in used
    <3>1. PICK o \in Tab : Brings(o, "refresh") /\ calls[o]["refresh"].token = cookie
      BY <2>1 DEF CauseInv, CookieShape
    <3>2. o # tab BY <1>2, <3>1 DEF Brings, Answered
    <3> QED BY <1>8, <3>1, <3>2 DEF Brings, Answered
  <2>2. CASE cookie \notin used
    <3>1. cookie = t /\ Len(pairs') = Len(pairs) + 1 BY <1>5, <2>2
    <3>2. pairs' # pairs BY <3>1, CountIsNat, SMT
    <3> QED BY <1>2, <3>1, <3>2 DEF Brings, Answered
  <2> QED BY <2>1, <2>2
<1>11. SentShape'
  <2> SUFFICES ASSUME NEW o \in Tab, NEW n \in used', calls'[o]["refresh"].at = "sent",
                      calls'[o]["refresh"].token = n
               PROVE  Caused(n)'
    BY DEF SentShape
  <2>1. o # tab /\ calls'[o]["refresh"] = calls[o]["refresh"] BY <1>2, <1>8
  <2>2. CASE n \in used
    <3>1. Caused(n) BY <2>1, <2>2 DEF CauseInv, SentShape
    <3> QED BY <1>3, <3>1, CausedStays
  <2>3. CASE n \notin used
    <3>1. n = t BY <1>5, <2>3
    <3>2. <<o, t>> \in presented BY <2>1, <3>1 DEF CauseInv, PresentedShape, InFlight
    <3> QED BY <1>3, <1>6, <2>1, <3>1, <3>2 DEF Caused, PresentedByTwo
  <2> QED BY <2>2, <2>3
<1>12. PairShape'
  <2>1. CASE pairs' = pairs /\ used' = used
    <3> SUFFICES ASSUME NEW o \in Tab, NEW d \in Bringing, NEW n \in Nat,
                        Brings(o, d)', calls'[o][d].pair = n
                 PROVE  /\ Unknown(n)'
                        /\ \A p \in Tab, e \in Bringing :
                             Brings(p, e)' /\ calls'[p][e].pair = n => p = o /\ e = d
      BY DEF PairShape
    <3>1. \A p \in Tab, e \in Bringing :
            Brings(p, e)' => Brings(p, e) /\ calls'[p][e].pair = calls[p][e].pair
      BY <1>2, <1>7, <2>1 DEF Brings, Answered
    <3>2. Unknown(n) /\ \A p \in Tab, e \in Bringing :
            Brings(p, e)' /\ calls'[p][e].pair = n => p = o /\ e = d
      BY <3>1 DEF CauseInv, PairShape
    <3>3. Unknown(n)' BY <1>3, <2>1, <3>2 DEF Unknown
    <3> QED BY <3>2, <3>3
  <2>2. CASE /\ t \in 1..Len(pairs) /\ t \notin used
             /\ Len(pairs') = Len(pairs) + 1 /\ used' = used \cup {t}
    <3>1. pairs' # pairs BY <2>2, CountIsNat, SMT
    <3>2. "refresh" \in Bringing /\ ~Brings(tab, "refresh") BY <1>2 DEF Bringing, Brings, Answered
    <3>3. used' \subseteq 1..Len(pairs) BY <2>2 DEF Types, OtherTypes
    <3>4. \A n \in used' \ used : \E o \in Tab : <<o, n>> \in presented BY <1>6, <2>2
    <3>5. calls'[tab]["refresh"].pair = Len(pairs') BY <1>2, <3>1
    <3> QED BY <1>3, <1>7, <2>2, <3>2, <3>3, <3>4, <3>5, PairIssued
  <2> QED BY <1>5, <2>1, <2>2
<1>13. ReuseHasACause'
  <2>1. t \in used => Caused(t) BY <1>1, <1>2 DEF CauseInv, SentShape
  <2>2. \A n \in reused' \ reused : Caused(n)'
    <3>1. t \in used => Caused(t)' BY <1>3, <2>1, CausedStays
    <3> QED BY <1>5, <3>1
  <2> QED BY <1>3, <2>2, ReuseStays DEF CauseInv
<1> QED BY <1>9, <1>10, <1>11, <1>12, <1>13 DEF CauseInv

LEMMA HandleStrayCause ==
  ASSUME TypesInv, CauseInv, HandleStray
  PROVE  CauseInv'
<1> USE DEF TypesInv
<1>1. PICK t \in strays : Exchange(t) /\ strays' = strays \ {t}
  BY DEF HandleStray
<1>2. UNCHANGED <<calls, cookie, presented, unheard>> BY Zenon DEF HandleStray, history
<1>3. t \in TokenOrNot /\ t \in unheard /\ \E o \in Tab : <<o, t>> \in presented
  BY DEF Types, OtherTypes, CauseInv, PresentedShape
<1>4. /\ reused' = IF t \in used THEN reused \cup {t} ELSE reused
      /\ \/ pairs' = pairs /\ used' = used
         \/ /\ t \in 1..Len(pairs) /\ t \notin used
            /\ Len(pairs') = Len(pairs) + 1 /\ used' = used \cup {t}
  BY <1>1, <1>3, ExchangeEffect
<1>5. PresentedShape' BY <1>1, <1>2 DEF CauseInv, PresentedShape, InFlight
<1>6. CookieShape' BY <1>2, <1>3, <1>4 DEF CauseInv, CookieShape, Brings, Answered
<1>7. SentShape'
  <2> SUFFICES ASSUME NEW o \in Tab, NEW n \in used', calls[o]["refresh"].at = "sent",
                      calls[o]["refresh"].token = n
               PROVE  Caused(n)'
    BY <1>2 DEF SentShape
  <2>1. CASE n \in used
    <3>1. Caused(n) BY <2>1 DEF CauseInv, SentShape
    <3> QED BY <1>2, <3>1, CausedStays
  <2>2. CASE n \notin used BY <1>2, <1>3, <1>4, <2>2 DEF Caused
  <2> QED BY <2>1, <2>2
<1>8. PairShape'
  <2> SUFFICES ASSUME NEW o \in Tab, NEW d \in Bringing, NEW n \in Nat,
                      Brings(o, d), calls[o][d].pair = n
               PROVE  /\ Unknown(n)'
                      /\ \A p \in Tab, e \in Bringing :
                           Brings(p, e) /\ calls[p][e].pair = n => p = o /\ e = d
    BY <1>2 DEF PairShape, Brings, Answered
  <2>1. Unknown(n) /\ \A p \in Tab, e \in Bringing :
          Brings(p, e) /\ calls[p][e].pair = n => p = o /\ e = d
    BY DEF CauseInv, PairShape
  <2>2. Len(pairs) \in Nat /\ Len(pairs') \in Nat /\ Len(pairs) <= Len(pairs')
    BY <1>4, CountIsNat, SMT
  <2>3. \A m \in used' \ used : \E p \in Tab : <<p, m>> \in presented BY <1>3, <1>4
  <2>4. Unknown(n)' BY <1>2, <2>1, <2>2, <2>3, OldPairStaysUnknown
  <2> QED BY <2>1, <2>4
<1>9. ReuseHasACause'
  <2>1. \A n \in reused' \ reused : Caused(n)' BY <1>2, <1>3, <1>4 DEF Caused
  <2> QED BY <1>2, <2>1, ReuseStays DEF CauseInv
<1> QED BY <1>5, <1>6, <1>7, <1>8, <1>9 DEF CauseInv

LEMMA OpenCause ==
  ASSUME TypesInv, CauseInv, NEW tab \in Tab, Open(tab)
  PROVE  CauseInv'
<1> USE DEF TypesInv
<1>1. PICK old : old = calls[tab]["refresh"] OBVIOUS
<1>2. /\ \A o \in Tab \ {tab} : calls'[o] = calls[o]
      /\ calls'[tab]["refresh"].at = "sent" /\ calls'[tab]["refresh"].token = cookie
      /\ calls'[tab]["refresh"].answer = "none" /\ calls'[tab]["login"] = Idle
  BY OpenEffect, NamesOfCalls
<1>3. /\ strays' = strays \cup {t \in IF InFlight(tab, "refresh") THEN {old.token} ELSE {} : old.at = "sent"}
      /\ presented' = presented \cup {<<tab, cookie>>}
      /\ unheard' = unheard \cup (IF InFlight(tab, "refresh") THEN {old.token} ELSE {})
  BY <1>1 DEF Open
<1>4. UNCHANGED <<pairs, used, reused, cookie>> BY Zenon DEF Open, server
<1>5. \A o \in Tab, c \in Bringing :
        Brings(o, c)' => Brings(o, c) /\ calls'[o][c].pair = calls[o][c].pair
  <2>1. Idle.at = "idle" BY IdleIs, CountIsNat
  <2> QED BY <1>2, <2>1 DEF Bringing, Brings, Answered
<1>6. InFlight(tab, "refresh") => old.token \in unheard' BY <1>3
<1>7. \A token \in strays' : token \in strays \/ (token \in unheard' /\ <<tab, token>> \in presented)
  <2> SUFFICES ASSUME NEW token \in strays', token \notin strays
               PROVE  token \in unheard' /\ <<tab, token>> \in presented
    OBVIOUS
  <2>1. InFlight(tab, "refresh") /\ token = old.token BY <1>3
  <2> QED BY <1>1, <1>6, <2>1 DEF CauseInv, PresentedShape
<1>8. unheard \subseteq unheard' BY <1>3
<1> QED BY <1>1, <1>2, <1>3, <1>4, <1>5, <1>6, <1>7, <1>8, CookiePresented

LEMMA DeliverRefreshCause ==
  ASSUME TypesInv, CauseInv, NEW tab \in Tab, DeliverRefresh(tab)
  PROVE  CauseInv'
<1> USE DEF TypesInv
<1>1. PICK call : call = calls[tab]["refresh"] OBVIOUS
<1>2. /\ call.at = "answered"
      /\ \A o \in Tab, d \in Call : o # tab => calls'[o][d] = calls[o][d]
      /\ Continued(tab, "refresh", calls'[tab]["refresh"])
      /\ Continued(tab, "login", calls'[tab]["login"])
      /\ cookie' = IF call.answer = "ok" THEN call.pair ELSE IF call.answer = "denied" THEN 0 ELSE cookie
  BY <1>1, DeliverRefreshEffect, NamesOfCalls
<1>3. calls'[tab]["refresh"] = Idle /\ calls'[tab]["login"] = calls[tab]["login"]
  BY <1>2 DEF Continued, LoginUsers, Waits
<1>4. \A o \in Tab, d \in Bringing : o # tab \/ d # "refresh" => calls'[o][d] = calls[o][d]
  BY <1>2, <1>3 DEF Bringing, Call
<1>5. UNCHANGED <<pairs, used, reused, presented, unheard, strays>>
  BY Zenon DEF DeliverRefresh, server, history
<1>6. CASE call.answer = "ok"
  <2>1. Brings(tab, "refresh") /\ "refresh" \in Bringing BY <1>1, <1>2, <1>6 DEF Brings, Answered, Bringing
  <2> QED BY <1>1, <1>2, <1>3, <1>4, <1>5, <1>6, <2>1, PairDelivered
<1>7. CASE call.answer # "ok"
  <2>0. calls'[tab]["refresh"].at = "idle" /\ ~Brings(tab, "refresh")
    BY <1>1, <1>3, <1>7, IdleIs, CountIsNat DEF Brings
  <2>1. \A o \in Tab, c \in Bringing :
          Brings(o, c)' => Brings(o, c) /\ calls'[o][c].pair = calls[o][c].pair
    BY <1>4, <2>0 DEF Brings, Answered
  <2>2. \A o \in Tab : o # tab => calls'[o]["refresh"] = calls[o]["refresh"] BY <1>4 DEF Bringing
  <2>3. \A o \in Tab :
          /\ InFlight(o, "refresh")' =>
               InFlight(o, "refresh") /\ calls'[o]["refresh"].token = calls[o]["refresh"].token
          /\ calls'[o]["refresh"].at = "sent" => calls[o]["refresh"].at = "sent"
          /\ Brings(o, "refresh") =>
               Brings(o, "refresh")' /\ calls'[o]["refresh"].token = calls[o]["refresh"].token
    BY <2>0, <2>2 DEF InFlight, Brings, Answered
  <2>4. cookie' \in {0, cookie} BY <1>2, <1>7
  <2> QED BY <1>5, <2>1, <2>3, <2>4, CauseFrame
<1> QED BY <1>6, <1>7

LEMMA DeliverLoginCause ==
  ASSUME TypesInv, CauseInv, NEW tab \in Tab, DeliverLogin(tab)
  PROVE  CauseInv'
<1> USE DEF TypesInv
<1>1. /\ Others(tab, "login") /\ calls'[tab]["login"] = Idle
      /\ IF Brings(tab, "login") THEN cookie' = calls[tab]["login"].pair ELSE cookie' = cookie
  BY DeliverLoginEffect
<1>2. \A o \in Tab, d \in Bringing : o # tab \/ d # "login" => calls'[o][d] = calls[o][d]
  BY <1>1 DEF Others, Bringing, Call
<1>3. UNCHANGED <<pairs, used, reused, presented, unheard, strays>>
  BY Zenon DEF DeliverLogin, server
<1>4. CASE Brings(tab, "login")
  <2>1. "login" \in Bringing BY DEF Bringing
  <2> QED BY <1>1, <1>2, <1>3, <1>4, <2>1, PairDelivered
<1>5. CASE ~Brings(tab, "login")
  <2>1. calls'[tab]["login"].at = "idle" BY <1>1, IdleIs, CountIsNat
  <2>2. \A o \in Tab, c \in Bringing :
          Brings(o, c)' => Brings(o, c) /\ calls'[o][c].pair = calls[o][c].pair
    BY <1>2, <2>1 DEF Brings, Answered
  <2>3. \A o \in Tab : calls'[o]["refresh"] = calls[o]["refresh"] BY <1>2 DEF Bringing
  <2> QED BY <1>1, <1>3, <1>5, <2>2, <2>3, CauseFrame DEF InFlight, Brings, Answered
<1> QED BY <1>4, <1>5

LEMMA LoseCause ==
  ASSUME TypesInv, CauseInv, NEW tab \in Tab, NEW c \in Call, Lose(tab, c)
  PROVE  CauseInv'
<1> USE DEF TypesInv
<1>1. /\ Others(tab, c) /\ calls[tab][c].at \in {"sent", "answered"}
      /\ calls'[tab][c].at = "answered" /\ calls'[tab][c].answer \in {"lost", "failed"}
      /\ calls'[tab][c].token = calls[tab][c].token
  BY LoseEffect
<1>2. /\ UNCHANGED <<pairs, used, reused, presented, cookie, strays>>
      /\ unheard' = IF c = "refresh" /\ calls[tab][c].at = "answered"
                    THEN unheard \cup {calls[tab][c].token} ELSE unheard
  BY Zenon DEF Lose, server
<1>3. \A o \in Tab, d \in Bringing : o # tab \/ d # c => calls'[o][d] = calls[o][d]
  BY <1>1 DEF Others, Bringing, Call
<1>4. \A o \in Tab, d \in Bringing :
        Brings(o, d)' => Brings(o, d) /\ calls'[o][d].pair = calls[o][d].pair
  BY <1>1, <1>3 DEF Brings, Answered
<1>5. ASSUME NEW o \in Tab
      PROVE  /\ InFlight(o, "refresh")' =>
                  InFlight(o, "refresh") /\ calls'[o]["refresh"].token = calls[o]["refresh"].token
             /\ calls'[o]["refresh"].at = "sent" => calls[o]["refresh"].at = "sent"
             /\ Brings(o, "refresh") =>
                  \/ Brings(o, "refresh")' /\ calls'[o]["refresh"].token = calls[o]["refresh"].token
                  \/ calls[o]["refresh"].token \in unheard'
  <2>1. CASE o # tab \/ c # "refresh"
    <3>1. calls'[o]["refresh"] = calls[o]["refresh"] BY <1>3, <2>1 DEF Bringing
    <3> QED BY <3>1 DEF InFlight, Brings, Answered
  <2>2. CASE o = tab /\ c = "refresh"
    BY <1>1, <1>2, <2>2 DEF InFlight, Brings, Answered
  <2> QED BY <2>1, <2>2
<1>6. unheard \subseteq unheard' BY <1>2
<1> QED BY <1>2, <1>4, <1>5, <1>6, CauseFrame

LEMMA DeliverAuthorizedCause ==
  ASSUME TypesInv, CauseInv, NEW tab \in Tab, NEW c \in Authorized, DeliverAuthorized(tab, c)
  PROVE  CauseInv'
<1> USE DEF TypesInv
<1>1. /\ IF WorthRetrying(calls[tab][c]) /\ calls[tab]["refresh"].at = "idle"
           THEN /\ calls'[tab]["refresh"].at = "sent" /\ calls'[tab]["refresh"].token = cookie
                /\ presented' = presented \cup {<<tab, cookie>>}
           ELSE /\ calls'[tab]["refresh"] = calls[tab]["refresh"] /\ presented' = presented
      /\ \A o \in Tab, d \in Call :
           o # tab \/ d \notin {c, "refresh"} => calls'[o][d] = calls[o][d]
  BY DeliverAuthorizedEffect
<1>2. UNCHANGED <<pairs, used, reused, cookie, unheard, strays>>
  BY Zenon DEF DeliverAuthorized, server
<1>3. \A o \in Tab : calls'[o]["login"] = calls[o]["login"] BY <1>1, NamesOfCalls
<1>4. \A o \in Tab \ {tab} : calls'[o]["refresh"] = calls[o]["refresh"] BY <1>1, NamesOfCalls
<1>5. CASE calls[tab]["refresh"].at = "idle" /\ WorthRetrying(calls[tab][c])
  <2>1. \A o \in Tab, d \in Bringing :
          Brings(o, d)' => Brings(o, d) /\ calls'[o][d].pair = calls[o][d].pair
    BY <1>1, <1>3, <1>4, <1>5 DEF Bringing, Brings, Answered
  <2>2. ~InFlight(tab, "refresh") BY <1>5 DEF InFlight
  <2> QED BY <1>1, <1>2, <1>4, <1>5, <2>1, <2>2, CookiePresented
<1>6. CASE ~(calls[tab]["refresh"].at = "idle" /\ WorthRetrying(calls[tab][c]))
  <2>1. \A o \in Tab : calls'[o]["refresh"] = calls[o]["refresh"] BY <1>1, <1>4, <1>6
  <2>2. \A o \in Tab, d \in Bringing :
          Brings(o, d)' => Brings(o, d) /\ calls'[o][d].pair = calls[o][d].pair
    BY <1>3, <2>1 DEF Bringing, Brings, Answered
  <2> QED BY <1>1, <1>2, <1>6, <2>1, <2>2, CauseFrame DEF InFlight, Brings, Answered
<1> QED BY <1>5, <1>6

\* Steps that touch neither a refresh nor a sign-in.
LEMMA ElsewhereCause ==
  ASSUME TypesInv, CauseInv, NEW tab \in Tab, NEW c \in Call \ Bringing, Others(tab, c),
         cookie' \in {0, cookie},
         UNCHANGED <<pairs, used, reused, presented, unheard, strays>>
  PROVE  CauseInv'
<1>1. \A o \in Tab, d \in Bringing : calls'[o][d] = calls[o][d] BY DEF Others, Bringing, Call
<1>2. \A o \in Tab, d \in Bringing :
        Brings(o, d)' => Brings(o, d) /\ calls'[o][d].pair = calls[o][d].pair
  BY <1>1 DEF Brings, Answered
<1>3. \A o \in Tab : calls'[o]["refresh"] = calls[o]["refresh"] BY <1>1 DEF Bringing
<1> QED BY <1>2, <1>3, CauseFrame DEF TypesInv, InFlight, Brings, Answered

LEMMA CauseStep ==
  ASSUME TypesInv, CauseInv, [Next]_vars
  PROVE  CauseInv'
<1>0. Request \subseteq Call \ Bringing /\ Authorized \subseteq Call \ Bringing /\ "logout" \in Call \ Bringing
  BY NamesOfCalls DEF Bringing
<1>1. ASSUME NEW tab \in Tab, Open(tab) PROVE CauseInv' BY <1>1, OpenCause
<1>2. ASSUME NEW tab \in Tab, NEW r \in Request, Click(tab, r) PROVE CauseInv'
  <2>1. Others(tab, r) BY <1>2, ClickEffect DEF TypesInv
  <2>2. UNCHANGED <<pairs, used, reused, cookie, presented, unheard, strays>>
    BY <1>2, Zenon DEF Click, server, history
  <2> QED BY <1>0, <2>1, <2>2, ElsewhereCause
<1>3. ASSUME NEW tab \in Tab, NEW u \in User, Submit(tab, u) PROVE CauseInv'
  <2>1. Others(tab, "login") /\ calls'[tab]["login"].at = "sent"
    BY <1>3, SubmitEffect DEF TypesInv
  <2>2. UNCHANGED <<pairs, used, reused, cookie, presented, unheard, strays>>
    BY <1>3, Zenon DEF Submit, server, history
  <2>3. \A o \in Tab, d \in Bringing : o # tab \/ d # "login" => calls'[o][d] = calls[o][d]
    BY <2>1 DEF Others, Bringing, Call
  <2>4. \A o \in Tab, d \in Bringing :
          Brings(o, d)' => Brings(o, d) /\ calls'[o][d].pair = calls[o][d].pair
    BY <2>1, <2>3 DEF Brings, Answered
  <2>5. \A o \in Tab : calls'[o]["refresh"] = calls[o]["refresh"] BY <2>3 DEF Bringing
  <2> QED BY <2>2, <2>4, <2>5, CauseFrame DEF TypesInv, InFlight, Brings, Answered
<1>4. ASSUME NEW tab \in Tab, Logout(tab) PROVE CauseInv'
  <2>1. Others(tab, "logout") BY <1>4, LogoutEffect DEF TypesInv
  <2>2. UNCHANGED <<pairs, used, reused, cookie, presented, unheard, strays>>
    BY <1>4, Zenon DEF Logout, server, history
  <2> QED BY <1>0, <2>1, <2>2, ElsewhereCause
<1>5. ASSUME NEW tab \in Tab, HandleRefresh(tab) PROVE CauseInv' BY <1>5, HandleRefreshCause
<1>6. ASSUME NEW tab \in Tab, HandleLogin(tab) PROVE CauseInv' BY <1>6, HandleLoginCause
<1>7. ASSUME NEW tab \in Tab, HandleLogout(tab) PROVE CauseInv'
  <2>1. Others(tab, "logout") BY <1>7, HandleLogoutEffect DEF TypesInv
  <2>2. UNCHANGED <<pairs, used, reused, cookie, presented, unheard, strays>>
    BY <1>7, Zenon DEF HandleLogout, history
  <2> QED BY <1>0, <2>1, <2>2, ElsewhereCause
<1>8. ASSUME NEW tab \in Tab, NEW c \in Authorized, HandleAuthorized(tab, c) PROVE CauseInv'
  <2>1. Others(tab, c) BY <1>8, HandleAuthorizedEffect DEF TypesInv
  <2>2. UNCHANGED <<pairs, used, reused, cookie, presented, unheard, strays>>
    BY <1>8, Zenon DEF HandleAuthorized, server, history
  <2> QED BY <1>0, <2>1, <2>2, ElsewhereCause
<1>9. ASSUME NEW tab \in Tab, DeliverRefresh(tab) PROVE CauseInv' BY <1>9, DeliverRefreshCause
<1>10. ASSUME NEW tab \in Tab, DeliverLogin(tab) PROVE CauseInv' BY <1>10, DeliverLoginCause
<1>11. ASSUME NEW tab \in Tab, DeliverLogout(tab) PROVE CauseInv'
  <2>1. Others(tab, "logout") /\ cookie' \in {0, cookie}
    BY <1>11, DeliverLogoutEffect DEF TypesInv
  <2>2. UNCHANGED <<pairs, used, reused, presented, unheard, strays>>
    BY <1>11, Zenon DEF DeliverLogout, server, history
  <2> QED BY <1>0, <2>1, <2>2, ElsewhereCause
<1>12. ASSUME NEW tab \in Tab, NEW c \in Authorized, DeliverAuthorized(tab, c) PROVE CauseInv'
  BY <1>12, DeliverAuthorizedCause
<1>13. ASSUME NEW tab \in Tab, NEW c \in Call, Lose(tab, c) PROVE CauseInv' BY <1>13, LoseCause
<1>14. ASSUME UNCHANGED <<calls, pairs, used, reused, cookie, presented, unheard>>,
              strays' \subseteq strays
       PROVE  CauseInv'
  BY <1>14, CauseFrame DEF TypesInv, InFlight, Brings, Answered
<1>15. ASSUME NEW n \in 1..Len(pairs), Expire(n) PROVE CauseInv'
  <2>1. UNCHANGED <<calls, pairs, used, reused, cookie, presented, unheard, strays>>
    BY <1>15, Zenon DEF Expire, history
  <2> QED BY <1>14, <2>1
<1>16. CASE HandleStray BY <1>16, HandleStrayCause
<1>17. CASE LoseStray
  <2>1. UNCHANGED <<calls, pairs, used, reused, cookie, presented, unheard>> /\ strays' \subseteq strays
    BY <1>17, Zenon DEF LoseStray, server, history
  <2> QED BY <1>14, <2>1
<1>18. CASE UNCHANGED vars
  <2>1. UNCHANGED <<calls, pairs, used, reused, cookie, presented, unheard, strays>>
    BY <1>18, Zenon DEF vars, server, history
  <2> QED BY <1>14, <2>1
<1> QED BY <1>1, <1>2, <1>3, <1>4, <1>5, <1>6, <1>7, <1>8, <1>9, <1>10, <1>11, <1>12, <1>13,
           <1>15, <1>16, <1>17, <1>18 DEF Next, Handle, Deliver

\* At the start nothing is on its way; a used cookie does not occur: that of
\* tabs left open over night is the newest one's.
LEMMA InitCause == Init => CauseInv
<1> SUFFICES ASSUME Init PROVE CauseInv
  OBVIOUS
<1>1. \A tab \in Tab, c \in Bringing : calls[tab][c].at = "idle"
  <2>1. \A tab \in Tab, c \in Bringing : calls[tab][c] = Idle
    BY DEF Init, Nothing, Bringing, Call
  <2> QED BY <2>1, IdleIs
<1>2. cookie \notin used
  <2>1. CASE FirstVisit BY <2>1 DEF FirstVisit
  <2>2. CASE Overnight BY <2>2, SMT DEF Overnight
  <2> QED BY <2>1, <2>2 DEF Init
<1>3. strays = {} /\ reused = {} BY DEF Init
<1> QED BY <1>1, <1>2, <1>3 DEF CauseInv, PresentedShape, CookieShape, SentShape, PairShape,
          ReuseHasACause, InFlight, Brings, Answered, Bringing

\* The server takes a used refresh token for a theft only when an answer to it
\* never came or two tabs presented it: refreshPromise in http.ts keeps one
\* tab from doing so by itself, however its requests fail together.
THEOREM ReplayCaused == Spec => []ReuseHasACause
<1>1. Init => TypesInv /\ CauseInv BY InitTypes, InitCause
<1>2. TypesInv /\ CauseInv /\ [Next]_vars => TypesInv' /\ CauseInv' BY TypesStep, CauseStep
<1>3. CauseInv => ReuseHasACause BY DEF CauseInv
<1> QED BY <1>1, <1>2, <1>3, PTL DEF Spec
---------------------------------------------------------------------------
(* Outside of mixed sessions a tab's token is its user's.                  *)

Grows == Len(pairs') \in Nat /\ \A n \in 1..Len(pairs) : pairs'[n] = pairs[n]

LEMMA GrowStep ==
  ASSUME TypesInv, [Next]_vars
  PROVE  Grows /\ (mixed => mixed')
<1> USE DEF TypesInv
<1>0. Len(pairs) \in Nat BY CountIsNat
<1>1. Len(pairs') \in Nat
  <2>1. TypesInv' BY TypesStep
  <2>2. pairs' \in Seq([family : Nat \ {0}, user : User]) BY <2>1 DEF Types, OtherTypes
  <2> QED BY <2>2, SMT
<1>2. ASSUME NEW tab \in Tab, HandleRefresh(tab) PROVE Grows /\ UNCHANGED mixed
  <2>1. PICK t : t = calls[tab]["refresh"].token OBVIOUS
  <2>2. Exchange(t) BY <1>2, <2>1, HandleRefreshEffect
  <2>3. "refresh" \in Call /\ calls \in Calls(Len(pairs)) BY DEF Types, Call
  <2>4. calls[tab]["refresh"] \in CallRec(Len(pairs)) BY <2>3 DEF Calls
  <2>5. t \in TokenOrNot BY <2>1, <2>4, SMT DEF CallRec, TokenOrNot
  <2>6. \A n \in 1..Len(pairs) : pairs'[n] = pairs[n] BY <2>2, <2>5, ExchangeEffect
  <2> QED BY <1>1, <1>2, <2>6 DEF Grows, HandleRefresh, history
<1>3. ASSUME HandleStray PROVE Grows /\ UNCHANGED mixed
  <2>1. PICK t \in strays : Exchange(t) BY <1>3 DEF HandleStray
  <2>2. t \in TokenOrNot BY DEF Types, OtherTypes
  <2>3. \A n \in 1..Len(pairs) : pairs'[n] = pairs[n] BY <2>1, <2>2, ExchangeEffect
  <2> QED BY <1>1, <1>3, <2>3 DEF Grows, HandleStray, history
<1>4. ASSUME NEW tab \in Tab, HandleLogin(tab) PROVE Grows /\ UNCHANGED mixed
  <2>1. calls[tab]["login"].user \in User BY <1>4 DEF HandleLogin, LoginUsers
  <2>2. \/ pairs' = pairs
        \/ pairs' = Append(pairs, [family |-> Len(pairs) + 1, user |-> calls[tab]["login"].user])
    BY <1>4, <2>1, HandleLoginEffect
  <2>3. \A n \in 1..Len(pairs) : pairs'[n] = pairs[n]
    <3>1. pairs \in Seq([family : Nat \ {0}, user : User]) BY DEF Types, OtherTypes
    <3>2. [family |-> Len(pairs) + 1, user |-> calls[tab]["login"].user] \in [family : Nat \ {0}, user : User]
      BY <1>0, <2>1, SMT
    <3> QED BY <2>2, <3>1, <3>2, SMT
  <2> QED BY <1>1, <1>4, <2>3 DEF Grows, HandleLogin, history
<1>5. ASSUME pairs' = pairs PROVE Grows BY <1>0, <1>5 DEF Grows
<1>6. ASSUME NEW tab \in Tab, DeliverLogin(tab) PROVE pairs' = pairs /\ (mixed => mixed')
  <2>1. pairs' = pairs BY <1>6, Zenon DEF DeliverLogin, server
  <2>2. mixed => mixed' BY <1>6 DEF DeliverLogin
  <2> QED BY <2>1, <2>2
<1>7. ASSUME NEW tab \in Tab, Open(tab) PROVE UNCHANGED <<pairs, mixed>>
  BY <1>7, Zenon DEF Open, server
<1>8. ASSUME NEW tab \in Tab, NEW r \in Request, Click(tab, r) PROVE UNCHANGED <<pairs, mixed>>
  BY <1>8, Zenon DEF Click, server, history
<1>9. ASSUME NEW tab \in Tab, NEW u \in User, Submit(tab, u) PROVE UNCHANGED <<pairs, mixed>>
  BY <1>9, Zenon DEF Submit, server, history
<1>10. ASSUME NEW tab \in Tab, Logout(tab) PROVE UNCHANGED <<pairs, mixed>>
  BY <1>10, Zenon DEF Logout, server, history
<1>11. ASSUME NEW tab \in Tab, HandleLogout(tab) PROVE UNCHANGED <<pairs, mixed>>
  BY <1>11, Zenon DEF HandleLogout, history
<1>12. ASSUME NEW tab \in Tab, NEW c \in Authorized, HandleAuthorized(tab, c) PROVE UNCHANGED <<pairs, mixed>>
  BY <1>12, Zenon DEF HandleAuthorized, server, history
<1>13. ASSUME NEW tab \in Tab, DeliverRefresh(tab) PROVE UNCHANGED <<pairs, mixed>>
  BY <1>13, Zenon DEF DeliverRefresh, server, history
<1>14. ASSUME NEW tab \in Tab, DeliverLogout(tab) PROVE UNCHANGED <<pairs, mixed>>
  BY <1>14, Zenon DEF DeliverLogout, server, history
<1>15. ASSUME NEW tab \in Tab, NEW c \in Authorized, DeliverAuthorized(tab, c) PROVE UNCHANGED <<pairs, mixed>>
  BY <1>15, Zenon DEF DeliverAuthorized, server
<1>16. ASSUME NEW tab \in Tab, NEW c \in Call, Lose(tab, c) PROVE UNCHANGED <<pairs, mixed>>
  BY <1>16, Zenon DEF Lose, server
<1>17. ASSUME NEW n \in 1..Len(pairs), Expire(n) PROVE UNCHANGED <<pairs, mixed>>
  BY <1>17, Zenon DEF Expire, history
<1>18. LoseStray \/ UNCHANGED vars => UNCHANGED <<pairs, mixed>>
  BY Zenon DEF LoseStray, vars, server, history
<1> QED
  BY <1>2, <1>3, <1>4, <1>5, <1>6, <1>7, <1>8, <1>9, <1>10, <1>11, <1>12, <1>13, <1>14, <1>15, <1>16, <1>17, <1>18
     DEF Next, Handle, Deliver

LEMMA OwnedStays ==
  ASSUME Types, Grows, NEW u
  PROVE  \A n \in TokenOrNot : Owned(n, u) => Owned(n, u)'
<1> SUFFICES ASSUME NEW n \in TokenOrNot, Owned(n, u) PROVE Owned(n, u)'
  OBVIOUS
<1>1. n = 0 \/ n \in 1..Len(pairs) BY CountIsNat, SMT DEF TokenOrNot
<1> QED BY <1>1 DEF Owned, Grows

LEMMA TabTokens ==
  ASSUME Types, NEW tab \in Tab
  PROVE  /\ auth[tab].token \in TokenOrNot /\ cookie \in TokenOrNot
         /\ \A c \in Call : calls[tab][c].token \in TokenOrNot /\ calls[tab][c].pair \in TokenOrNot
<1>1. auth[tab] \in AuthRec BY DEF Types, OtherTypes, AuthRec
<1>2. auth[tab].token \in TokenOrNot BY <1>1, SMT DEF AuthRec
<1>3. ASSUME NEW c \in Call
      PROVE  calls[tab][c].token \in TokenOrNot /\ calls[tab][c].pair \in TokenOrNot
  <2>1. calls[tab][c] \in CallRec(Len(pairs)) BY DEF Types, Calls
  <2> QED BY <2>1, SMT DEF CallRec, TokenOrNot
<1> QED BY <1>2, <1>3 DEF Types, OtherTypes

LEMMA MeKept ==
  ASSUME Types, Grows, NEW u, NEW o \in Tab, OneTab(o, u), auth'[o] = auth[o],
         calls'[o]["me"] = calls[o]["me"]
  PROVE  MeOwned(o, u)'
<1>1. auth[o].token \in TokenOrNot /\ calls[o]["me"].token \in TokenOrNot
  BY TabTokens, NamesOfCalls
<1>2. \A n \in TokenOrNot : Owned(n, u) => Owned(n, u)' BY OwnedStays
<1> QED BY <1>1, <1>2 DEF OneTab, MeOwned, Owned, InFlight, Brings, Answered

LEMMA RefreshKept ==
  ASSUME Types, Grows, NEW u, NEW o \in Tab, OneTab(o, u),
         calls'[o]["refresh"] = calls[o]["refresh"]
  PROVE  RefreshOwned(o, u)'
<1>1. calls[o]["refresh"].token \in TokenOrNot /\ calls[o]["refresh"].pair \in TokenOrNot
  BY TabTokens, NamesOfCalls
<1>2. \A n \in TokenOrNot : Owned(n, u) => Owned(n, u)' BY OwnedStays
<1> QED BY <1>1, <1>2 DEF OneTab, RefreshOwned, Owned, InFlight, Brings, Answered

LEMMA OneTabKept ==
  ASSUME Types, Grows, NEW u, NEW o \in Tab, OneTab(o, u), auth'[o] = auth[o],
         calls'[o]["me"] = calls[o]["me"], calls'[o]["refresh"] = calls[o]["refresh"]
  PROVE  OneTab(o, u)'
BY MeKept, RefreshKept DEF OneTab

\* One tab changes; whose the cookie is, is shown apart.
LEMMA OneUserBut ==
  ASSUME Types, Grows, NEW u, OneUser(u), NEW tab \in Tab,
         \A o \in Tab \ {tab} :
           /\ auth'[o] = auth[o]
           /\ calls'[o]["me"] = calls[o]["me"] /\ calls'[o]["refresh"] = calls[o]["refresh"],
         Owned(cookie, u)', OneTab(tab, u)'
  PROVE  OneUser(u)'
<1>1. \A o \in Tab \ {tab} : OneTab(o, u)' BY OneTabKept DEF OneUser
<1> QED BY <1>1 DEF OneUser

LEMMA OneUserFrame ==
  ASSUME Types, Grows, NEW u, OneUser(u), cookie' \in {0, cookie},
         \A o \in Tab :
           /\ auth'[o] = auth[o]
           /\ calls'[o]["me"] = calls[o]["me"] /\ calls'[o]["refresh"] = calls[o]["refresh"]
  PROVE  OneUser(u)'
<1>1. \A o \in Tab : OneTab(o, u)' BY OneTabKept DEF OneUser
<1>2. Owned(cookie, u)'
  <2>1. cookie \in TokenOrNot BY DEF Types, OtherTypes
  <2>2. Owned(cookie, u) => (cookie # 0 => pairs'[cookie].user = u)
    BY <2>1, OwnedStays DEF Owned
  <2> QED BY <2>2 DEF OneUser, Owned
<1> QED BY <1>1, <1>2 DEF OneUser

\* A sign-in that is not answered well by this step keeps its pair.
LEMMA LoginOwnedFrame ==
  ASSUME TypesInv, LoginOwned, Grows,
         \A o \in Tab : Brings(o, "login")' => calls'[o]["login"] = calls[o]["login"]
  PROVE  LoginOwned'
<1> SUFFICES ASSUME NEW o \in Tab, Brings(o, "login")',
                    NEW n, n = calls'[o]["login"].pair, NEW u, u = calls'[o]["login"].user
             PROVE  n # 0 => pairs'[n].user = u
  BY DEF LoginOwned, Owned
<1>1. Brings(o, "login") /\ n = calls[o]["login"].pair /\ u = calls[o]["login"].user
  BY DEF Brings, Answered
<1>2. Owned(n, u) /\ n \in TokenOrNot
  BY <1>1, TabTokens, NamesOfCalls DEF LoginOwned, TypesInv
<1> QED BY <1>2, OwnedStays DEF TypesInv, Owned

LEMMA LoginOwnedStep ==
  ASSUME TypesInv, LoginOwned, [Next]_vars
  PROVE  LoginOwned'
<1> USE DEF TypesInv
<1>0. Grows /\ Idle.at = "idle" BY GrowStep, IdleIs, CountIsNat
<1>1. ASSUME NEW tab \in Tab, HandleLogin(tab) PROVE LoginOwned'
  <2>1. calls[tab]["login"].user \in User BY <1>1 DEF HandleLogin, LoginUsers
  <2>2. /\ Others(tab, "login") /\ calls'[tab]["login"].user = calls[tab]["login"].user
        /\ \/ calls'[tab]["login"].answer = "denied" /\ pairs' = pairs
           \/ /\ calls'[tab]["login"].answer = "ok" /\ calls'[tab]["login"].pair = Len(pairs')
              /\ pairs' = Append(pairs, [family |-> Len(pairs) + 1, user |-> calls[tab]["login"].user])
    BY <1>1, <2>1, HandleLoginEffect
  <2>3. \A o \in Tab \ {tab} : calls'[o]["login"] = calls[o]["login"]
    BY <2>2, NamesOfCalls DEF Others
  <2>4. CASE calls'[tab]["login"].answer = "denied"
    <3>1. \A o \in Tab : Brings(o, "login")' => calls'[o]["login"] = calls[o]["login"]
      BY <2>3, <2>4 DEF Brings
    <3> QED BY <1>0, <3>1, LoginOwnedFrame
  <2>5. CASE /\ calls'[tab]["login"].pair = Len(pairs')
             /\ pairs' = Append(pairs, [family |-> Len(pairs) + 1, user |-> calls[tab]["login"].user])
    <3>1. pairs'[Len(pairs')].user = calls[tab]["login"].user
      <4>1. PICK p : p = [family |-> Len(pairs) + 1, user |-> calls[tab]["login"].user] OBVIOUS
      <4>2. p.user = calls[tab]["login"].user BY <4>1
      <4>3. pairs \in Seq(Pair) /\ p \in Pair /\ pairs' = Append(pairs, p)
        BY <2>1, <2>5, <4>1, CountIsNat, SMT DEF Types, OtherTypes, Pair
      <4>4. pairs'[Len(pairs')] = p BY <4>3, SMT
      <4> QED BY <4>2, <4>4
    <3>2. Owned(calls[tab]["login"].pair, calls[tab]["login"].user)'
      BY <2>2, <2>5, <3>1 DEF Owned
    <3> SUFFICES ASSUME NEW o \in Tab, Brings(o, "login")',
                        NEW n, n = calls'[o]["login"].pair, NEW u, u = calls'[o]["login"].user
                 PROVE  n # 0 => pairs'[n].user = u
      BY DEF LoginOwned, Owned
    <3>3. CASE o = tab BY <3>2, <3>3 DEF Owned
    <3>4. CASE o # tab
      <4>1. Brings(o, "login") /\ n = calls[o]["login"].pair /\ u = calls[o]["login"].user
        BY <2>3, <3>4 DEF Brings, Answered
      <4>2. Owned(n, u) /\ n \in TokenOrNot BY <4>1, TabTokens, NamesOfCalls DEF LoginOwned
      <4> QED BY <1>0, <4>2, OwnedStays DEF Owned
    <3> QED BY <3>3, <3>4
  <2> QED BY <2>2, <2>4, <2>5
<1>2. ASSUME NEW tab \in Tab, NEW c \in Call, c # "login", Others(tab, c) PROVE LoginOwned'
  BY <1>0, <1>2, LoginOwnedFrame, NamesOfCalls DEF Others
<1>3. ASSUME NEW tab \in Tab, Open(tab) PROVE LoginOwned'
  <2>1. (\A o \in Tab \ {tab} : calls'[o] = calls[o]) /\ calls'[tab]["login"] = Idle
    BY <1>3, OpenEffect, NamesOfCalls
  <2> QED BY <1>0, <2>1, LoginOwnedFrame DEF Brings, Answered
<1>4. ASSUME NEW tab \in Tab, NEW c \in Call, Lose(tab, c) PROVE LoginOwned'
  <2>1. Others(tab, c) /\ calls'[tab][c].answer \in {"lost", "failed"} BY <1>4, LoseEffect
  <2>2. CASE c # "login" BY <1>2, <2>1, <2>2
  <2>3. CASE c = "login"
    BY <1>0, <2>1, <2>3, LoginOwnedFrame, NamesOfCalls DEF Others, Brings
  <2> QED BY <2>2, <2>3
<1>5. ASSUME NEW tab \in Tab, Others(tab, "login"), calls'[tab]["login"].at \in {"sent", "idle"}
      PROVE  LoginOwned'
  BY <1>0, <1>5, LoginOwnedFrame, NamesOfCalls DEF Others, Brings, Answered
<1>15. ASSUME NEW tab \in Tab, NEW u \in User, Submit(tab, u) PROVE LoginOwned'
  BY <1>5, <1>15, SubmitEffect
<1>16. ASSUME NEW tab \in Tab, DeliverLogin(tab) PROVE LoginOwned'
  BY <1>0, <1>5, <1>16, DeliverLoginEffect
<1>6. ASSUME NEW tab \in Tab, DeliverRefresh(tab) PROVE LoginOwned'
  <2>1. /\ \A o \in Tab, d \in Call : o # tab => calls'[o][d] = calls[o][d]
        /\ Continued(tab, "login", calls'[tab]["login"])
    BY <1>6, DeliverRefreshEffect, NamesOfCalls
  <2>2. calls'[tab]["login"] = calls[tab]["login"] BY <2>1 DEF LoginUsers, Continued, Waits
  <2> QED BY <1>0, <2>1, <2>2, LoginOwnedFrame, NamesOfCalls
<1>7. ASSUME NEW tab \in Tab, NEW c \in Authorized, DeliverAuthorized(tab, c) PROVE LoginOwned'
  <2>1. \A o \in Tab : calls'[o]["login"] = calls[o]["login"]
    BY <1>7, DeliverAuthorizedEffect, NamesOfCalls
  <2> QED BY <1>0, <2>1, LoginOwnedFrame
<1>8. ASSUME NEW tab \in Tab, NEW r \in Request, Click(tab, r) PROVE LoginOwned'
  BY <1>2, <1>8, ClickEffect, NamesOfCalls
<1>9. ASSUME NEW tab \in Tab, NEW c \in Authorized, HandleAuthorized(tab, c) PROVE LoginOwned'
  BY <1>2, <1>9, HandleAuthorizedEffect, NamesOfCalls
<1>10. ASSUME NEW tab \in Tab, Logout(tab) \/ HandleLogout(tab) \/ DeliverLogout(tab) PROVE LoginOwned'
  BY <1>2, <1>10, LogoutEffect, HandleLogoutEffect, DeliverLogoutEffect, NamesOfCalls
<1>11. ASSUME NEW tab \in Tab, HandleRefresh(tab) PROVE LoginOwned'
  BY <1>2, <1>11, HandleRefreshEffect, NamesOfCalls
<1>12. ASSUME UNCHANGED calls PROVE LoginOwned' BY <1>0, <1>12, LoginOwnedFrame
<1>13. ASSUME NEW n \in 1..Len(pairs), Expire(n) PROVE UNCHANGED calls BY <1>13 DEF Expire
<1>14. HandleStray \/ LoseStray \/ UNCHANGED vars => UNCHANGED calls
  BY Zenon DEF HandleStray, LoseStray, vars
<1> QED BY <1>1, <1>3, <1>4, <1>5, <1>6, <1>7, <1>8, <1>9, <1>10, <1>11, <1>12, <1>13, <1>14,
           <1>15, <1>16 DEF Next, Handle, Deliver
LEMMA StillOwned ==
  ASSUME Types, Grows, NEW u, NEW n \in TokenOrNot, Owned(n, u)
  PROVE  n # 0 => pairs'[n].user = u
BY OwnedStays DEF Owned

LEMMA OneAuth ==
  ASSUME Types, NEW tab \in Tab, NEW a, auth' = [auth EXCEPT ![tab] = a]
  PROVE  auth'[tab] = a /\ \A o \in Tab \ {tab} : auth'[o] = auth[o]
BY DEF Types, OtherTypes

LEMMA OpenUser ==
  ASSUME TypesInv, Grows, NEW u \in User, OneUser(u), NEW tab \in Tab, Open(tab)
  PROVE  OneUser(u)'
<1> USE DEF TypesInv
<1>1. /\ \A o \in Tab \ {tab} : calls'[o] = calls[o]
      /\ calls'[tab]["refresh"].token = cookie /\ calls'[tab]["refresh"].answer = "none"
      /\ calls'[tab]["me"] = Idle
      /\ auth' = [auth EXCEPT ![tab] = [Cleared EXCEPT !.status = "checking"]]
  BY OpenEffect, NamesOfCalls
<1>2. PICK a : a = [Cleared EXCEPT !.status = "checking"] OBVIOUS
<1>3. a.user = None /\ a.status = "checking" BY <1>2, SMT DEF Cleared
<1>4. auth'[tab] = a /\ \A o \in Tab \ {tab} : auth'[o] = auth[o] BY <1>1, <1>2, OneAuth
<1>5. cookie' = cookie BY Zenon DEF Open
<1>6. cookie # 0 => pairs'[cookie].user = u BY TabTokens, StillOwned DEF OneUser
<1>7. Owned(cookie, u)' BY <1>5, <1>6 DEF Owned
<1>8. MeOwned(tab, u)'
  BY <1>1, <1>3, <1>4, IdleIs, CountIsNat DEF MeOwned, InFlight, Brings, Answered
<1>9. RefreshOwned(tab, u)' BY <1>1, <1>6 DEF RefreshOwned, Owned, Brings
<1> QED BY <1>1, <1>4, <1>7, <1>8, <1>9, OneUserBut DEF OneTab

LEMMA HandleRefreshUser ==
  ASSUME TypesInv, Grows, NEW u \in User, OneUser(u), NEW tab \in Tab, HandleRefresh(tab)
  PROVE  OneUser(u)'
<1> USE DEF TypesInv
<1>1. PICK t : t = calls[tab]["refresh"].token OBVIOUS
<1>2. /\ Others(tab, "refresh") /\ calls[tab]["refresh"].at = "sent" /\ Exchange(t)
      /\ calls'[tab]["refresh"].token = t
      /\ IF pairs' = pairs THEN calls'[tab]["refresh"].answer = "denied"
         ELSE calls'[tab]["refresh"].pair = Len(pairs')
  BY <1>1, HandleRefreshEffect
<1>3. auth' = auth /\ cookie' = cookie BY Zenon DEF HandleRefresh
<1>4. t \in TokenOrNot BY <1>1, TabTokens, NamesOfCalls
<1>5. Owned(t, u) BY <1>1, <1>2 DEF OneUser, OneTab, RefreshOwned, InFlight
<1>6. t # 0 => pairs'[t].user = u BY <1>4, <1>5, StillOwned
<1>7. \/ pairs' = pairs
      \/ t \in 1..Len(pairs) /\ pairs'[Len(pairs')] = pairs[t]
  BY <1>2, <1>4, ExchangeEffect
<1>8. pairs' # pairs => pairs'[Len(pairs')].user = u
  <2>1. t \in 1..Len(pairs) => t # 0 BY CountIsNat, SMT
  <2> QED BY <1>5, <1>7, <2>1 DEF Owned
<1>9. RefreshOwned(tab, u)' BY <1>2, <1>6, <1>8 DEF RefreshOwned, Owned, Brings
<1>10. calls'[tab]["me"] = calls[tab]["me"] BY <1>2, NamesOfCalls DEF Others
<1>11. MeOwned(tab, u)' BY <1>3, <1>10, MeKept DEF OneUser
<1>12. Owned(cookie, u)'
  <2>1. cookie # 0 => pairs'[cookie].user = u BY TabTokens, StillOwned DEF OneUser
  <2> QED BY <1>3, <2>1 DEF Owned
<1>13. \A o \in Tab \ {tab} :
         /\ auth'[o] = auth[o]
         /\ calls'[o]["me"] = calls[o]["me"] /\ calls'[o]["refresh"] = calls[o]["refresh"]
  BY <1>2, <1>3, NamesOfCalls DEF Others
<1> QED BY <1>9, <1>11, <1>12, <1>13, OneUserBut DEF OneTab

\* The answer to /me names the user of the token that asked.
LEMMA HandleAuthorizedUser ==
  ASSUME TypesInv, Grows, NEW u \in User, OneUser(u), NEW tab \in Tab, NEW c \in Authorized,
         HandleAuthorized(tab, c)
  PROVE  OneUser(u)'
<1> USE DEF TypesInv
<1>1. PICK t : t = calls[tab][c].token OBVIOUS
<1>2. /\ Others(tab, c) /\ calls[tab][c].at = "sent" /\ calls'[tab][c].token = t
      /\ \/ calls'[tab][c].answer = "denied"
         \/ t \in 1..Len(pairs) /\ calls'[tab][c].user = pairs[t].user
  BY <1>1, HandleAuthorizedEffect
<1>3. auth' = auth /\ cookie' = cookie BY Zenon DEF HandleAuthorized
<1>4. t \in 1..Len(pairs) => t # 0 BY CountIsNat, SMT
<1>5. t \in TokenOrNot /\ auth[tab].token \in TokenOrNot BY <1>1, TabTokens, NamesOfCalls
<1>6. MeOwned(tab, u)'
  <2>1. CASE c = "me"
    <3>1. Owned(t, u) /\ Owned(auth[tab].token, u)
      BY <1>1, <1>2, <2>1 DEF OneUser, OneTab, MeOwned, InFlight
    <3>2. /\ t # 0 => pairs'[t].user = u
          /\ auth[tab].token # 0 => pairs'[auth[tab].token].user = u
      BY <1>5, <3>1, StillOwned
    <3>3. auth[tab].user \in {None, u} /\ (auth[tab].status = "authenticated" => auth[tab].user = u)
      BY DEF OneUser, OneTab, MeOwned
    <3>4. Brings(tab, "me")' => calls'[tab]["me"].user = u
      BY <1>2, <1>4, <2>1, <3>1 DEF Brings, Owned
    <3> QED BY <1>2, <1>3, <2>1, <3>2, <3>3, <3>4 DEF MeOwned, Owned
  <2>2. CASE c # "me"
    <3>1. calls'[tab]["me"] = calls[tab]["me"] BY <1>2, <2>2, NamesOfCalls DEF Others
    <3> QED BY <1>3, <3>1, MeKept DEF OneUser
  <2> QED BY <2>1, <2>2
<1>7. RefreshOwned(tab, u)'
  <2>1. calls'[tab]["refresh"] = calls[tab]["refresh"] BY <1>2, NamesOfCalls DEF Others
  <2> QED BY <2>1, RefreshKept DEF OneUser
<1>8. Owned(cookie, u)'
  <2>1. cookie # 0 => pairs'[cookie].user = u BY TabTokens, StillOwned DEF OneUser
  <2> QED BY <1>3, <2>1 DEF Owned
<1>9. \A o \in Tab \ {tab} :
         /\ auth'[o] = auth[o]
         /\ calls'[o]["me"] = calls[o]["me"] /\ calls'[o]["refresh"] = calls[o]["refresh"]
  BY <1>2, <1>3, NamesOfCalls DEF Others
<1> QED BY <1>6, <1>7, <1>8, <1>9, OneUserBut DEF OneTab

LEMMA LoseUser ==
  ASSUME TypesInv, Grows, NEW u \in User, OneUser(u), NEW tab \in Tab, NEW c \in Call,
         Lose(tab, c)
  PROVE  OneUser(u)'
<1> USE DEF TypesInv
<1>1. /\ Others(tab, c) /\ calls[tab][c].at \in {"sent", "answered"}
      /\ calls'[tab][c].answer \in {"lost", "failed"} /\ calls'[tab][c].token = calls[tab][c].token
  BY LoseEffect
<1>2. auth' = auth /\ cookie' = cookie BY Zenon DEF Lose
<1>3. PICK t : t = calls[tab][c].token OBVIOUS
<1>4. t \in TokenOrNot /\ auth[tab].token \in TokenOrNot BY <1>3, TabTokens, NamesOfCalls
<1>5. MeOwned(tab, u)'
  <2>1. CASE c = "me"
    <3>1. Owned(t, u) /\ Owned(auth[tab].token, u)
      BY <1>1, <1>3, <2>1 DEF OneUser, OneTab, MeOwned, InFlight
    <3>2. /\ t # 0 => pairs'[t].user = u
          /\ auth[tab].token # 0 => pairs'[auth[tab].token].user = u
      BY <1>4, <3>1, StillOwned
    <3>3. auth[tab].user \in {None, u} /\ (auth[tab].status = "authenticated" => auth[tab].user = u)
      BY DEF OneUser, OneTab, MeOwned
    <3> QED BY <1>1, <1>2, <1>3, <2>1, <3>2, <3>3 DEF MeOwned, Owned, Brings
  <2>2. CASE c # "me"
    <3>1. calls'[tab]["me"] = calls[tab]["me"] BY <1>1, <2>2, NamesOfCalls DEF Others
    <3> QED BY <1>2, <3>1, MeKept DEF OneUser
  <2> QED BY <2>1, <2>2
<1>6. RefreshOwned(tab, u)'
  <2>1. CASE c = "refresh"
    <3>1. Owned(t, u) BY <1>1, <1>3, <2>1 DEF OneUser, OneTab, RefreshOwned, InFlight
    <3>2. t # 0 => pairs'[t].user = u BY <1>4, <3>1, StillOwned
    <3> QED BY <1>1, <1>3, <2>1, <3>2 DEF RefreshOwned, Owned, Brings
  <2>2. CASE c # "refresh"
    <3>1. calls'[tab]["refresh"] = calls[tab]["refresh"] BY <1>1, <2>2, NamesOfCalls DEF Others
    <3> QED BY <3>1, RefreshKept DEF OneUser
  <2> QED BY <2>1, <2>2
<1>7. Owned(cookie, u)'
  <2>1. cookie # 0 => pairs'[cookie].user = u BY TabTokens, StillOwned DEF OneUser
  <2> QED BY <1>2, <2>1 DEF Owned
<1>8. \A o \in Tab \ {tab} :
         /\ auth'[o] = auth[o]
         /\ calls'[o]["me"] = calls[o]["me"] /\ calls'[o]["refresh"] = calls[o]["refresh"]
  BY <1>1, <1>2, NamesOfCalls DEF Others
<1> QED BY <1>5, <1>6, <1>7, <1>8, OneUserBut DEF OneTab

LEMMA DeliverAuthorizedUser ==
  ASSUME TypesInv, Grows, NEW u \in User, OneUser(u), NEW tab \in Tab, NEW c \in Authorized,
         DeliverAuthorized(tab, c)
  PROVE  OneUser(u)'
<1> USE DEF TypesInv
<1>1. PICK again \in BOOLEAN : again = WorthRetrying(calls[tab][c]) BY DEF WorthRetrying
<1>2. /\ calls[tab][c].at = "answered"
      /\ IF again THEN calls'[tab][c].token = calls[tab][c].token /\ calls'[tab][c].at = "waiting"
         ELSE calls'[tab][c] = Idle
      /\ \/ calls'[tab]["refresh"].at = "sent" /\ calls'[tab]["refresh"].token = cookie
         \/ calls'[tab]["refresh"] = calls[tab]["refresh"]
      /\ \A o \in Tab, d \in Call :
           o # tab \/ d \notin {c, "refresh"} => calls'[o][d] = calls[o][d]
      /\ IF c = "me" /\ ~again
           THEN auth' = [auth EXCEPT ![tab] = RestoreOutcome(tab, calls[tab][c])]
           ELSE auth' = auth
  BY <1>1, DeliverAuthorizedEffect
<1>3. cookie' = cookie /\ UNCHANGED pairs BY Zenon DEF DeliverAuthorized, server
<1>4. \A o \in Tab \ {tab} :
         /\ auth'[o] = auth[o]
         /\ calls'[o]["me"] = calls[o]["me"] /\ calls'[o]["refresh"] = calls[o]["refresh"]
  <2>1. \A o \in Tab \ {tab} : auth'[o] = auth[o] BY <1>2, OneAuth
  <2> QED BY <1>2, <2>1, NamesOfCalls
<1>5. cookie # 0 => pairs'[cookie].user = u BY TabTokens, StillOwned DEF OneUser
<1>6. RefreshOwned(tab, u)'
  <2>1. CASE calls'[tab]["refresh"] = calls[tab]["refresh"] BY <2>1, RefreshKept DEF OneUser
  <2>2. CASE calls'[tab]["refresh"].at = "sent" /\ calls'[tab]["refresh"].token = cookie
    BY <1>5, <2>2 DEF RefreshOwned, Owned, Brings, Answered
  <2> QED BY <1>2, <2>1, <2>2
<1>7. MeOwned(tab, u)'
  <2>1. CASE c # "me"
    BY <1>2, <2>1, MeKept, NamesOfCalls DEF OneUser
  <2>2. CASE c = "me"
    <3>1. /\ Owned(calls[tab]["me"].token, u) /\ Owned(auth[tab].token, u)
          /\ calls[tab]["me"].answer = "ok" => calls[tab]["me"].user = u
      BY <1>2, <2>2 DEF OneUser, OneTab, MeOwned, InFlight, Brings, Answered
    <3>2. auth[tab].user \in {None, u} /\ (auth[tab].status = "authenticated" => auth[tab].user = u)
      BY DEF OneUser, OneTab, MeOwned
    <3>3. CASE again
      BY <1>2, <1>3, <2>2, <3>1, <3>2, <3>3 DEF MeOwned, Owned, Brings, Answered
    <3>4. CASE ~again
      <4>1. PICK a : a = RestoreOutcome(tab, calls[tab][c]) OBVIOUS
      <4>2. auth'[tab] = a BY <1>2, <2>2, <3>4, <4>1, OneAuth
      <4>3. \/ a.token = auth[tab].token /\ a.user = u /\ a.status = "authenticated"
            \/ a.user = None /\ a.status = "anonymous"
        BY <2>2, <3>1, <4>1, ClearedIs DEF RestoreOutcome
      <4>4. calls'[tab]["me"].at = "idle" BY <1>2, <2>2, <3>4, IdleIs, CountIsNat
      <4>5. Owned(auth[tab].token, u) /\ UNCHANGED pairs BY <1>3, <3>1
      <4> QED BY <4>2, <4>3, <4>4, <4>5 DEF MeOwned, Owned, InFlight, Brings, Answered
    <3> QED BY <3>3, <3>4
  <2> QED BY <2>1, <2>2
<1>8. Owned(cookie, u)' BY <1>3, <1>5 DEF Owned
<1> QED BY <1>4, <1>6, <1>7, <1>8, OneUserBut DEF OneTab
LEMMA DeliverLogoutUser ==
  ASSUME TypesInv, Grows, NEW u \in User, OneUser(u), NEW tab \in Tab, DeliverLogout(tab)
  PROVE  OneUser(u)'
<1> USE DEF TypesInv
<1>1. Others(tab, "logout") /\ auth' = [auth EXCEPT ![tab] = Cleared] /\ cookie' \in {0, cookie}
  BY DeliverLogoutEffect
<1>2. auth'[tab] = Cleared /\ \A o \in Tab \ {tab} : auth'[o] = auth[o] BY <1>1, OneAuth
<1>3. \A o \in Tab :
        calls'[o]["me"] = calls[o]["me"] /\ calls'[o]["refresh"] = calls[o]["refresh"]
  BY <1>1, NamesOfCalls DEF Others
<1>4. cookie # 0 => pairs'[cookie].user = u BY TabTokens, StillOwned DEF OneUser
<1>5. Owned(cookie, u)' BY <1>1, <1>4 DEF Owned
<1>6. RefreshOwned(tab, u)' BY <1>3, RefreshKept DEF OneUser
<1>7. MeOwned(tab, u)'
  <2>1. PICK t : t = calls[tab]["me"].token OBVIOUS
  <2>2. InFlight(tab, "me") => Owned(t, u) BY <2>1 DEF OneUser, OneTab, MeOwned
  <2>3. t \in TokenOrNot BY <2>1, TabTokens, NamesOfCalls
  <2>4. InFlight(tab, "me") => (t # 0 => pairs'[t].user = u) BY <2>2, <2>3, StillOwned
  <2>5. Brings(tab, "me") => calls[tab]["me"].user = u BY DEF OneUser, OneTab, MeOwned
  <2>6. auth'[tab].token = 0 /\ auth'[tab].user = None /\ auth'[tab].status = "anonymous"
    BY <1>2, ClearedIs
  <2> QED BY <1>3, <2>1, <2>4, <2>5, <2>6 DEF MeOwned, Owned, InFlight, Brings, Answered
<1> QED BY <1>2, <1>3, <1>5, <1>6, <1>7, OneUserBut DEF OneTab

LEMMA DeliverRefreshUser ==
  ASSUME TypesInv, Grows, NEW u \in User, OneUser(u), NEW tab \in Tab, DeliverRefresh(tab)
  PROVE  OneUser(u)'
<1> USE DEF TypesInv
<1>1. PICK call : call = calls[tab]["refresh"] OBVIOUS
<1>2. /\ call.at = "answered"
      /\ \A o \in Tab, d \in Call : o # tab => calls'[o][d] = calls[o][d]
      /\ Continued(tab, "refresh", calls'[tab]["refresh"])
      /\ Continued(tab, "me", calls'[tab]["me"])
      /\ cookie' = IF call.answer = "ok" THEN call.pair ELSE IF call.answer = "denied" THEN 0 ELSE cookie
      /\ \/ auth' = auth /\ call.answer # "ok"
         \/ auth' = [auth EXCEPT ![tab] = Cleared]
         \/ call.answer = "ok" /\ auth' = [auth EXCEPT ![tab].token = call.pair]
  BY <1>1, DeliverRefreshEffect, NamesOfCalls
<1>3. UNCHANGED pairs BY Zenon DEF DeliverRefresh, server
<1>4. call.answer = "ok" => Owned(call.pair, u)
  BY <1>1, <1>2 DEF OneUser, OneTab, RefreshOwned, Brings, Answered
<1>5. Owned(cookie, u)' BY <1>2, <1>3, <1>4 DEF OneUser, Owned
<1>6. RefreshOwned(tab, u)'
  <2>1. calls'[tab]["refresh"] = Idle BY <1>2 DEF Continued
  <2> QED BY <2>1, IdleIs, CountIsNat DEF RefreshOwned, InFlight, Brings, Answered
<1>7. /\ \A o \in Tab \ {tab} : auth'[o] = auth[o]
      /\ \/ auth'[tab] = auth[tab] /\ call.answer # "ok"
         \/ auth'[tab] = Cleared
         \/ /\ call.answer = "ok" /\ auth'[tab].token = call.pair
            /\ auth'[tab].user = auth[tab].user /\ auth'[tab].status = auth[tab].status
  <2>1. CASE auth' = auth /\ call.answer # "ok" BY <2>1
  <2>2. CASE auth' = [auth EXCEPT ![tab] = Cleared] BY <2>2, OneAuth
  <2>3. CASE call.answer = "ok" /\ auth' = [auth EXCEPT ![tab].token = call.pair]
    <3>1. PICK q : q = auth[tab] OBVIOUS
    <3>2. PICK a : a = [q EXCEPT !.token = call.pair] OBVIOUS
    <3>3. auth' = [auth EXCEPT ![tab] = a] BY <2>3, <3>1, <3>2, Zenon
    <3>4. auth'[tab] = a /\ \A o \in Tab \ {tab} : auth'[o] = auth[o] BY <3>3, OneAuth
    <3>5. q \in AuthRec BY <3>1 DEF Types, OtherTypes, AuthRec
    <3>6. a.token = call.pair /\ a.user = q.user /\ a.status = q.status
      BY <3>2, <3>5, SMT DEF AuthRec
    <3> QED BY <2>3, <3>1, <3>4, <3>6
  <2> QED BY <1>2, <2>1, <2>2, <2>3
<1>8. auth[tab].user \in {None, u} /\ (auth[tab].status = "authenticated" => auth[tab].user = u)
  BY DEF OneUser, OneTab, MeOwned
<1>9. MeOwned(tab, u)'
  <2>1. CASE call.answer = "ok"
    <3>1. PICK s : s = calls'[tab]["me"] OBVIOUS
    <3>2. \/ s.at = "sent" /\ s.token = call.pair
          \/ s = calls[tab]["me"]
      <4>1. call.pair \in 0..Len(pairs) /\ calls[tab]["me"].applied \in Nat /\ Len(pairs) \in Nat
        <5>1. /\ call \in CallRec(Len(pairs)) /\ calls[tab]["me"] \in CallRec(Len(pairs))
              /\ Len(pairs) \in Nat
          BY <1>1, NamesOfCalls, CountIsNat DEF Types, Calls
        <5> QED BY <5>1, SMT DEF CallRec
      <4>2. \/ s = Retried(call.pair, calls[tab]["me"].applied)
            \/ s = Sent(call.pair, FALSE) \/ s = calls[tab]["me"]
        BY <1>1, <1>2, <2>1, <3>1 DEF Continued
      <4>3. CASE s = Retried(call.pair, calls[tab]["me"].applied)
        <5>1. PICK p : p = call.pair OBVIOUS
        <5>2. PICK m : m = calls[tab]["me"].applied OBVIOUS
        <5>3. s = Retried(p, m) BY <4>3, <5>1, <5>2
        <5>4. s.at = "sent" /\ s.token = p BY <4>1, <5>1, <5>2, <5>3, RetriedIs
        <5> QED BY <5>1, <5>4
      <4>4. CASE s = Sent(call.pair, FALSE)
        <5>1. PICK p : p = call.pair OBVIOUS
        <5>2. s = Sent(p, FALSE) BY <4>4, <5>1
        <5>3. s.at = "sent" /\ s.token = p BY <4>1, <5>1, <5>2, SentIs
        <5> QED BY <5>1, <5>3
      <4> QED BY <4>2, <4>3, <4>4
    <3>3. InFlight(tab, "me")' => Owned(s.token, u)
      BY <1>4, <2>1, <3>1, <3>2 DEF OneUser, OneTab, MeOwned, InFlight
    <3>4. Brings(tab, "me")' => s.user = u
      BY <3>1, <3>2 DEF OneUser, OneTab, MeOwned, Brings, Answered
    <3>5. Owned(auth'[tab].token, u)
      BY <1>4, <1>7, <2>1, ClearedIs DEF Owned
    <3>6. /\ auth'[tab].user \in {None, u}
          /\ auth'[tab].status = "authenticated" => auth'[tab].user = u
      BY <1>7, <1>8, ClearedIs
    <3> QED BY <1>3, <3>1, <3>3, <3>4, <3>5, <3>6 DEF MeOwned, Owned
  <2>2. CASE call.answer # "ok"
    <3>1. calls'[tab]["me"] = Idle \/ calls'[tab]["me"] = calls[tab]["me"]
      BY <1>1, <1>2, <2>2 DEF Continued
    <3>2. auth'[tab] = auth[tab] \/ auth'[tab] = Cleared BY <1>7, <2>2
    <3>3. Idle.at = "idle" BY IdleIs, CountIsNat
    <3>4. MeOwned(tab, u) BY DEF OneUser, OneTab
    <3>5. Cleared.token = 0 /\ Cleared.user = None /\ Cleared.status = "anonymous" BY ClearedIs
    <3> QED BY <1>3, <3>1, <3>2, <3>3, <3>4, <3>5 DEF MeOwned, Owned, InFlight, Brings, Answered
  <2> QED BY <2>1, <2>2
<1> QED BY <1>2, <1>5, <1>6, <1>7, <1>9, OneUserBut, NamesOfCalls DEF OneTab

\* A sign-in makes everything its user's, or the session is mixed.
LEMMA DeliverLoginUser ==
  ASSUME TypesInv, LoginOwned, NEW u \in User, OneUser(u), NEW tab \in Tab, DeliverLogin(tab),
         Brings(tab, "login"), ~mixed'
  PROVE  \E v \in User : OneUser(v)'
<1> USE DEF TypesInv
<1>1. PICK call : call = calls[tab]["login"] OBVIOUS
<1>2. PICK v \in User : v = call.user
  <2>1. call.user \in User BY <1>1 DEF LoginUsers, Brings, Answered
  <2> QED BY <2>1
<1>3. /\ Others(tab, "login") /\ cookie' = call.pair
      /\ auth' = [auth EXCEPT ![tab] = SignedIn(tab, call)]
  BY <1>1, DeliverLoginEffect
<1>4. \A o \in Tab : /\ ~InFlight(o, "refresh") /\ ~InFlight(o, "me")
                     /\ o # tab => auth[o].user \in {None, v}
  BY <1>1, <1>2 DEF DeliverLogin, Brings
<1>5. \A o \in Tab :
        calls'[o]["me"] = calls[o]["me"] /\ calls'[o]["refresh"] = calls[o]["refresh"]
  BY <1>3, NamesOfCalls DEF Others
<1>6. \A o \in Tab : ~InFlight(o, "refresh")' /\ ~InFlight(o, "me")'
  BY <1>4, <1>5 DEF InFlight
<1>7. UNCHANGED pairs BY Zenon DEF DeliverLogin, server
<1>8. Owned(call.pair, v) BY <1>1, <1>2 DEF LoginOwned
<1>9. Owned(cookie, v)' BY <1>3, <1>7, <1>8 DEF Owned
<1>10. auth'[tab] = SignedIn(tab, call) /\ \A o \in Tab \ {tab} : auth'[o] = auth[o]
  BY <1>3, OneAuth
<1>11. ASSUME NEW o \in Tab PROVE OneTab(o, v)'
  <2>1. RefreshOwned(o, v)' BY <1>6 DEF RefreshOwned, InFlight, Brings, Answered
  <2>2. ~InFlight(o, "me")' /\ ~Brings(o, "me")' BY <1>6 DEF InFlight, Brings, Answered
  <2>3. CASE o = tab
    <3>1. auth'[o].token = call.pair /\ auth'[o].user = v
      BY <1>2, <1>10, <2>3 DEF SignedIn
    <3> QED BY <1>7, <1>8, <2>1, <2>2, <3>1 DEF OneTab, MeOwned, Owned
  <2>4. CASE o # tab
    <3>1. auth'[o] = auth[o] /\ auth[o].user \in {None, v} BY <1>4, <1>10, <2>4
    <3>2. auth[o].status = "authenticated" => u = v /\ auth[o].user = v /\ Owned(auth[o].token, v)
      BY <3>1, NamesAssumption DEF OneUser, OneTab, MeOwned
    <3> QED BY <1>7, <2>1, <2>2, <3>1, <3>2 DEF OneTab, MeOwned, Owned
  <2> QED BY <2>3, <2>4
<1>12. OneUser(v)' BY <1>9, <1>11 DEF OneUser
<1> QED BY <1>12

LEMMA UserStep ==
  ASSUME TypesInv, UserInv, [Next]_vars
  PROVE  UserInv'
<1>1. LoginOwned' BY LoginOwnedStep DEF UserInv
<1>2. Grows /\ (mixed => mixed') /\ Types BY GrowStep DEF TypesInv
<1> SUFFICES ASSUME ~mixed', NEW u \in User, OneUser(u)
             PROVE  \E v \in User : OneUser(v)'
  BY <1>1, <1>2 DEF UserInv
<1>3. ASSUME cookie' = cookie, auth' = auth,
             \A o \in Tab :
               calls'[o]["me"] = calls[o]["me"] /\ calls'[o]["refresh"] = calls[o]["refresh"]
      PROVE  OneUser(u)'
  BY <1>2, <1>3, OneUserFrame
<1>4. ASSUME NEW tab \in Tab, NEW c \in Call, c \notin {"me", "refresh"}, Others(tab, c),
             cookie' = cookie, auth' = auth
      PROVE  OneUser(u)'
  BY <1>3, <1>4, NamesOfCalls DEF Others
<1>5. ASSUME NEW tab \in Tab, NEW r \in Request, Click(tab, r) PROVE OneUser(u)'
  <2>1. Others(tab, r) BY <1>2, <1>5, ClickEffect
  <2>2. cookie' = cookie /\ auth' = auth BY <1>5, Zenon DEF Click
  <2>3. r \in Call /\ r \notin {"me", "refresh"} BY NamesOfCalls, NamesAssumption
  <2> QED BY <1>4, <2>1, <2>2, <2>3
<1>6. ASSUME NEW tab \in Tab, NEW v \in User, Submit(tab, v) PROVE OneUser(u)'
  <2>1. Others(tab, "login") BY <1>2, <1>6, SubmitEffect
  <2>2. cookie' = cookie /\ auth' = auth BY <1>6, Zenon DEF Submit
  <2> QED BY <1>4, <2>1, <2>2, NamesOfCalls
<1>7. ASSUME NEW tab \in Tab, Logout(tab) PROVE OneUser(u)'
  <2>1. Others(tab, "logout") BY <1>2, <1>7, LogoutEffect
  <2>2. cookie' = cookie /\ auth' = auth BY <1>7, Zenon DEF Logout
  <2> QED BY <1>4, <2>1, <2>2, NamesOfCalls
<1>8. ASSUME NEW tab \in Tab, HandleLogin(tab) PROVE OneUser(u)'
  <2>1. calls[tab]["login"].user \in User BY <1>8 DEF HandleLogin, TypesInv, LoginUsers
  <2>2. Others(tab, "login") BY <1>2, <1>8, <2>1, HandleLoginEffect
  <2>3. cookie' = cookie /\ auth' = auth BY <1>8, Zenon DEF HandleLogin
  <2> QED BY <1>4, <2>2, <2>3, NamesOfCalls
<1>9. ASSUME NEW tab \in Tab, HandleLogout(tab) PROVE OneUser(u)'
  <2>1. Others(tab, "logout") BY <1>2, <1>9, HandleLogoutEffect
  <2>2. cookie' = cookie /\ auth' = auth BY <1>9, Zenon DEF HandleLogout
  <2> QED BY <1>4, <2>1, <2>2, NamesOfCalls
<1>10. ASSUME NEW n \in 1..Len(pairs), Expire(n) PROVE OneUser(u)'
  <2>1. UNCHANGED <<cookie, auth, calls>> BY <1>10, Zenon DEF Expire
  <2> QED BY <1>3, <2>1
<1>11. ASSUME HandleStray \/ LoseStray \/ UNCHANGED vars PROVE OneUser(u)'
  <2>1. UNCHANGED <<cookie, auth, calls>> BY <1>11, Zenon DEF HandleStray, LoseStray, vars
  <2> QED BY <1>3, <2>1
<1>12. ASSUME NEW tab \in Tab, DeliverLogin(tab) PROVE \E v \in User : OneUser(v)'
  <2>1. CASE Brings(tab, "login") BY <1>12, <2>1, DeliverLoginUser DEF UserInv
  <2>2. CASE ~Brings(tab, "login")
    <3>1. Others(tab, "login") /\ cookie' = cookie /\ auth' = auth
      BY <1>2, <1>12, <2>2, DeliverLoginEffect
    <3>2. OneUser(u)' BY <1>4, <3>1, NamesOfCalls
    <3> QED BY <3>2
  <2> QED BY <2>1, <2>2
<1>13. ASSUME NEW tab \in Tab, Handle(tab) PROVE OneUser(u)'
  BY <1>2, <1>8, <1>9, <1>13, HandleRefreshUser, HandleAuthorizedUser DEF Handle
<1>14. ASSUME NEW tab \in Tab, Deliver(tab) PROVE \E v \in User : OneUser(v)'
  BY <1>2, <1>12, <1>14, DeliverRefreshUser, DeliverLogoutUser, DeliverAuthorizedUser DEF Deliver
<1>15. ASSUME NEW tab \in Tab, Open(tab) \/ \E c \in Call : Lose(tab, c) PROVE OneUser(u)'
  BY <1>2, <1>15, OpenUser, LoseUser
<1> QED BY <1>5, <1>6, <1>7, <1>10, <1>11, <1>13, <1>14, <1>15 DEF Next

LEMMA InitUser == Init => UserInv
<1> SUFFICES ASSUME Init PROVE UserInv OBVIOUS
<1>1. \A tab \in Tab, c \in Call : calls[tab][c].at = "idle"
  <2>1. \A tab \in Tab, c \in Call : calls[tab][c] = Idle BY DEF Init, Nothing
  <2>2. Idle.at = "idle" BY SMT DEF Idle
  <2> QED BY <2>1, <2>2
<1>2. LoginOwned BY <1>1, NamesOfCalls DEF LoginOwned, Brings, Answered
<1>3. ASSUME NEW u \in User, Owned(cookie, u),
             \A tab \in Tab : \/ auth[tab].user = None /\ auth[tab].status # "authenticated"
                              \/ auth[tab].user = u /\ Owned(auth[tab].token, u)
      PROVE  UserInv
  <2>1. \A tab \in Tab : OneTab(tab, u)
    BY <1>1, <1>3, NamesOfCalls DEF OneTab, MeOwned, RefreshOwned, InFlight, Brings, Answered
  <2> QED BY <1>2, <1>3, <2>1 DEF UserInv, OneUser
<1>4. CASE FirstVisit
  <2>1. PICK u \in User : pairs = <<[family |-> 1, user |-> u]>> BY <1>4 DEF FirstVisit
  <2>2. cookie \in {0, 1} BY <1>4 DEF FirstVisit
  <2>3. pairs[1].user = u BY <2>1, SMT
  <2>4. Owned(cookie, u) BY <2>2, <2>3 DEF Owned
  <2>5. \A tab \in Tab : auth[tab] = [Cleared EXCEPT !.status = "checking"]
    BY <1>4 DEF FirstVisit
  <2>6. PICK a : a = [Cleared EXCEPT !.status = "checking"] OBVIOUS
  <2>7. a.user = None /\ a.status = "checking" BY <2>6, SMT DEF Cleared
  <2>8. \A tab \in Tab : auth[tab].user = None /\ auth[tab].status # "authenticated"
    BY <2>5, <2>6, <2>7
  <2> QED BY <1>3, <2>4, <2>8
<1>5. CASE Overnight
  <2>1. PICK last : last = IF 2 \in Tab THEN 2 ELSE 1 OBVIOUS
  <2>2. PICK u \in User :
          /\ pairs = [n \in 1..last |-> [family |-> 1, user |-> u]]
          /\ auth = [tab \in Tab |-> [token |-> tab, user |-> u, status |-> "authenticated"]]
    BY <1>5, <2>1 DEF Overnight
  <2>3. cookie = last BY <1>5, <2>1 DEF Overnight
  <2>4. last \in 1..last /\ Tab \subseteq 1..last BY <2>1, TabAssumption, SMT
  <2>5. \A n \in 1..last : pairs[n].user = u BY <2>2, SMT
  <2>6. Owned(cookie, u) BY <2>3, <2>4, <2>5 DEF Owned
  <2>7. \A tab \in Tab : auth[tab].user = u /\ auth[tab].token = tab BY <2>2, SMT
  <2>8. \A tab \in Tab : Owned(auth[tab].token, u) BY <2>4, <2>5, <2>7 DEF Owned
  <2> QED BY <1>3, <2>6, <2>7, <2>8
<1> QED BY <1>4, <1>5 DEF Init

\* auth.ts's assumption that a silent refresh never changes the user: while
\* no sign-in overlapped another session, every tab that shows a user holds
\* a token of that user, in any number of visits.
THEOREM UserOwned == Spec => []UserOwnsToken
<1>1. Init => TypesInv /\ UserInv BY InitTypes, InitUser
<1>2. TypesInv /\ UserInv /\ [Next]_vars => TypesInv' /\ UserInv' BY TypesStep, UserStep
<1>3. UserInv => UserOwnsToken BY DEF UserInv, OneUser, OneTab, MeOwned, Owned, UserOwnsToken
<1> QED BY <1>1, <1>2, <1>3, PTL DEF Spec
=============================================================================
