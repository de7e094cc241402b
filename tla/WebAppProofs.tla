---------------------------- MODULE WebAppProofs ----------------------------
(***************************************************************************)
(* The panel at work, proved for every set of clients, tickets, members    *)
(* and addresses, every number of mutations in flight and every visit.     *)
(*                                                                         *)
(* None of the properties is inductive.  OlderOnlyIfOvertaken needs to     *)
(* know what becomes of a view nobody observes: that it fetches nothing,   *)
(* and that what is older than its debt is marked stale, so that it is     *)
(* fetched when somebody looks at it; that no fetch under way brings less  *)
(* than the debt; and that every observed query is loaded, under way or    *)
(* failing.  RangeIsHonest needs that the table starts over when its rows  *)
(* change, ConflictExplained that the check of an address is an observed   *)
(* query, NothingAskedOfTheDeleted that queries without an observer fetch  *)
(* nothing.  PanelInv joins them; one lemma, ShowInv, shows that drawing   *)
(* the screen keeps it, and every action that draws cites it.              *)
(***************************************************************************)
EXTENDS WebApp, FiniteSetTheorems, SequenceTheorems, TLAPS

Columns == {"clients", "tickets", "team", "invited", "template"}
HistoryOk == /\ Now \in Nat \ {0} /\ past \in Seq(Range(past))
             /\ \A v \in 1..Now : DOMAIN past[v] = Columns

\* The local state, as far as the properties depend on it.
UiOk(r, u) ==
  /\ DOMAIN u = DOMAIN FreshUi(r.page)
  /\ r.page = "clients" => u.found \subseteq Client /\ u.index \in Nat /\ u.size \in Nat \ {0}
  /\ r.page = "new" => u.email \in Email \cup {None} /\ u.created \in Client \cup {None}
  /\ r.page \in {"client", "tickets"} => u.open \in Ticket \cup {None}
  /\ r.page = "settings" => (u.typed # None => u.text = u.typed)
  /\ r.page = "journal" => /\ u.period \in {7, 30, 0}
                           /\ {u.from, u.to} \subseteq {None} \cup {t \div PerDay : t \in Moment}

EntryOk(e, n) == e \in [data : 0..n, stale : BOOLEAN, fetch : Asked..n, error : BOOLEAN]
CacheOk(c, n) == DOMAIN c \subseteq Key /\ \A key \in DOMAIN c : EntryOk(c[key], n)

\* Of a cache c whose queries W have observers: the others fetch nothing, and
\* each of these is loaded, under way or failing.
Unobserved(c, W) == \A key \in DOMAIN c \ W : c[key].fetch = 0
Observed(c, W) ==
  \A key \in W : key \in DOMAIN c /\ (c[key].data > 0 \/ c[key].fetch # 0 \/ c[key].error)

\* What is behind a debt d is refetched, or will be when it is observed.
Owes(e, d) ==
  /\ e.fetch > 0 => e.fetch >= d
  /\ 0 < e.data /\ e.data < d => e.stale
Owing(c, W, debts) ==
  \A key \in DOMAIN debts \cap DOMAIN c :
    /\ Owes(c[key], debts[key])
    /\ key \in W /\ c[key].fetch = 0 /\ c[key].data < debts[key] => c[key].error
Debts(debts, n) == \A key \in DOMAIN debts : debts[key] \in 0..n

---------------------------------------------------------------------------
\* The keys the hooks build are keys.
LEMMA KeysIn ==
  /\ {ClientList, TicketList, Team, Settings, Journal, Overview} \subseteq Key
  /\ \A c \in Client : {ClientDetail(c), ClientTickets(c), ClientJournal(c)} \subseteq Key
  /\ \A e \in Email : EmailTaken(e) \in Key
  /\ \A t \in Ticket : TicketDetail(t) \in Key
<1>1. {ClientList, TicketList, Team, Settings, Journal, Overview} \subseteq Key BY DEF Key
<1>2. \A c \in Client : ClientDetail(c) \in Key BY DEF Key
<1>3. \A c \in Client : ClientTickets(c) \in Key BY DEF Key
<1>4. \A c \in Client : ClientJournal(c) \in Key BY DEF Key
<1>5. \A e \in Email : EmailTaken(e) \in Key BY DEF Key
<1>6. \A t \in Ticket : TicketDetail(t) \in Key BY DEF Key
<1> QED BY <1>1, <1>2, <1>3, <1>4, <1>5, <1>6

\* A fetch that begins.
LEMMA AskingOk ==
  ASSUME NEW n \in Nat, NEW e, EntryOk(e, n)
  PROVE  EntryOk(Asking(e), n)
<1>1. PICK f : f = [e EXCEPT !.fetch = Asked] OBVIOUS
<1>2. EntryOk(f, n) BY <1>1 DEF EntryOk, Asked
<1>3. CASE e.error /\ e.data > 0
  <2>1. Asking(e) = [f EXCEPT !.error = TRUE] BY <1>1, <1>3 DEF Asking, EntryOk
  <2> QED BY <1>2, <2>1 DEF EntryOk
<1>4. CASE ~(e.error /\ e.data > 0)
  <2>1. Asking(e) = [f EXCEPT !.error = FALSE] BY <1>1, <1>4 DEF Asking, EntryOk
  <2> QED BY <1>2, <2>1 DEF EntryOk
<1> QED BY <1>3, <1>4

LEMMA AskingEntry ==
  ASSUME NEW n \in Nat, NEW e, EntryOk(e, n)
  PROVE  /\ Asking(e).data = e.data /\ Asking(e).stale = e.stale
         /\ Asking(e).fetch = Asked /\ (Asking(e).error <=> e.error /\ e.data > 0)
BY DEF EntryOk, Asking, Asked

LEMMA BlankOk == ASSUME NEW n \in Nat PROVE EntryOk(Blank, n)
BY DEF EntryOk, Blank, Asked

Aborted(e) == [e EXCEPT !.fetch = 0]

LEMMA AbortEntry ==
  ASSUME NEW n \in Nat, NEW e, EntryOk(e, n)
  PROVE  /\ EntryOk(Aborted(e), n) /\ Aborted(e).data = e.data /\ Aborted(e).stale = e.stale
         /\ Aborted(e).fetch = 0 /\ Aborted(e).error = e.error
BY DEF EntryOk, Asked, Aborted

\* A query whose first observer comes is fetched if it lacks or distrusts its data.
Wanted(c, key, before, after) ==
  /\ key \in after \ before
  /\ EntryOf(c, key).fetch = 0 /\ (EntryOf(c, key).data = 0 \/ EntryOf(c, key).stale)

\* Watch, case by case.
LEMMA WatchDomain ==
  ASSUME NEW c, NEW before, NEW after
  PROVE  DOMAIN Watch(c, before, after) = DOMAIN c \cup after
BY DEF Watch

LEMMA WatchLeft ==
  ASSUME NEW c, NEW before, NEW after, NEW key \in DOMAIN c \cup after, key \in before \ after
  PROVE  Watch(c, before, after)[key] = Aborted(EntryOf(c, key))
BY DEF Watch, Wanted, Aborted

LEMMA WatchWanted ==
  ASSUME NEW c, NEW before, NEW after, NEW key \in DOMAIN c \cup after, Wanted(c, key, before, after)
  PROVE  Watch(c, before, after)[key] = Asking(EntryOf(c, key))
BY DEF Watch, Wanted

LEMMA WatchRest ==
  ASSUME NEW c, NEW before, NEW after, NEW key \in DOMAIN c \cup after, key \notin before \ after,
         ~Wanted(c, key, before, after)
  PROVE  Watch(c, before, after)[key] = EntryOf(c, key)
BY DEF Watch, Wanted

LEMMA EntryOfOk ==
  ASSUME NEW n \in Nat, NEW c, CacheOk(c, n), NEW key
  PROVE  EntryOk(EntryOf(c, key), n)
BY BlankOk DEF EntryOf, CacheOk

LEMMA WatchOk ==
  ASSUME NEW n \in Nat, NEW c, CacheOk(c, n), NEW before, NEW after, NEW key \in DOMAIN c \cup after,
         NEW w, w = Watch(c, before, after), NEW e, e = EntryOf(c, key)
  PROVE  /\ EntryOk(w[key], n) /\ w[key].data = e.data /\ w[key].stale = e.stale
         /\ (w[key].error <=> e.error) \/ e.data = 0
<1>1. EntryOk(e, n) BY EntryOfOk
<1>2. CASE key \in before \ after
  <2>1. w[key] = Aborted(e) BY <1>2, WatchLeft
  <2> QED BY <1>1, <2>1, AbortEntry
<1>3. CASE Wanted(c, key, before, after)
  <2>1. w[key] = Asking(e) BY <1>3, WatchWanted
  <2> QED BY <1>1, <2>1, AskingEntry, AskingOk DEF EntryOk
<1>4. CASE key \notin before \ after /\ ~Wanted(c, key, before, after)
  <2>1. w[key] = e BY <1>4, WatchRest
  <2> QED BY <1>1, <2>1
<1> QED BY <1>2, <1>3, <1>4

LEMMA WatchFetch ==
  ASSUME NEW n \in Nat, NEW c, CacheOk(c, n), NEW before, NEW after, NEW key \in DOMAIN c \cup after,
         NEW w, w = Watch(c, before, after), NEW e, e = EntryOf(c, key)
  PROVE  /\ key \in before \ after => w[key].fetch = 0
         /\ Wanted(c, key, before, after) => w[key].fetch = Asked
         /\ key \notin before \ after /\ ~Wanted(c, key, before, after) => w[key] = e
<1>1. EntryOk(e, n) BY EntryOfOk
<1>2. CASE key \in before \ after
  <2>1. w[key] = Aborted(e) BY <1>2, WatchLeft
  <2>2. ~Wanted(c, key, before, after) BY <1>2 DEF Wanted
  <2> QED BY <1>1, <1>2, <2>1, <2>2, AbortEntry
<1>3. CASE Wanted(c, key, before, after)
  <2>1. w[key] = Asking(e) BY <1>3, WatchWanted
  <2>2. key \notin before \ after BY <1>3 DEF Wanted
  <2> QED BY <1>1, <2>1, <2>2, <1>3, AskingEntry
<1>4. CASE key \notin before \ after /\ ~Wanted(c, key, before, after)
  <2>1. w[key] = e BY <1>4, WatchRest
  <2> QED BY <1>4, <2>1
<1> QED BY <1>2, <1>3, <1>4

\* Observers come and go.
LEMMA WatchKeeps ==
  ASSUME NEW n \in Nat, NEW c, CacheOk(c, n), NEW before, NEW after \in SUBSET Key,
         NEW debts, Debts(debts, n),
         Unobserved(c, before), Observed(c, before \cap after), Owing(c, before, debts),
         NEW w, w = Watch(c, before, after)
  PROVE  CacheOk(w, n) /\ Unobserved(w, after) /\ Observed(w, after) /\ 
         (DOMAIN debts \subseteq DOMAIN c => Owing(w, after, debts))
<1>1. /\ DOMAIN w = DOMAIN c \cup after
      /\ \A key \in DOMAIN w : EntryOk(EntryOf(c, key), n)
      /\ \A key \in DOMAIN w : EntryOk(w[key], n)
  <2>1. DOMAIN w = DOMAIN c \cup after BY WatchDomain
  <2>2. ASSUME NEW key \in DOMAIN w PROVE EntryOk(EntryOf(c, key), n) BY EntryOfOk
  <2>3. ASSUME NEW key \in DOMAIN w PROVE EntryOk(w[key], n) BY <2>1, WatchOk
  <2> QED BY <2>1, <2>2, <2>3
<1>2. CacheOk(w, n) BY <1>1 DEF CacheOk
<1>3. Unobserved(w, after)
  <2> SUFFICES ASSUME NEW key \in DOMAIN w \ after PROVE w[key].fetch = 0 BY DEF Unobserved
  <2>1. key \in DOMAIN c /\ EntryOf(c, key) = c[key] BY <1>1 DEF EntryOf
  <2>2. CASE key \in before BY <2>1, <2>2, WatchFetch
  <2>3. CASE key \notin before
    <3>1. ~Wanted(c, key, before, after) BY DEF Wanted
    <3>2. w[key] = c[key] BY <2>1, <2>3, <3>1, WatchFetch
    <3> QED BY <2>1, <2>3, <3>2 DEF Unobserved
  <2> QED BY <2>2, <2>3
<1>4. Observed(w, after)
  <2> SUFFICES ASSUME NEW key \in after
               PROVE  key \in DOMAIN w /\ (w[key].data > 0 \/ w[key].fetch # 0 \/ w[key].error)
    BY DEF Observed
  <2>1. key \in DOMAIN w /\ key \in DOMAIN c \cup after BY <1>1
  <2>2. CASE key \in before
    <3>1. ~Wanted(c, key, before, after) BY <2>2 DEF Wanted
    <3>2. w[key] = EntryOf(c, key) BY <2>1, <2>2, <3>1, WatchFetch
    <3>3. w[key] = c[key] BY <2>2, <3>2 DEF Observed, EntryOf
    <3> QED BY <2>1, <2>2, <3>3 DEF Observed
  <2>3. CASE key \notin before
    <3>1. PICK e : e = EntryOf(c, key) OBVIOUS
    <3>2. EntryOk(e, n) BY <3>1, EntryOfOk
    <3>3. CASE Wanted(c, key, before, after)
      <4>1. w[key].fetch = Asked BY <2>1, <3>3, WatchFetch
      <4> QED BY <2>1, <4>1 DEF Asked
    <3>4. CASE ~Wanted(c, key, before, after)
      <4>1. w[key] = e BY <2>1, <2>3, <3>1, <3>4, WatchFetch
      <4>2. e.fetch # 0 \/ e.data # 0 BY <2>3, <3>1, <3>4 DEF Wanted
      <4> QED BY <2>1, <3>2, <4>1, <4>2 DEF EntryOk
    <3> QED BY <3>3, <3>4
  <2> QED BY <2>2, <2>3
<1>5. ASSUME DOMAIN debts \subseteq DOMAIN c PROVE Owing(w, after, debts)
  <2> SUFFICES ASSUME NEW key \in DOMAIN debts, key \in DOMAIN c
               PROVE /\ Owes(w[key], debts[key])
                     /\ key \in after /\ w[key].fetch = 0 /\ w[key].data < debts[key] => w[key].error
    BY <1>5 DEF Owing
  <2>1. PICK e : e = c[key] OBVIOUS
  <2>2. PICK d : d = debts[key] OBVIOUS
  <2>3. /\ e = EntryOf(c, key) /\ key \in DOMAIN w /\ key \in DOMAIN c \cup after
        /\ EntryOk(e, n) /\ d \in 0..n
    BY <1>1, <2>1, <2>2 DEF EntryOf, CacheOk, Debts
  <2>4. /\ Owes(e, d)
        /\ key \in before /\ e.fetch = 0 /\ e.data < d => e.error
    BY <2>1, <2>2 DEF Owing
  <2>5. CASE key \in before \ after
    <3>1. w[key].fetch = 0 /\ w[key].data = e.data /\ w[key].stale = e.stale BY <2>3, <2>5, WatchOk, WatchFetch
    <3> QED BY <2>2, <2>3, <2>4, <2>5, <3>1 DEF Owes, EntryOk
  <2>6. CASE Wanted(c, key, before, after)
    <3>1. w[key].fetch = Asked /\ w[key].data = e.data /\ w[key].stale = e.stale
      BY <2>3, <2>6, WatchOk, WatchFetch
    <3> QED BY <2>2, <2>4, <3>1 DEF Owes, Asked
  <2>7. CASE key \notin before \ after /\ ~Wanted(c, key, before, after)
    <3>1. w[key] = e BY <2>3, <2>7, WatchFetch
    <3>2. key \in after /\ key \notin before /\ e.fetch = 0 => e.data # 0 /\ ~e.stale
      BY <2>3, <2>7 DEF Wanted
    <3> QED BY <2>2, <2>3, <2>4, <2>7, <3>1, <3>2 DEF Owes, EntryOk
  <2> QED BY <2>5, <2>6, <2>7
<1> QED BY <1>2, <1>3, <1>4, <1>5
---------------------------------------------------------------------------
(* What a step does to the cache before anything is drawn.                 *)

\* V: the queries that have an observer before and after.
Sound(c, W, V, debts, n) ==
  CacheOk(c, n) /\ Unobserved(c, W) /\ Observed(c, V) /\ Owing(c, W, debts)

EntrySound(e, key, W, V, debts, n) ==
  /\ EntryOk(e, n)
  /\ key \notin W => e.fetch = 0
  /\ key \in V => e.data > 0 \/ e.fetch # 0 \/ e.error
  /\ key \in DOMAIN debts =>
       /\ Owes(e, debts[key])
       /\ key \in W /\ e.fetch = 0 /\ e.data < debts[key] => e.error

\* The same, entry by entry.
LEMMA SoundEntries ==
  ASSUME NEW c, NEW W, NEW V, NEW debts, NEW n, DOMAIN c \subseteq Key, V \subseteq DOMAIN c
  PROVE  Sound(c, W, V, debts, n) <=> \A key \in DOMAIN c : EntrySound(c[key], key, W, V, debts, n)
BY DEF Sound, EntrySound, CacheOk, Unobserved, Observed, Owing

\* One entry changes.
LEMMA OneEntry ==
  ASSUME NEW c, NEW W, NEW V, NEW debts, NEW n, Sound(c, W, V, debts, n),
         NEW d, DOMAIN d = DOMAIN c, NEW key \in DOMAIN c,
         \A k \in DOMAIN c \ {key} : d[k] = c[k],
         EntrySound(d[key], key, W, V, debts, n)
  PROVE  Sound(d, W, V, debts, n)
<1>1. DOMAIN c \subseteq Key /\ V \subseteq DOMAIN c BY DEF Sound, CacheOk, Observed
<1>2. \A k \in DOMAIN c : EntrySound(c[k], k, W, V, debts, n) BY <1>1, SoundEntries
<1>3. \A k \in DOMAIN d : EntrySound(d[k], k, W, V, debts, n) BY <1>2
<1> QED BY <1>1, <1>3, SoundEntries

\* invalidateQueries raises debts: those of "raised" concern what it covers.
Told(e) == [e EXCEPT !.stale = TRUE]

LEMMA ToldEntry ==
  ASSUME NEW n \in Nat, NEW e, EntryOk(e, n)
  PROVE  /\ EntryOk(Told(e), n) /\ Told(e).data = e.data /\ Told(e).stale
         /\ Told(e).fetch = e.fetch /\ Told(e).error = e.error
BY DEF EntryOk, Told

LEMMA InvalidateOther ==
  ASSUME NEW c, NEW keys, NEW W, NEW key \in DOMAIN c, key \notin keys
  PROVE  Invalidate(c, keys, W)[key] = c[key]
BY DEF Invalidate

LEMMA InvalidateSeen ==
  ASSUME NEW c, NEW keys, NEW W, NEW key \in DOMAIN c, key \in keys \cap W,
         c[key].data > 0 \/ c[key].fetch = 0
  PROVE  Invalidate(c, keys, W)[key] = Told(Asking(c[key]))
BY DEF Invalidate, Told

LEMMA InvalidateRest ==
  ASSUME NEW c, NEW keys, NEW W, NEW key \in DOMAIN c, key \in keys,
         ~(key \in W /\ (c[key].data > 0 \/ c[key].fetch = 0))
  PROVE  Invalidate(c, keys, W)[key] = Told(c[key])
BY DEF Invalidate, Told

LEMMA InvalidateDomain ==
  ASSUME NEW c, NEW keys, NEW W PROVE DOMAIN Invalidate(c, keys, W) = DOMAIN c
BY DEF Invalidate

\* Each debt in "later" is an older one, or on a view that is invalidated and
\* whose first load, if one is under way, will answer it.
Payable(later, c, debts, keys) ==
  \A key \in DOMAIN later \cap DOMAIN c :
    \/ key \in DOMAIN debts /\ later[key] = debts[key]
    \/ key \in keys /\ (c[key].data = 0 /\ c[key].fetch > 0 => c[key].fetch >= later[key])

LEMMA InvalidateKeeps ==
  ASSUME NEW n \in Nat, NEW c, NEW W, NEW V \in SUBSET W, NEW debts,
         Sound(c, W, V, debts, n), NEW keys, NEW later, Debts(later, n),
         Payable(later, c, debts, keys), NEW d, d = Invalidate(c, keys, W)
  PROVE  /\ DOMAIN d = DOMAIN c /\ Sound(d, W, V, later, n)
         /\ \A key \in DOMAIN c : d[key].data = c[key].data
<1> USE DEF Payable
<1>1. DOMAIN d = DOMAIN c BY InvalidateDomain
<1>2. DOMAIN c \subseteq Key /\ V \subseteq DOMAIN c BY DEF Sound, CacheOk, Observed
<1>3. ASSUME NEW key \in DOMAIN c
      PROVE  EntrySound(d[key], key, W, V, later, n) /\ d[key].data = c[key].data
  <2>1. EntrySound(c[key], key, W, V, debts, n) BY <1>2, SoundEntries
  <2>2. EntryOk(c[key], n) BY <2>1 DEF EntrySound
  <2>3. CASE key \notin keys
    <3>1. d[key] = c[key] BY <2>3, InvalidateOther
    <3> QED BY <2>1, <2>3, <3>1 DEF EntrySound
  <2>4. CASE key \in keys \cap W /\ (c[key].data > 0 \/ c[key].fetch = 0)
    <3>1. d[key] = Told(Asking(c[key])) BY <2>4, InvalidateSeen
    <3>2. PICK a : a = Asking(c[key]) OBVIOUS
    <3>3. EntryOk(a, n) /\ a.data = c[key].data /\ a.fetch = Asked
      BY <2>2, <3>2, AskingOk, AskingEntry
    <3>4. EntryOk(d[key], n) /\ d[key].data = c[key].data /\ d[key].fetch = Asked /\ d[key].stale
      BY <3>1, <3>2, <3>3, ToldEntry
    <3> QED BY <2>2, <2>4, <3>4 DEF EntrySound, Owes, Asked
  <2>5. CASE key \in keys /\ ~(key \in W /\ (c[key].data > 0 \/ c[key].fetch = 0))
    <3>1. d[key] = Told(c[key]) BY <2>5, InvalidateRest
    <3>2. /\ EntryOk(d[key], n) /\ d[key].data = c[key].data /\ d[key].fetch = c[key].fetch
          /\ d[key].stale /\ d[key].error = c[key].error
      BY <2>2, <3>1, ToldEntry
    <3>3. CASE key \notin W
      BY <2>1, <2>2, <3>2, <3>3 DEF EntrySound, Owes
    <3>4. CASE key \in W
      <4>1. c[key].data = 0 /\ c[key].fetch # 0 BY <2>2, <2>5, <3>4 DEF EntryOk
      <4>2. key \in DOMAIN later => Owes(d[key], later[key])
        BY <2>1, <3>2, <4>1 DEF EntrySound, Owes
      <4> QED BY <2>1, <3>2, <3>4, <4>1, <4>2 DEF EntrySound
    <3> QED BY <3>3, <3>4
  <2> QED BY <2>3, <2>4, <2>5
<1>4. \A key \in DOMAIN d : EntrySound(d[key], key, W, V, later, n) BY <1>1, <1>3
<1>5. Sound(d, W, V, later, n) BY <1>1, <1>2, <1>4, SoundEntries
<1> QED BY <1>1, <1>3, <1>5

\* setQueryData, of a card that owes nothing; removeQueries.
LEMMA PutKeeps ==
  ASSUME NEW n \in Nat, NEW c, NEW W, NEW V, NEW debts, Sound(c, W, V, debts, n),
         NEW key \in Key \ DOMAIN debts, NEW v \in 1..n, NEW d, d = Put(c, key, v)
  PROVE  /\ DOMAIN d = DOMAIN c \cup {key} /\ Sound(d, W, V, debts, n)
         /\ \A k \in DOMAIN c \ {key} : d[k] = c[k]
<1>1. DOMAIN d = DOMAIN c \cup {key} /\ \A k \in DOMAIN c \ {key} : d[k] = c[k] BY DEF Put
<1>2. DOMAIN c \subseteq Key /\ V \subseteq DOMAIN c BY DEF Sound, CacheOk, Observed
<1>3. EntrySound(d[key], key, W, V, debts, n)
  <2>1. PICK e : e = EntryOf(c, key) OBVIOUS
  <2>2. EntryOk(e, n) /\ (key \notin W => e.fetch = 0)
    BY <2>1, EntryOfOk DEF EntryOf, Sound, Unobserved, Blank
  <2>3. PICK f : f = [e EXCEPT !.data = v] OBVIOUS
  <2>4. EntryOk(f, n) /\ f.data = v /\ f.fetch = e.fetch BY <2>2, <2>3 DEF EntryOk
  <2>5. PICK g : g = [f EXCEPT !.stale = FALSE] OBVIOUS
  <2>6. EntryOk(g, n) /\ g.data = v /\ g.fetch = e.fetch BY <2>4, <2>5 DEF EntryOk
  <2>7. d[key] = [g EXCEPT !.error = FALSE] BY <1>1, <2>1, <2>3, <2>5 DEF Put
  <2>8. EntryOk(d[key], n) /\ d[key].data = v /\ d[key].fetch = e.fetch BY <2>6, <2>7 DEF EntryOk
  <2> QED BY <2>2, <2>8 DEF EntrySound
<1>4. \A k \in DOMAIN d : EntrySound(d[k], k, W, V, debts, n)
  BY <1>1, <1>2, <1>3, SoundEntries
<1>5. DOMAIN d \subseteq Key /\ V \subseteq DOMAIN d BY <1>1, <1>2
<1> QED BY <1>1, <1>4, <1>5, SoundEntries

LEMMA WithoutKeeps ==
  ASSUME NEW n, NEW c, NEW W, NEW V, NEW debts, Sound(c, W, V, debts, n), NEW keys
  PROVE  Sound(Without(c, keys), W, V \ keys, debts, n)
BY DEF Sound, CacheOk, Unobserved, Observed, Owing, Without

---------------------------------------------------------------------------
(* What is watched depends on little of the cache.                         *)

SameLooks(r, c, d) ==
  /\ \A key : /\ EntryOf(d, key).data = EntryOf(c, key).data
              /\ EntryOf(c, key).data > 0 => (EntryOf(d, key).error <=> EntryOf(c, key).error)
  /\ EntryOf(d, TicketList).error <=> EntryOf(c, TicketList).error
  /\ r.page = "client" =>
       (EntryOf(d, ClientDetail(r.id)).error <=> EntryOf(c, ClientDetail(r.id)).error)

\* Caches that look the same show the same.
LEMMA SameLoaded ==
  ASSUME NEW r, NEW c, NEW d, SameLooks(r, c, d), NEW key
  PROVE  /\ Loaded(d, key) <=> Loaded(c, key)
         /\ Shown(d, key) <=> Shown(c, key)
BY DEF SameLooks, Loaded, Shown

LEMMA LoadedIn == ASSUME NEW c, NEW key, Loaded(c, key) PROVE key \in DOMAIN c
BY DEF Loaded, EntryOf, Blank

LEMMA SameView ==
  ASSUME NEW r, NEW c, NEW d, SameLooks(r, c, d), NEW key, Loaded(c, key)
  PROVE  ViewIn(d, key) = ViewIn(c, key)
<1>1. Loaded(d, key) BY SameLoaded
<1>2. key \in DOMAIN c /\ key \in DOMAIN d BY <1>1, LoadedIn
<1>3. d[key].data = c[key].data BY <1>2 DEF SameLooks, EntryOf
<1> QED BY <1>3 DEF ViewIn

LEMMA SameTab ==
  ASSUME NEW r, NEW c, NEW d, SameLooks(r, c, d)
  PROVE  /\ TabShown(r, d) <=> TabShown(r, c)
         /\ AccessShown(r, d) <=> AccessShown(r, c)
BY SameLoaded DEF TabShown, AccessShown, SameLooks

LEMMA SameThread ==
  ASSUME NEW r, NEW u, NEW c, NEW d, SameLooks(r, c, d)
  PROVE  OpenThread(r, u, d) = OpenThread(r, u, c)
<1>1. PICK k : k = ClientTickets(r.id) OBVIOUS
<1>2. Shown(d, k) <=> Shown(c, k) BY SameLoaded
<1>3. Shown(c, k) => ViewIn(d, k) = ViewIn(c, k) BY SameView DEF Shown
<1>4. TabShown(r, d) <=> TabShown(r, c) BY SameTab
<1>5. EntryOf(d, TicketList).error <=> EntryOf(c, TicketList).error BY DEF SameLooks
<1>6. CASE r.page = "client" /\ r.tab = "tickets" /\ TabShown(r, c) /\ u.open # None
  BY <1>1, <1>2, <1>3, <1>4, <1>6 DEF OpenThread
<1>7. CASE ~(r.page = "client" /\ r.tab = "tickets" /\ TabShown(r, c) /\ u.open # None)
  BY <1>4, <1>5, <1>7 DEF OpenThread
<1> QED BY <1>6, <1>7

LEMMA SameWatched ==
  ASSUME NEW r, NEW u, NEW c, NEW d, SameLooks(r, c, d)
  PROVE  Watched(r, u, d) = Watched(r, u, c)
<1>1. OpenThread(r, u, d) = OpenThread(r, u, c) BY SameThread
<1>2. TabShown(r, d) <=> TabShown(r, c) BY SameTab
<1> QED BY <1>1, <1>2 DEF Watched

LEMMA SameListData ==
  ASSUME NEW r, NEW c, NEW d, SameLooks(r, c, d)
  PROVE  ListData(d) = ListData(c)
<1>1. Loaded(d, ClientList) <=> Loaded(c, ClientList) BY SameLoaded
<1>2. Loaded(c, ClientList) => ViewIn(d, ClientList) = ViewIn(c, ClientList) BY SameView
<1> QED BY <1>1, <1>2 DEF ListData
---------------------------------------------------------------------------
(* The server's history only grows, and what was read of it stays.         *)

Grown == \A v \in 1..Now : past'[v] = past[v]

\* What was read of a past state does not change.
LEMMA ViewStays ==
  ASSUME Grown, NEW n \in Nat, n = Now, NEW c, CacheOk(c, n), NEW key, Loaded(c, key)
  PROVE  ViewIn(c, key)' = ViewIn(c, key)
<1>1. key \in DOMAIN c BY LoadedIn
<1>2. c[key].data \in 1..n BY <1>1 DEF Loaded, EntryOf, CacheOk, EntryOk
<1> QED BY <1>2 DEF ViewIn, Grown

LEMMA ThreadStays ==
  ASSUME Grown, NEW n \in Nat, n = Now, NEW c, CacheOk(c, n), NEW r, NEW u
  PROVE  OpenThread(r, u, c)' = OpenThread(r, u, c)
<1>1. PICK k : k = ClientTickets(r.id) OBVIOUS
<1>2. Shown(c, k) => ViewIn(c, k)' = ViewIn(c, k) BY ViewStays DEF Shown
<1> QED BY <1>1, <1>2 DEF OpenThread

LEMMA WatchedStays ==
  ASSUME Grown, NEW n \in Nat, n = Now, NEW c, CacheOk(c, n), NEW r, NEW u
  PROVE  Watched(r, u, c)' = Watched(r, u, c)
BY ThreadStays DEF Watched

LEMMA ListDataStays ==
  ASSUME Grown, NEW n \in Nat, n = Now, NEW c, CacheOk(c, n)
  PROVE  ListData(c)' = ListData(c)
<1>1. Loaded(c, ClientList) => ViewIn(c, ClientList)' = ViewIn(c, ClientList) BY ViewStays
<1> QED BY <1>1 DEF ListData
---------------------------------------------------------------------------
\* Every query with an observer has a key, and the shell's is one of them.
LEMMA WatchedKeys ==
  ASSUME NEW r \in Route, NEW u, UiOk(r, u), NEW c
  PROVE  Watched(r, u, c) \subseteq Key /\ TicketList \in Watched(r, u, c)
<1>1. r.page \in Page /\ (r.page = "client" => r.id \in Client) BY DEF Route
<1>2. CASE r.page = "client" BY <1>1, <1>2, KeysIn DEF Watched
<1>3. CASE r.page = "new" BY <1>1, <1>3, KeysIn DEF Watched, UiOk
<1>4. CASE r.page = "tickets"
  <2>1. OpenThread(r, u, c) = None \/ u.open \in Ticket BY <1>4 DEF OpenThread, UiOk
  <2> QED BY <1>1, <1>4, <2>1, KeysIn DEF Watched
<1>5. CASE r.page \notin {"client", "new", "tickets"} BY <1>1, <1>5, KeysIn DEF Watched, Page
<1> QED BY <1>2, <1>3, <1>4, <1>5

---------------------------------------------------------------------------
(* Pages and rows.                                                         *)

RowsOf(r, u, list) == {id \in DOMAIN list : r.tab \in {"all", list[id]} /\ id \in u.found}
RangeOk(r, u, list) ==
  RowsOf(r, u, list) # {} => u.index * u.size < Cardinality(RowsOf(r, u, list))

\* The page may stay where it is only while the rows are the same.
RangeMoves(r, u, c) ==
  r.page = "clients" =>
    IF route.page = "clients" /\ r.tab = route.tab /\ u.found = ui.found
         /\ ListData(c) = ListData(cache)
      THEN RangeOk(r, u, ListData(c))
      ELSE route.page # "clients" => u.index = 0

ScreenInv ==
  /\ route \in Route /\ UiOk(route, ui)
  /\ route.page = "clients" => RangeOk(route, ui, ListData(cache))

\* The rows of the page, in the terms of the proofs.
LEMMA RowsAre == Rows = RowsOf(route, ui, ListData(cache))
<1>1. CASE Loaded(cache, ClientList)
  <2>1. View(ClientList) = ViewIn(cache, ClientList) BY DEF View
  <2> QED BY <1>1, <2>1 DEF Rows, RowsOf, ListData
<1>2. CASE ~Loaded(cache, ClientList)
  <2>1. DOMAIN ListData(cache) = {} BY <1>2 DEF ListData
  <2> QED BY <1>2, <2>1 DEF Rows, RowsOf
<1> QED BY <1>1, <1>2

\* The first page is never out of range.
LEMMA FirstPage ==
  ASSUME NEW r, NEW u, u.found \subseteq Client, u.index = 0, u.size \in Nat, NEW list
  PROVE  RangeOk(r, u, list)
<1> SUFFICES ASSUME RowsOf(r, u, list) # {} PROVE 0 < Cardinality(RowsOf(r, u, list))
  BY DEF RangeOk
<1>1. RowsOf(r, u, list) \subseteq Client BY DEF RowsOf
<1>2. IsFiniteSet(RowsOf(r, u, list)) BY <1>1, SizesAssumption, FS_Subset
<1> QED BY <1>2, FS_EmptySet, FS_CardinalityType

\* Remounted, case by case.
FreshTable(u) == [u EXCEPT !.index = 0]
Narrowed(r, u, c) ==
  r.page = "clients" /\ r.page = route.page
    /\ (r.tab # route.tab \/ u.found # ui.found \/ ListData(c) # ListData(cache))

LEMMA RemountedTable ==
  ASSUME NEW r, NEW u, NEW c, r.page = "clients"
  PROVE  Remounted(r, u, c) = IF Narrowed(r, u, c) THEN FreshTable(u) ELSE u
BY DEF Remounted, Narrowed, FreshTable

LEMMA FreshTableOk ==
  ASSUME NEW r, NEW u, r.page = "clients", UiOk(r, u)
  PROVE  UiOk(r, FreshTable(u)) /\ FreshTable(u).index = 0
BY DEF UiOk, FreshUi, FreshTable

LEMMA FreshUiOk ==
  ASSUME NEW r, r.page \in Page
  PROVE  UiOk(r, FreshUi(r.page)) /\ (r.page = "clients" => FreshUi(r.page).index = 0)
BY DEF UiOk, FreshUi, Page

\* What is mounted anew has the state of its page.
LEMMA RemountedOk ==
  ASSUME NEW r \in Route, NEW u, UiOk(r, u), NEW c
  PROVE  UiOk(r, Remounted(r, u, c))
<1>1. r.page \in Page BY DEF Route
<1>2. CASE r.page = "clients" BY <1>2, RemountedTable, FreshTableOk
<1>3. CASE r.page = "client"
  <2>1. UiOk(r, FreshUi("client")) BY <1>1, <1>3, FreshUiOk
  <2>2. CASE Remounted(r, u, c) = u BY <2>2
  <2>3. CASE Remounted(r, u, c) = FreshUi("client") BY <2>1, <2>3
  <2>4. CASE Remounted(r, u, c) = [FreshUi("client") EXCEPT !.form = r.suspend]
    BY <1>3, <2>1, <2>4 DEF UiOk, FreshUi
  <2>5. CASE Remounted(r, u, c) = [FreshUi("client") EXCEPT !.open = IF TabShown(r, c) THEN u.open ELSE None]
    BY <1>3, <2>1, <2>5 DEF UiOk, FreshUi
  <2> QED BY <1>3, <2>2, <2>3, <2>4, <2>5 DEF Remounted
<1>4. CASE r.page = "tickets"
  <2>1. CASE Remounted(r, u, c) = [u EXCEPT !.reply = FALSE] BY <1>4, <2>1 DEF UiOk, FreshUi
  <2> QED BY <1>4, <2>1 DEF Remounted
<1>5. CASE r.page = "team"
  <2>1. CASE Remounted(r, u, c) = [u EXCEPT !.revoke = FALSE, !.typed = None] BY <1>5, <2>1 DEF UiOk, FreshUi
  <2> QED BY <1>5, <2>1 DEF Remounted
<1>6. CASE r.page = "settings"
  <2>1. Remounted(r, u, c) = Seeded(u, c) BY <1>6 DEF Remounted
  <2>2. CASE u.text = None /\ Loaded(c, Settings)
    <3>1. PICK text : text = ViewIn(c, Settings).template OBVIOUS
    <3>2. Seeded(u, c) = [u EXCEPT !.text = text] BY <2>2, <3>1 DEF Seeded
    <3>3. u.typed = None BY <1>6, <2>2 DEF UiOk
    <3> QED BY <1>6, <2>1, <3>2, <3>3 DEF UiOk, FreshUi
  <2>3. CASE ~(u.text = None /\ Loaded(c, Settings)) BY <2>1, <2>3 DEF Seeded
  <2> QED BY <2>2, <2>3
<1>7. CASE r.page \notin {"clients", "client", "tickets", "team", "settings"} BY <1>7 DEF Remounted
<1> QED BY <1>2, <1>3, <1>4, <1>5, <1>6, <1>7

\* The table starts over whenever its rows change, so its page has rows.
LEMMA RemountedRange ==
  ASSUME NEW r \in Route, NEW u, UiOk(r, u), NEW c, RangeMoves(r, u, c), r.page = "clients"
  PROVE  RangeOk(r, Remounted(r, u, c), ListData(c))
<1>1. CASE Narrowed(r, u, c)
  <2>1. Remounted(r, u, c) = FreshTable(u) BY <1>1, RemountedTable
  <2>2. UiOk(r, FreshTable(u)) /\ FreshTable(u).index = 0 BY FreshTableOk
  <2> QED BY <2>1, <2>2, FirstPage DEF UiOk
<1>2. CASE ~Narrowed(r, u, c)
  <2>1. Remounted(r, u, c) = u BY <1>2, RemountedTable
  <2>2. CASE route.page = "clients" BY <1>2, <2>1, <2>2 DEF RangeMoves, Narrowed
  <2>3. CASE route.page # "clients"
    <3>1. u.index = 0 BY <2>3 DEF RangeMoves
    <3> QED BY <2>1, <3>1, FirstPage DEF UiOk
  <2> QED BY <2>2, <2>3
<1> QED BY <1>1, <1>2
---------------------------------------------------------------------------
(* Show.                                                                   *)

\* Who has an observer after it.
After(r, u, given) == Watched(r, Remounted(r, u, Opened(r, given)), Opened(r, given))

Cleared(e) == [e EXCEPT !.error = FALSE]

\* A card that forgets its error still owes what it owed.
LEMMA OpenedKeeps ==
  ASSUME NEW n \in Nat, NEW V \in SUBSET Watching, NEW debts, NEW r, NEW given,
         Sound(given, Watching, V, debts, n)
  PROVE  /\ DOMAIN Opened(r, given) = DOMAIN given /\ Sound(Opened(r, given), Watching, V, debts, n)
         /\ \A key \in DOMAIN given : Opened(r, given)[key].data = given[key].data
<1>1. PICK key : key = ClientDetail(r.id) OBVIOUS
<1>2. CASE r.page = "client" /\ key \in DOMAIN given \ Watching /\ given[key].data = 0
  <2>1. Opened(r, given) = [given EXCEPT ![key].error = FALSE] BY <1>1, <1>2 DEF Opened, Watching
  <2>2. PICK d : d = Opened(r, given) OBVIOUS
  <2>3. DOMAIN d = DOMAIN given /\ \A k \in DOMAIN given \ {key} : d[k] = given[k] BY <2>1, <2>2
  <2>4. d[key] = Cleared(given[key]) BY <1>2, <2>1, <2>2 DEF Cleared
  <2>5. EntryOk(given[key], n) BY <1>2 DEF Sound, CacheOk
  <2>6. EntryOk(d[key], n) /\ d[key].data = given[key].data /\ d[key].fetch = given[key].fetch
        /\ d[key].stale = given[key].stale
    BY <2>4, <2>5 DEF EntryOk, Cleared
  <2>7. DOMAIN given \subseteq Key /\ V \subseteq DOMAIN given BY DEF Sound, CacheOk, Observed
  <2>8. EntrySound(given[key], key, Watching, V, debts, n) BY <1>2, <2>7, SoundEntries
  <2>9. EntrySound(d[key], key, Watching, V, debts, n)
    BY <1>2, <2>6, <2>8 DEF EntrySound, Owes
  <2>10. Sound(d, Watching, V, debts, n) BY <1>2, <2>3, <2>9, OneEntry
  <2> QED BY <2>2, <2>3, <2>6, <2>10
<1>3. CASE ~(r.page = "client" /\ key \in DOMAIN given \ Watching /\ given[key].data = 0)
  <2>1. Opened(r, given) = given BY <1>1, <1>3 DEF Opened, Watching
  <2> QED BY <2>1
<1> QED BY <1>2, <1>3

LEMMA OpenedData ==
  ASSUME NEW n \in Nat, NEW r, NEW given, CacheOk(given, n)
  PROVE  /\ DOMAIN Opened(r, given) = DOMAIN given
         /\ \A key \in DOMAIN given : Opened(r, given)[key].data = given[key].data
<1>1. PICK key : key = ClientDetail(r.id) OBVIOUS
<1>2. CASE r.page = "client" /\ key \in DOMAIN given \ Watching /\ given[key].data = 0
  <2>1. Opened(r, given) = [given EXCEPT ![key].error = FALSE] BY <1>1, <1>2 DEF Opened, Watching
  <2>2. PICK d : d = Opened(r, given) OBVIOUS
  <2>3. DOMAIN d = DOMAIN given /\ \A k \in DOMAIN given \ {key} : d[k] = given[k] BY <2>1, <2>2
  <2>4. d[key] = Cleared(given[key]) BY <1>2, <2>1, <2>2 DEF Cleared
  <2>5. d[key].data = given[key].data BY <1>2, <2>4 DEF Cleared, CacheOk, EntryOk
  <2> QED BY <2>2, <2>3, <2>5
<1>3. CASE ~(r.page = "client" /\ key \in DOMAIN given \ Watching /\ given[key].data = 0)
  <2>1. Opened(r, given) = given BY <1>1, <1>3 DEF Opened, Watching
  <2> QED BY <2>1
<1> QED BY <1>2, <1>3

LEMMA OpenedCard ==
  ASSUME NEW r, NEW given, r.page = "client", ClientDetail(r.id) \notin Watching,
         EntryOf(Opened(r, given), ClientDetail(r.id)).data = 0, NEW n, CacheOk(given, n)
  PROVE  EntryOf(Opened(r, given), ClientDetail(r.id)).error = FALSE
<1>1. PICK key : key = ClientDetail(r.id) OBVIOUS
<1>2. CASE key \in DOMAIN given /\ given[key].data = 0
  <2>1. Opened(r, given) = [given EXCEPT ![key].error = FALSE] BY <1>1, <1>2 DEF Opened, Watching
  <2>2. EntryOk(given[key], n) BY <1>2 DEF CacheOk
  <2> QED BY <1>1, <1>2, <2>1, <2>2 DEF EntryOf, EntryOk
<1>3. CASE ~(key \in DOMAIN given /\ given[key].data = 0)
  <2>1. Opened(r, given) = given BY <1>1, <1>3 DEF Opened
  <2> QED BY <1>1, <1>3, <2>1 DEF EntryOf, Blank
<1> QED BY <1>2, <1>3

LEMMA CardWatched ==
  ASSUME NEW r, NEW u, NEW c, r.page = "client"
  PROVE  ClientDetail(r.id) \in Watched(r, u, c)
BY DEF Watched

\* The cache that Show leaves looks as the one it drew.
LEMMA ShowLooks ==
  ASSUME NEW n \in Nat, NEW r \in Route, NEW u, UiOk(r, u), NEW given, CacheOk(given, n),
         NEW w, Show(r, u, given, w), route \in Route, UiOk(route, ui),
         CacheOk(Opened(r, given), n)
  PROVE  SameLooks(r, Opened(r, given), cache')
<1>1. PICK c : c = Opened(r, given) OBVIOUS
<1>2. PICK v : v = Remounted(r, u, c) OBVIOUS
<1>3. PICK A : A = Watched(r, v, c) OBVIOUS
<1>4. cache' = Watch(c, Watching, A) BY <1>1, <1>2, <1>3 DEF Show, Watching
<1>5. UiOk(r, v) BY <1>2, RemountedOk
<1>6. DOMAIN cache' = DOMAIN c \cup A BY <1>4, WatchDomain
<1>7. ASSUME NEW key
      PROVE  /\ EntryOf(cache', key).data = EntryOf(c, key).data
             /\ EntryOf(c, key).data > 0 => (EntryOf(cache', key).error <=> EntryOf(c, key).error)
  <2>1. CASE key \in DOMAIN c \cup A
    <3>1. EntryOf(cache', key) = cache'[key] BY <1>6, <2>1 DEF EntryOf
    <3>2. /\ cache'[key].data = EntryOf(c, key).data
          /\ (cache'[key].error <=> EntryOf(c, key).error) \/ EntryOf(c, key).data = 0
      BY <1>1, <1>4, <2>1, WatchOk
    <3> QED BY <3>1, <3>2
  <2>2. CASE key \notin DOMAIN c \cup A BY <1>6, <2>2 DEF EntryOf, Blank
  <2> QED BY <2>1, <2>2
<1>8. ASSUME NEW key \in Watching \cap A
      PROVE  EntryOf(cache', key) = EntryOf(c, key)
  <2>1. ~Wanted(c, key, Watching, A) BY DEF Wanted
  <2>2. cache'[key] = EntryOf(c, key) BY <1>4, <2>1, WatchRest
  <2> QED BY <1>6, <2>2 DEF EntryOf
<1>9. EntryOf(cache', TicketList) = EntryOf(c, TicketList)
  BY <1>3, <1>5, <1>8, WatchedKeys DEF Watching
<1>10. ASSUME r.page = "client"
       PROVE  EntryOf(cache', ClientDetail(r.id)).error <=> EntryOf(c, ClientDetail(r.id)).error
  <2>1. PICK key : key = ClientDetail(r.id) OBVIOUS
  <2>2. key \in A BY <1>3, <1>10, <2>1, CardWatched
  <2>3. CASE key \in Watching BY <1>8, <2>1, <2>2, <2>3
  <2>4. CASE key \notin Watching /\ EntryOf(c, key).data = 0
    <3>1. EntryOf(c, key).error = FALSE BY <1>1, <1>10, <2>1, <2>4, OpenedCard
    <3>2. EntryOf(cache', key) = cache'[key] BY <1>6, <2>2 DEF EntryOf
    <3>3. EntryOk(EntryOf(c, key), n) BY <1>1, EntryOfOk
    <3>4. CASE Wanted(c, key, Watching, A)
      <4>1. cache'[key] = Asking(EntryOf(c, key)) BY <1>4, <2>2, <3>4, WatchWanted
      <4>2. ~cache'[key].error BY <3>1, <3>3, <4>1, AskingEntry
      <4> QED BY <2>1, <3>1, <3>2, <4>2
    <3>5. CASE ~Wanted(c, key, Watching, A)
      <4>1. cache'[key] = EntryOf(c, key) BY <1>4, <2>2, <2>4, <3>5, WatchRest
      <4> QED BY <2>1, <3>2, <4>1
    <3> QED BY <3>4, <3>5
  <2>5. CASE EntryOf(c, key).data # 0
    <3>1. EntryOk(EntryOf(c, key), n) BY <1>1, EntryOfOk
    <3>2. EntryOf(c, key).data > 0 BY <2>5, <3>1 DEF EntryOk
    <3> QED BY <1>7, <2>1, <3>2
  <2> QED BY <2>3, <2>4, <2>5
<1> QED BY <1>1, <1>7, <1>9, <1>10 DEF SameLooks

\* After a step, in terms of the values before it.
LEMMA WatchingThen ==
  ASSUME NEW r, NEW u, NEW c, r = route', u = ui', c = cache'
  PROVE  Watching' = Watched(r, u, c)'
BY DEF Watching, Watched, OpenThread, ViewIn

LEMMA ListDataThen ==
  ASSUME NEW c, c = cache'
  PROVE  ListData(cache)' = ListData(c)'
BY DEF ListData, ViewIn

\* Drawing the screen: the cache, its observers and what it owes.
LEMMA ShowCache ==
  ASSUME NEW n \in Nat, n = Now, UNCHANGED past, route \in Route, UiOk(route, ui),
         NEW r \in Route, NEW u, UiOk(r, u), NEW given, NEW w, Show(r, u, given, w),
         NEW V \in SUBSET Watching, Watching \cap After(r, u, given) \subseteq V,
         NEW debts, Debts(debts, n), DOMAIN debts \subseteq DOMAIN given,
         Sound(given, Watching, V, debts, n)
  PROVE  /\ Watching' = After(r, u, given)
         /\ Sound(cache', Watching', Watching', debts, n)
         /\ DOMAIN given \subseteq DOMAIN cache'
         /\ SameLooks(r, Opened(r, given), cache')
         /\ cache' = Watch(Opened(r, given), Watching, After(r, u, given))
<1>1. PICK c : c = Opened(r, given) OBVIOUS
<1>2. DOMAIN c = DOMAIN given /\ Sound(c, Watching, V, debts, n) BY <1>1, OpenedKeeps
<1>3. CacheOk(given, n) /\ CacheOk(c, n) BY <1>2 DEF Sound
<1>4. SameLooks(r, c, cache') BY <1>1, <1>3, ShowLooks
<1>5. PICK A : A = After(r, u, given) OBVIOUS
<1>6. cache' = Watch(c, Watching, A) BY <1>1, <1>5 DEF Show, Watching, After
<1>7. route' = r /\ ui' = Remounted(r, u, c) BY <1>1 DEF Show
<1>8. UiOk(r, ui') BY <1>7, RemountedOk
<1>9. A = Watched(route', ui', c) BY <1>1, <1>5, <1>7 DEF After
<1>10. A \subseteq Key BY <1>7, <1>8, <1>9, WatchedKeys
<1>11. /\ CacheOk(cache', n) /\ Unobserved(cache', A) /\ Observed(cache', A)
       /\ Owing(cache', A, debts)
  <2>1. Observed(c, Watching \cap A) BY <1>2, <1>5 DEF Sound, Observed
  <2> QED BY <1>2, <1>6, <1>10, <2>1, WatchKeeps DEF Sound
<1>12. Watched(route', ui', cache') = A BY <1>4, <1>7, <1>9, SameWatched
<1>13. Watching' = A
  <2>1. PICK r1, u1, c1 : r1 = route' /\ u1 = ui' /\ c1 = cache' OBVIOUS
  <2>2. Watched(r1, u1, c1)' = Watched(r1, u1, c1) BY <1>11, <2>1, WatchedStays DEF Grown
  <2>3. Watching' = Watched(r1, u1, c1)' BY <2>1, WatchingThen
  <2> QED BY <1>12, <2>1, <2>2, <2>3
<1>14. Sound(cache', Watching', Watching', debts, n) BY <1>11, <1>13 DEF Sound
<1>15. DOMAIN given \subseteq DOMAIN cache'
  <2>1. DOMAIN cache' = DOMAIN c \cup A BY <1>6, WatchDomain
  <2> QED BY <1>2, <2>1
<1> QED BY <1>1, <1>4, <1>5, <1>6, <1>13, <1>14, <1>15

\* Drawing the screen: the page and its rows.
LEMMA ShowScreen ==
  ASSUME NEW n \in Nat, n = Now, UNCHANGED past, ScreenInv,
         NEW r \in Route, NEW u, UiOk(r, u), NEW given, NEW w, Show(r, u, given, w),
         CacheOk(given, n), CacheOk(cache', n), RangeMoves(r, u, given),
         SameLooks(r, Opened(r, given), cache'),
         DOMAIN Opened(r, given) = DOMAIN given,
         \A key \in DOMAIN given : Opened(r, given)[key].data = given[key].data
  PROVE  ScreenInv'
<1>1. PICK c : c = Opened(r, given) OBVIOUS
<1>2. route' = r /\ ui' = Remounted(r, u, c) BY <1>1 DEF Show
<1>3. UiOk(r, ui') BY <1>2, RemountedOk
<1>4. UiOk(route', ui') BY <1>2, <1>3
<1>5. ASSUME r.page = "clients" PROVE RangeOk(route, ui, ListData(cache))'
  <2>1. c = given BY <1>1, <1>5 DEF Opened
  <2>2. RangeOk(r, ui', ListData(c)) BY <1>2, <1>5, <2>1, RemountedRange
  <2>3. ListData(cache') = ListData(c) BY <1>1, SameListData
  <2>4. PICK k : k = cache' OBVIOUS
  <2>5. ListData(k)' = ListData(k) BY <2>4, ListDataStays DEF Grown
  <2>6. ListData(cache)' = ListData(c) BY <2>3, <2>4, <2>5, ListDataThen
  <2>7. PICK r1, u1, l1 : r1 = r /\ u1 = ui' /\ l1 = ListData(c) OBVIOUS
  <2> QED BY <1>2, <2>2, <2>6, <2>7 DEF RangeOk, RowsOf
<1> QED BY <1>2, <1>4, <1>5 DEF ScreenInv
---------------------------------------------------------------------------
(* The mutations a step of the screen leaves alone.                        *)

States == {"idle", "sent", "done", "settling", "failed", "refused"}

\* "version" of a creation: -1 for a check that failed, or the state in which
\* the check found the address free.
Explained(w) ==
  w.version = -1 \/ (w.version > 0 /\ ~Taken(past[w.version], w.arg.email))
WriteOk(w, n) ==
  /\ DOMAIN w = DOMAIN NoWrite
  /\ w.at \in States
  /\ w.version \in -1..n
  /\ w.at # "idle" => w.op \in Op
  /\ w.at \in {"done", "settling"} => w.version > 0
  /\ w.op = "create" /\ w.at = "done" => w.on \in Client
  /\ w.op = "create" /\ w.at \in {"sent", "refused"} => Explained(w)
  /\ w.op = "suspend" => w.on \in Client /\ w.owner = "access"
AccessHere(w) == w.op = "suspend" /\ w.here => AccessShown(route, cache)
WritesInv(n) ==
  /\ DOMAIN writes = Slot
  /\ \A s \in Slot : WriteOk(writes[s], n) /\ AccessHere(writes[s])

LEMMA AccessInstance ==
  ASSUME NEW r, NEW u, NEW c
  PROVE  Instance("access", r, u, c) = IF AccessShown(r, c) THEN "access" ELSE None
BY DEF Instance

\* What one mutation becomes.
LEMMA ShownWrite ==
  ASSUME NEW r, NEW u, NEW given, NEW w, Show(r, u, given, w), NEW s \in Slot
  PROVE  /\ DOMAIN writes' = Slot
         /\ w[s].op = None => writes'[s] = w[s]
         /\ DOMAIN writes'[s] = DOMAIN w[s]
         /\ \A f \in {"op", "on", "arg", "owner", "at", "version"} \cap DOMAIN w[s] : writes'[s][f] = w[s][f]
<1>1. /\ DOMAIN writes' = Slot
      /\ w[s].op = None => writes'[s] = w[s]
      /\ w[s].op # None =>
           \E a, b, c : writes'[s] = [w[s] EXCEPT !.home = a, !.here = b, !.last = c]
  BY DEF Show
<1> QED BY <1>1

LEMMA ShownHere ==
  ASSUME NEW r, NEW u, NEW given, NEW w, Show(r, u, given, w), NEW s \in Slot,
         w[s].op # None, "here" \in DOMAIN w[s], writes'[s].here
  PROVE  w[s].here /\ Instance(w[s].owner, route, ui, cache) =
               Instance(w[s].owner, r, Remounted(r, u, Opened(r, given)), Opened(r, given))
BY DEF Show

LEMMA SameFieldsOk ==
  ASSUME NEW n, UNCHANGED past, NEW v, WriteOk(v, n), NEW w, DOMAIN w = DOMAIN v,
         \A f \in {"op", "on", "arg", "owner", "at", "version"} : w[f] = v[f]
  PROVE  WriteOk(w, n)'
<1>1. /\ w.op = v.op /\ w.on = v.on /\ w.arg = v.arg /\ w.owner = v.owner /\ w.at = v.at
      /\ w.version = v.version
  OBVIOUS
<1> QED BY <1>1 DEF WriteOk, Explained, NoWrite, States, Op, ClientCall, TicketCall, Taken

\* Drawing the screen: the mutations in flight.
LEMMA ShowWrites ==
  ASSUME NEW n \in Nat, n = Now, UNCHANGED past,
         NEW r, NEW u, NEW given, NEW w, Show(r, u, given, w),
         SameLooks(r, Opened(r, given), cache'), DOMAIN w = Slot,
         \A s \in Slot : WriteOk(w[s], n) /\ AccessHere(w[s])
  PROVE  WritesInv(n)'
<1>1. route' = r BY DEF Show
<1>2. DOMAIN writes' = Slot BY DEF Show
<1>3. ASSUME NEW s \in Slot PROVE WriteOk(writes[s], n)'
  <2>1. WriteOk(w[s], n) OBVIOUS
  <2>2. {"op", "on", "arg", "owner", "at", "version"} \subseteq DOMAIN w[s] BY <2>1 DEF WriteOk, NoWrite
  <2>3. \A f \in {"op", "on", "arg", "owner", "at", "version"} : writes'[s][f] = w[s][f]
    BY <2>2, ShownWrite
  <2>4. PICK x : x = writes'[s] OBVIOUS
  <2>5. WriteOk(x, n)' BY <2>1, <2>3, <2>4, SameFieldsOk, ShownWrite
  <2> QED BY <2>4, <2>5
<1>4. ASSUME NEW s \in Slot PROVE AccessHere(writes[s])'
  <2> SUFFICES ASSUME writes'[s].op = "suspend", writes'[s].here
               PROVE  AccessShown(route, cache)'
    BY DEF AccessHere
  <2>1. WriteOk(w[s], n) /\ AccessHere(w[s]) OBVIOUS
  <2>2. {"op", "owner", "here"} \subseteq DOMAIN w[s] BY <2>1 DEF WriteOk, NoWrite
  <2>3. w[s].op = "suspend" BY <2>2, ShownWrite
  <2>4. w[s].op # None BY <2>3, NoneAssumption DEF Op, ClientCall
  <2>5. w[s].owner = "access" BY <2>1, <2>3 DEF WriteOk
  <2>6. w[s].here /\ Instance("access", route, ui, cache) =
               Instance("access", r, Remounted(r, u, Opened(r, given)), Opened(r, given))
    BY <2>2, <2>4, <2>5, ShownHere
  <2>7. AccessShown(route, cache) BY <2>1, <2>3, <2>6 DEF AccessHere
  <2>8. AccessShown(r, Opened(r, given)) BY <2>6, <2>7, AccessInstance, NoneAssumption
  <2>9. AccessShown(r, cache') BY <2>8, SameTab
  <2> QED BY <1>1, <2>9 DEF AccessShown, TabShown, Loaded
<1> QED BY <1>2, <1>3, <1>4 DEF WritesInv

---------------------------------------------------------------------------
(* The inductive invariant.                                                *)

Enough == CreatesUnderWay <= Cardinality(UnusedClients)
VisitOk == scene \in Scene /\ mock \in BOOLEAN /\ left \in 0..scene.effort
Cached(n) ==
  /\ Sound(cache, Watching, Watching, due, n)
  /\ DOMAIN due \subseteq DOMAIN cache /\ Debts(due, n)

PanelInv ==
  /\ HistoryOk /\ VisitOk /\ ScreenInv /\ Cached(Now) /\ WritesInv(Now) /\ Enough

Creating(w) == {s \in Slot : w[s].op = "create" /\ w[s].at = "sent"}

\* Creations under way never outnumber the ids left.
LEMMA CreatingIs == CreatesUnderWay = Cardinality(Creating(writes))
BY DEF CreatesUnderWay, Creating

LEMMA CreatingFinite ==
  ASSUME NEW w
  PROVE  IsFiniteSet(Creating(w)) /\ Cardinality(Creating(w)) \in Nat
BY SlotAssumption, FS_Subset, FS_CardinalityType DEF Creating

LEMMA UnusedFinite == IsFiniteSet(UnusedClients) /\ Cardinality(UnusedClients) \in Nat
BY SizesAssumption, FS_Subset, FS_CardinalityType DEF UnusedClients

LEMMA FewerCreating ==
  ASSUME Enough, UNCHANGED past, Creating(writes') \subseteq Creating(writes)
  PROVE  Enough'
<1>1. Cardinality(Creating(writes')) <= Cardinality(Creating(writes)) BY CreatingFinite, FS_Subset
<1>2. CreatesUnderWay' = Cardinality(Creating(writes')) BY DEF CreatesUnderWay, Creating
<1>3. UnusedClients' = UnusedClients BY DEF UnusedClients, Now
<1> QED BY <1>1, <1>2, <1>3, CreatingIs, CreatingFinite, UnusedFinite DEF Enough

\* Every step that draws the screen.
LEMMA ShowInv ==
  ASSUME PanelInv, UNCHANGED <<scene, mock, past>>, left' \in 0..scene.effort,
         NEW r \in Route, NEW u, UiOk(r, u), NEW given, NEW w, Show(r, u, given, w),
         RangeMoves(r, u, given),
         NEW V \in SUBSET Watching, Watching \cap After(r, u, given) \subseteq V,
         Sound(given, Watching, V, due', Now),
         DOMAIN due' \subseteq DOMAIN given, Debts(due', Now),
         DOMAIN w = Slot, \A s \in Slot : WriteOk(w[s], Now) /\ AccessHere(w[s]),
         Creating(w) \subseteq Creating(writes)
  PROVE  PanelInv'
<1>1. PICK n \in Nat : n = Now BY DEF PanelInv, HistoryOk
<1>2. Now' = Now BY DEF Now
<1>3. PICK debts : debts = due' OBVIOUS
<1>4. route \in Route /\ UiOk(route, ui) BY DEF PanelInv, ScreenInv
<1>5. /\ Sound(cache', Watching', Watching', debts, n)
      /\ DOMAIN given \subseteq DOMAIN cache'
      /\ SameLooks(r, Opened(r, given), cache')
  BY <1>1, <1>3, <1>4, ShowCache
<1>6. Cached(Now)' BY <1>1, <1>2, <1>3, <1>5 DEF Cached
<1>7. /\ DOMAIN Opened(r, given) = DOMAIN given
      /\ \A key \in DOMAIN given : Opened(r, given)[key].data = given[key].data
  <2>1. CacheOk(given, n) BY <1>1, <1>3 DEF Sound
  <2> QED BY <2>1, OpenedData
<1>8. ScreenInv'
  <2>1. CacheOk(given, n) /\ CacheOk(cache', n) BY <1>1, <1>5 DEF Sound
  <2> QED BY <1>1, <1>5, <1>7, <2>1, ShowScreen DEF PanelInv
<1>9. WritesInv(n)' BY <1>1, <1>5, ShowWrites
<1>10. Enough'
  <2>1. \A s \in Slot : {"op", "at"} \subseteq DOMAIN w[s] BY DEF WriteOk, NoWrite
  <2>2. \A s \in Slot : writes'[s].op = w[s].op /\ writes'[s].at = w[s].at BY <2>1, ShownWrite
  <2>3. Creating(writes') \subseteq Creating(writes) BY <2>2 DEF Creating
  <2> QED BY <2>3, FewerCreating DEF PanelInv
<1>11. HistoryOk' /\ VisitOk' BY <1>2 DEF PanelInv, HistoryOk, VisitOk
<1> QED BY <1>1, <1>2, <1>6, <1>8, <1>9, <1>10, <1>11 DEF PanelInv

LEMMA SpendLeft ==
  ASSUME VisitOk, Spend, UNCHANGED scene
  PROVE  left' \in 0..scene.effort
BY SceneAssumption DEF VisitOk, Spend

LEMMA WritesThere ==
  ASSUME PanelInv
  PROVE  DOMAIN writes = Slot /\ \A s \in Slot : WriteOk(writes[s], Now) /\ AccessHere(writes[s])
BY DEF PanelInv, WritesInv

\* The user does something to the screen alone, or goes to another page.
LEMMA MoveInv ==
  ASSUME PanelInv, UNCHANGED <<scene, mock, past, due>>, Spend,
         NEW r \in Route, NEW u, UiOk(r, u), RangeMoves(r, u, cache), Show(r, u, cache, writes)
  PROVE  PanelInv'
<1>1. /\ Sound(cache, Watching, Watching, due', Now)
      /\ DOMAIN due' \subseteq DOMAIN cache /\ Debts(due', Now)
  BY DEF PanelInv, Cached
<1>2. left' \in 0..scene.effort BY SpendLeft DEF PanelInv
<1>3. PICK V : V = Watching OBVIOUS
<1>4. PICK given, w : given = cache /\ w = writes OBVIOUS
<1> QED BY <1>1, <1>2, <1>3, <1>4, WritesThere, ShowInv
---------------------------------------------------------------------------
(* The screen stays as it is.                                              *)

LEMMA OlderSound ==
  ASSUME NEW n \in Nat, NEW m \in Nat, n <= m, NEW c, NEW W, NEW V, NEW debts,
         Sound(c, W, V, debts, n)
  PROVE  Sound(c, W, V, debts, m)
BY DEF Sound, CacheOk, EntryOk, Asked

LEMMA StillInv ==
  ASSUME PanelInv, UNCHANGED <<route, ui, cache, due>>, HistoryOk', Now <= Now', Grown
  PROVE  ScreenInv' /\ Cached(Now)' /\ Watching' = Watching
<1>1. PICK n \in Nat, m \in Nat : n = Now /\ m = Now' BY DEF PanelInv, HistoryOk
<1>2. PICK r, u, c : r = route /\ u = ui /\ c = cache OBVIOUS
<1>3. CacheOk(c, n) BY <1>1, <1>2 DEF PanelInv, Cached, Sound
<1>4. Watching' = Watching
  <2>1. Watching' = Watched(r, u, c)' BY <1>2, WatchingThen
  <2>2. Watched(r, u, c)' = Watched(r, u, c) BY <1>1, <1>3, WatchedStays
  <2> QED BY <1>2, <2>1, <2>2 DEF Watching
<1>5. ListData(cache)' = ListData(cache)
  BY <1>1, <1>2, <1>3, ListDataThen, ListDataStays
<1>6. ScreenInv'
  BY <1>5 DEF PanelInv, ScreenInv, RangeOk, RowsOf
<1>7. Sound(cache, Watching, Watching, due, m) BY <1>1, OlderSound DEF PanelInv, Cached
<1>8. Debts(due, m) BY <1>1 DEF PanelInv, Cached, Debts
<1>9. Cached(Now)' BY <1>1, <1>4, <1>7, <1>8 DEF PanelInv, Cached
<1> QED BY <1>4, <1>6, <1>9

LEMMA SameHistory ==
  ASSUME PanelInv, UNCHANGED past
  PROVE  HistoryOk' /\ Now' = Now /\ Now <= Now' /\ Grown
BY DEF PanelInv, HistoryOk, Now, Grown

LEMMA OlderWrite ==
  ASSUME Grown, NEW n \in Nat, n = Now, NEW m \in Nat, n <= m, NEW w, WriteOk(w, n)
  PROVE  WriteOk(w, m)'
<1>1. Explained(w) => Explained(w)'
  BY DEF WriteOk, Explained, Grown
<1> QED BY <1>1 DEF WriteOk, NoWrite, States, Op, ClientCall, TicketCall

---------------------------------------------------------------------------
(* What the user does to the screen alone.                                 *)

LEMMA TouchInv ==
  ASSUME PanelInv, NEW u, Touch(u), UiOk(route, u),
         route.page = "clients" /\ u.found = ui.found => RangeOk(route, u, ListData(cache))
  PROVE  PanelInv'
<1>1. /\ UNCHANGED <<scene, mock, past, due>> /\ Spend /\ Show(route, u, cache, writes)
      /\ route \in Route
  BY DEF Touch, PanelInv, ScreenInv
<1>2. PICK r : r = route OBVIOUS
<1>3. RangeMoves(r, u, cache) BY <1>2 DEF RangeMoves
<1> QED BY <1>1, <1>2, <1>3, MoveInv

LEMMA UiNow == ASSUME PanelInv PROVE route \in Route /\ UiOk(route, ui)
BY DEF PanelInv, ScreenInv

LEMMA SceneNow ==
  ASSUME PanelInv
  PROVE  /\ scene.routes \subseteq Route /\ \A found \in scene.finds : found \subseteq Client
         /\ \A w \in scene.others : w.op \in Op
BY SceneAssumption DEF PanelInv, VisitOk

LEMMA ClientsPageInv ==
  ASSUME PanelInv, ClientsPageStep
  PROVE  PanelInv'
<1> USE UiNow
<1>1. ASSUME NEW f \in {"all", "active", "trial", "paused"}, SetFilter(f) PROVE PanelInv'
  <2>1. PICK r : r = [route EXCEPT !.tab = f] OBVIOUS
  <2>2. PICK u : u = FreshTable(ui) OBVIOUS
  <2>3. r \in Route /\ r.page = "clients" /\ r.tab = f BY <1>1, <2>1 DEF SetFilter, Route, Tab
  <2>4. UiOk(r, u) BY <1>1, <2>2, <2>3, FreshTableOk DEF SetFilter, UiOk
  <2>5. RangeMoves(r, u, cache) BY <1>1, <2>3 DEF RangeMoves, SetFilter
  <2>6. Show(r, u, cache, writes) BY <1>1, <2>1, <2>2 DEF SetFilter, FreshTable
  <2> QED BY <1>1, <2>3, <2>4, <2>5, <2>6, MoveInv DEF SetFilter
<1>2. ASSUME NEW found \in scene.finds, Search(found) PROVE PanelInv'
  <2>1. PICK u : u = [ui EXCEPT !.found = found, !.index = 0] OBVIOUS
  <2>2. found \subseteq Client BY SceneNow
  <2>3. UiOk(route, u) /\ u.found = found BY <1>2, <2>1, <2>2 DEF Search, UiOk, FreshUi
  <2>4. found # ui.found /\ Touch(u) BY <1>2, <2>1 DEF Search
  <2> QED BY <2>3, <2>4, TouchInv
<1>3. CASE ShowAll
  <2>1. PICK r : r = At("clients") OBVIOUS
  <2>2. PICK u : u = [ui EXCEPT !.found = Client, !.index = 0] OBVIOUS
  <2>3. r \in Route /\ r.page = "clients" BY <2>1 DEF At, Route, Page, Tab
  <2>4. UiOk(r, u) /\ u.index = 0 BY <1>3, <2>2, <2>3 DEF ShowAll, OnList, UiOk, FreshUi
  <2>5. RangeMoves(r, u, cache) BY <2>3, <2>4, FirstPage DEF RangeMoves, UiOk
  <2>6. Show(r, u, cache, writes) BY <1>3, <2>1, <2>2 DEF ShowAll
  <2> QED BY <1>3, <2>3, <2>4, <2>5, <2>6, MoveInv DEF ShowAll
<1>4. ASSUME NEW size \in PageSize, SetSize(size) PROVE PanelInv'
  <2>1. PICK u : u = Resized(size) OBVIOUS
  <2>2. size \in Nat \ {0} BY SizesAssumption
  <2>3. UiOk(route, u) /\ u.index = 0 /\ route.page = "clients"
    BY <1>4, <2>1, <2>2 DEF SetSize, Resized, UiOk, FreshUi
  <2>4. RangeOk(route, u, ListData(cache)) BY <2>3, FirstPage DEF UiOk
  <2>5. Touch(u) BY <1>4, <2>1 DEF SetSize
  <2> QED BY <2>3, <2>4, <2>5, TouchInv
<1>5. CASE NextPage
  <2>1. PICK u : u = [ui EXCEPT !.index = @ + 1] OBVIOUS
  <2>2. /\ UiOk(route, u) /\ u.index = ui.index + 1 /\ u.size = ui.size /\ u.found = ui.found
        /\ route.page = "clients"
    BY <1>5, <2>1 DEF NextPage, UiOk, FreshUi
  <2>3. RowsOf(route, u, ListData(cache)) = Rows BY <2>2, RowsAre DEF RowsOf
  <2>4. RangeOk(route, u, ListData(cache)) BY <1>5, <2>2, <2>3 DEF NextPage, RangeOk
  <2>5. Touch(u) BY <1>5, <2>1 DEF NextPage
  <2> QED BY <2>2, <2>4, <2>5, TouchInv
<1>6. CASE PreviousPage
  <2>1. PICK u : u = [ui EXCEPT !.index = @ - 1] OBVIOUS
  <2>2. /\ UiOk(route, u) /\ u.index = ui.index - 1 /\ u.size = ui.size /\ u.found = ui.found
        /\ route.page = "clients"
    BY <1>6, <2>1 DEF PreviousPage, UiOk, FreshUi
  <2>3. RowsOf(route, u, ListData(cache)) = RowsOf(route, ui, ListData(cache)) BY <2>2 DEF RowsOf
  <2>4. RangeOk(route, ui, ListData(cache)) BY <2>2 DEF PanelInv, ScreenInv
  <2>5. RowsOf(route, ui, ListData(cache)) # {} => Cardinality(RowsOf(route, ui, ListData(cache))) \in Nat
    <3>1. RowsOf(route, ui, ListData(cache)) \subseteq Client BY <2>2 DEF RowsOf, UiOk
    <3> QED BY <3>1, SizesAssumption, FS_Subset, FS_CardinalityType
  <2>6. u.index * u.size <= ui.index * ui.size
    <3>1. ui.index \in Nat /\ ui.size \in Nat BY <2>2 DEF UiOk
    <3> QED BY <2>2, <3>1
  <2>7. RangeOk(route, u, ListData(cache))
    <3>1. PICK k \in Nat, i \in Nat : k = u.index * u.size /\ i = ui.index * ui.size
      <4>1. {u.index, u.size, ui.index, ui.size} \subseteq Nat BY <2>2 DEF UiOk
      <4> QED BY <4>1
    <3> QED BY <2>3, <2>4, <2>5, <2>6, <3>1 DEF RangeOk
  <2>8. Touch(u) BY <1>6, <2>1 DEF PreviousPage
  <2> QED BY <2>2, <2>7, <2>8, TouchInv
<1> QED BY <1>1, <1>2, <1>3, <1>4, <1>5, <1>6 DEF ClientsPageStep

LEMMA VisitInv ==
  ASSUME PanelInv, Spend, UNCHANGED <<scene, mock, past, due>>, NEW r \in Route, Visit(r)
  PROVE  PanelInv'
<1> USE UiNow
<1>1. PICK u : u = IF r.page = route.page /\ (r.page = "client" => r.tab = route.tab)
                    THEN ui ELSE FreshUi(r.page)
  OBVIOUS
<1>2. Show(r, u, cache, writes) BY <1>1 DEF Visit
<1>3. UiOk(r, u) /\ (u = ui \/ (r.page = "clients" => u.index = 0))
  <2>1. r.page \in Page BY DEF Route
  <2>2. CASE u = ui /\ r.page = route.page BY <2>2 DEF UiOk
  <2> QED BY <1>1, <2>1, <2>2, FreshUiOk
<1>4. RangeMoves(r, u, cache)
  <2>1. CASE r.page = "clients" /\ route.page = "clients"
    <3>1. u = ui BY <1>1, <2>1
    <3>2. ASSUME r.tab = route.tab PROVE RangeOk(r, u, ListData(cache))
      <4>1. RowsOf(r, u, ListData(cache)) = RowsOf(route, ui, ListData(cache)) BY <3>1, <3>2 DEF RowsOf
      <4> QED BY <2>1, <3>1, <4>1 DEF PanelInv, ScreenInv, RangeOk
    <3> QED BY <2>1, <3>2 DEF RangeMoves
  <2>2. CASE r.page = "clients" /\ route.page # "clients"
    <3>1. u.index = 0 BY <1>1, <2>2 DEF FreshUi
    <3> QED BY <2>2, <3>1 DEF RangeMoves
  <2> QED BY <2>1, <2>2 DEF RangeMoves
<1> QED BY <1>2, <1>3, <1>4, MoveInv

---------------------------------------------------------------------------
(* Calls.                                                                  *)

\* mutate(): a call takes a free slot.
LEMMA CallInv ==
  ASSUME PanelInv, NEW op \in Op, NEW on, NEW arg, NEW owner, NEW version \in -1..Now,
         MutateKnowing(op, on, arg, owner, version),
         op = "suspend" => on \in Client /\ owner = "access" /\ AccessShown(route, cache),
         op = "create" =>
           /\ CreatesUnderWay < Cardinality(UnusedClients)
           /\ version = -1 \/ (version > 0 /\ ~Taken(past[version], arg.email))
  PROVE  PanelInv'
<1>1. PICK s \in Slot :
        /\ Spend /\ writes[s].op = None
        /\ writes' = [writes EXCEPT ![s] =
             [op |-> op, on |-> on, arg |-> arg, owner |-> owner, at |-> "sent",
              here |-> TRUE, home |-> TRUE, last |-> on, version |-> version]]
        /\ UNCHANGED <<scene, mock, route, ui, cache, past, due>>
  BY DEF MutateKnowing
<1>2. PICK w : w = [op |-> op, on |-> on, arg |-> arg, owner |-> owner, at |-> "sent",
                    here |-> TRUE, home |-> TRUE, last |-> on, version |-> version]
  OBVIOUS
<1>3. PICK n \in Nat : n = Now /\ n > 0 BY DEF PanelInv, HistoryOk
<1>4. DOMAIN writes = Slot /\ \A x \in Slot : WriteOk(writes[x], n) /\ AccessHere(writes[x])
  BY <1>3, WritesThere
<1>5. DOMAIN writes' = Slot /\ writes'[s] = w /\ \A x \in Slot \ {s} : writes'[x] = writes[x]
  BY <1>1, <1>2, <1>4
<1>6. HistoryOk' /\ Now' = Now /\ Now <= Now' /\ Grown BY <1>1, SameHistory
<1>7. ScreenInv' /\ Cached(Now)' BY <1>1, <1>6, StillInv
<1>8. WriteOk(w, n)
  <2>1. w.at # "idle" /\ w.at = "sent" /\ w.op = op /\ w.on = on /\ w.owner = owner
        /\ w.version = version /\ w.arg = arg /\ DOMAIN w = DOMAIN NoWrite
    BY <1>2 DEF NoWrite
  <2> QED BY <1>3, <2>1 DEF WriteOk, States, Explained
<1>9. WritesInv(n)'
  <2>1. ASSUME NEW x \in Slot PROVE WriteOk(writes[x], n)'
    <3>1. PICK v : v = writes'[x] OBVIOUS
    <3>2. WriteOk(v, n) BY <1>4, <1>5, <1>8, <3>1
    <3>3. WriteOk(v, n)' BY <1>3, <1>6, <3>2, OlderWrite
    <3> QED BY <3>1, <3>3
  <2>2. ASSUME NEW x \in Slot PROVE AccessHere(writes[x])'
    <3>1. AccessShown(route, cache)' <=> AccessShown(route, cache)
      BY <1>1 DEF AccessShown, TabShown, Loaded
    <3>2. CASE x = s BY <1>2, <1>5, <3>1, <3>2 DEF AccessHere
    <3>3. CASE x # s BY <1>4, <1>5, <3>1, <3>3 DEF AccessHere
    <3> QED BY <3>2, <3>3
  <2> QED BY <1>5, <2>1, <2>2 DEF WritesInv
<1>10. Enough'
  <2>1. UnusedClients' = UnusedClients BY <1>1 DEF UnusedClients, Now
  <2>2. CreatesUnderWay' = Cardinality(Creating(writes')) BY DEF CreatesUnderWay, Creating
  <2>3. CASE op = "create"
    <3>1. Creating(writes') \subseteq Creating(writes) \cup {s} BY <1>5 DEF Creating
    <3>2. /\ IsFiniteSet(Creating(writes) \cup {s})
          /\ Cardinality(Creating(writes) \cup {s}) <= Cardinality(Creating(writes)) + 1
      BY CreatingFinite, FS_AddElement
    <3>3. Cardinality(Creating(writes')) <= Cardinality(Creating(writes) \cup {s})
      BY <3>1, <3>2, FS_Subset
    <3>4. Cardinality(Creating(writes) \cup {s}) \in Nat BY <3>2, FS_CardinalityType
    <3> QED BY <2>1, <2>2, <2>3, <3>2, <3>3, <3>4, CreatingIs, CreatingFinite, UnusedFinite DEF Enough
  <2>4. CASE op # "create"
    <3>1. Creating(writes') \subseteq Creating(writes) BY <1>2, <1>5, <2>4 DEF Creating
    <3> QED BY <1>1, <3>1, FewerCreating DEF PanelInv
  <2> QED BY <2>3, <2>4
<1>11. VisitOk' BY <1>1, SpendLeft DEF PanelInv, VisitOk
<1> QED BY <1>3, <1>6, <1>7, <1>9, <1>10, <1>11 DEF PanelInv

LEMMA PlainCallInv ==
  ASSUME PanelInv, NEW op \in Op \ {"create", "suspend"}, NEW on, NEW arg, NEW owner,
         Mutate(op, on, arg, owner)
  PROVE  PanelInv'
<1>1. 0 \in -1..Now BY DEF PanelInv, HistoryOk
<1> QED BY <1>1, CallInv DEF Mutate

\* The check of an email that lets the form be sent had an answer, or failed.
LEMMA CheckedEmail ==
  ASSUME PanelInv, Filling, ~HasErrors, ~CheckingEmail
  PROVE  LET version == IF Check.data = 0 /\ Check.error THEN -1 ELSE Check.data
         IN  /\ version \in -1..Now
             /\ version = -1 \/ (version > 0 /\ ~Taken(past[version], ui.email))
<1>1. PICK n \in Nat : n = Now BY DEF PanelInv, HistoryOk
<1>2. PICK key : key = EmailTaken(ui.email) OBVIOUS
<1>3. key \in Watching BY <1>2 DEF Watching, Watched, Filling, HasErrors
<1>4. /\ CacheOk(cache, n) /\ key \in DOMAIN cache
      /\ cache[key].data > 0 \/ cache[key].fetch # 0 \/ cache[key].error
  BY <1>1, <1>3 DEF PanelInv, Cached, Sound, Observed
<1>5. Check = cache[key] BY <1>2, <1>4 DEF Check, EntryOf
<1>6. EntryOk(Check, n) BY <1>4, <1>5 DEF CacheOk
<1>7. Check.data > 0 \/ (Check.data = 0 /\ Check.error) BY <1>4, <1>5, <1>6 DEF CheckingEmail, EntryOk
<1>8. Check.data > 0 => ~Taken(past[Check.data], ui.email)
  BY <1>2, <1>5 DEF HasErrors, CheckSaysTaken, View, ViewIn
<1> QED BY <1>1, <1>6, <1>7, <1>8 DEF EntryOk

LEMMA NewClientInv ==
  ASSUME PanelInv, NewClientStep
  PROVE  PanelInv'
<1> USE UiNow
<1>1. ASSUME NEW e \in Email \cup {None}, TypeClientEmail(e) PROVE PanelInv'
  <2>1. PICK u : u = [ui EXCEPT !.email = e] OBVIOUS
  <2>2. UiOk(route, u) /\ route.page # "clients" BY <1>1, <2>1 DEF TypeClientEmail, Filling, UiOk, FreshUi
  <2> QED BY <1>1, <2>1, <2>2, TouchInv DEF TypeClientEmail
<1>2. CASE FillIn
  <2>1. PICK u : u = [ui EXCEPT !.filled = TRUE] OBVIOUS
  <2>2. UiOk(route, u) /\ route.page # "clients" BY <1>2, <2>1 DEF FillIn, Filling, UiOk, FreshUi
  <2> QED BY <1>2, <2>1, <2>2, TouchInv DEF FillIn
<1>3. ASSUME NEW start, NEW days, ChooseStart(start, days) PROVE PanelInv'
  <2>1. PICK u : u = [ui EXCEPT !.start = start, !.days = days] OBVIOUS
  <2>2. UiOk(route, u) /\ route.page # "clients" BY <1>3, <2>1 DEF ChooseStart, Filling, UiOk, FreshUi
  <2> QED BY <1>3, <2>1, <2>2, TouchInv DEF ChooseStart
<1>4. CASE SubmitClient
  <2>1. PICK version : version = IF Check.data = 0 /\ Check.error THEN -1 ELSE Check.data OBVIOUS
  <2>2. PICK arg : arg = [email |-> ui.email, days |-> IF ui.start = "trial" THEN ui.days ELSE 0] OBVIOUS
  <2>3. /\ version \in -1..Now
        /\ version = -1 \/ (version > 0 /\ ~Taken(past[version], arg.email))
    BY <1>4, <2>1, <2>2, CheckedEmail DEF SubmitClient
  <2>4. MutateKnowing("create", None, arg, "page", version) BY <1>4, <2>1, <2>2 DEF SubmitClient
  <2>5. CreatesUnderWay < Cardinality(UnusedClients) BY <1>4 DEF SubmitClient
  <2>6. "create" \in Op BY DEF Op
  <2> QED BY <2>3, <2>4, <2>5, <2>6, CallInv
<1>5. CASE GoToClient
  <2>1. PICK r : r = ClientAt(ui.created, "overview") OBVIOUS
  <2>2. r \in Route BY <1>5, <2>1 DEF GoToClient, UiOk, ClientAt, Route, Page, Tab
  <2> QED BY <1>5, <2>1, <2>2, VisitInv DEF GoToClient
<1>6. CASE CreateAnother
  <2>1. PICK u : u = FreshUi("new") OBVIOUS
  <2>2. UiOk(route, u) /\ route.page # "clients" BY <1>6, <2>1, FreshUiOk DEF CreateAnother, Page
  <2> QED BY <1>6, <2>1, <2>2, TouchInv DEF CreateAnother
<1> QED BY <1>1, <1>2, <1>3, <1>4, <1>5, <1>6 DEF NewClientStep

LEMMA ClientPageInv ==
  ASSUME PanelInv, ClientPageStep
  PROVE  PanelInv'
<1> USE UiNow
<1>a. OnAccess => route.page = "client" /\ route.id \in Client
  BY DEF OnAccess, AccessShown, TabShown, Route
<1>b. ASSUME NEW u, Touch(u), route.page = "client", UiOk(route, u) PROVE PanelInv'
  BY <1>b, TouchInv
<1>1. CASE ToggleAccess
  <2>1. route.page = "client" /\ route.id \in Client BY <1>1 DEF ToggleAccess, TabShown, Route
  <2>2. CASE Paused
    <3>1. Mutate("resume", route.id, None, "page") BY <1>1, <2>2 DEF ToggleAccess
    <3>2. "resume" \in Op \ {"create", "suspend"} BY DEF Op, ClientCall
    <3> QED BY <3>1, <3>2, PlainCallInv
  <2>3. CASE ~Paused
    <3>1. PICK r : r = [ClientAt(route.id, "access") EXCEPT !.suspend = TRUE] OBVIOUS
    <3>2. r \in Route BY <2>1, <3>1 DEF ClientAt, Route, Page, Tab
    <3> QED BY <1>1, <2>3, <3>1, <3>2, VisitInv DEF ToggleAccess
  <2> QED BY <2>2, <2>3
<1>2. CASE OpenForm
  <2>1. PICK u : u = [ui EXCEPT !.form = TRUE] OBVIOUS
  <2> QED BY <1>2, <1>a, <1>b, <2>1 DEF OpenForm, UiOk, FreshUi
<1>3. CASE Resume
  <2>1. "resume" \in Op \ {"create", "suspend"} BY DEF Op, ClientCall
  <2> QED BY <1>3, <2>1, PlainCallInv DEF Resume
<1>4. CASE GiveReason
  <2>1. PICK u : u = [ui EXCEPT !.reason = TRUE] OBVIOUS
  <2> QED BY <1>4, <1>a, <1>b, <2>1 DEF GiveReason, Form, UiOk, FreshUi
<1>5. CASE Suspend
  <2>1. /\ AccessShown(route, cache) /\ route.id \in Client
        /\ MutateKnowing("suspend", route.id, None, "access", 0)
    BY <1>5, <1>a DEF Suspend, Form, OnAccess, Mutate
  <2>2. "suspend" \in Op /\ 0 \in -1..Now BY DEF Op, ClientCall, PanelInv, HistoryOk
  <2> QED BY <2>1, <2>2, CallInv
<1>6. CASE CancelForm
  <2>1. PICK r : r = ClientAt(route.id, "access") OBVIOUS
  <2>2. PICK u : u = Closed OBVIOUS
  <2>3. route.page = "client" /\ route.id \in Client BY <1>6, <1>a DEF CancelForm, Form
  <2>4. r \in Route /\ r.page = "client" BY <2>1, <2>3 DEF ClientAt, Route, Page, Tab
  <2>5. UiOk(r, u) BY <2>2, <2>3, <2>4 DEF Closed, UiOk, FreshUi
  <2>6. RangeMoves(r, u, cache) BY <2>4 DEF RangeMoves
  <2>7. Show(r, u, cache, writes) BY <1>6, <2>1, <2>2 DEF CancelForm
  <2> QED BY <1>6, <2>4, <2>5, <2>6, <2>7, MoveInv DEF CancelForm
<1>7. CASE IssueCode
  <2>1. "issue" \in Op \ {"create", "suspend"} BY DEF Op, ClientCall
  <2> QED BY <1>7, <2>1, PlainCallInv DEF IssueCode
<1>8. CASE AskDelete
  <2>1. PICK u : u = [ui EXCEPT !.confirm = TRUE, !.typed = None] OBVIOUS
  <2> QED BY <1>8, <1>a, <1>b, <2>1 DEF AskDelete, UiOk, FreshUi
<1>9. CASE CancelDelete
  <2>1. PICK u : u = [ui EXCEPT !.confirm = FALSE] OBVIOUS
  <2> QED BY <1>9, <1>a, <1>b, <2>1 DEF CancelDelete, UiOk, FreshUi
<1>10. ASSUME NEW c \in Client, TypeClientName(c) PROVE PanelInv'
  <2>1. PICK u : u = [ui EXCEPT !.typed = c] OBVIOUS
  <2> QED BY <1>10, <1>a, <1>b, <2>1 DEF TypeClientName, UiOk, FreshUi
<1>11. CASE DeleteClient
  <2>1. "delete" \in Op \ {"create", "suspend"} BY DEF Op
  <2> QED BY <1>11, <2>1, PlainCallInv DEF DeleteClient
<1> QED BY <1>1, <1>2, <1>3, <1>4, <1>5, <1>6, <1>7, <1>8, <1>9, <1>10, <1>11 DEF ClientPageStep

\* A thread is open on two pages only.
LEMMA ThreadPage ==
  ASSUME Thread # None
  PROVE  route.page \in {"client", "tickets"}
BY DEF Thread, OpenThread

LEMMA TicketInv ==
  ASSUME PanelInv, TicketStep
  PROVE  PanelInv'
<1> USE UiNow
<1>a. ASSUME NEW u, Touch(u), route.page \in {"client", "tickets"}, UiOk(route, u) PROVE PanelInv'
  BY <1>a, TouchInv
<1>b. ThreadShown => route.page \in {"client", "tickets"} BY ThreadPage DEF ThreadShown
<1>c. {"reply", "status", "assign", "priority"} \subseteq Op \ {"create", "suspend"} BY DEF Op, TicketCall
<1>1. ASSUME NEW status, NEW assignee, Filter(status, assignee) PROVE PanelInv'
  <2>1. PICK u : u = [ui EXCEPT !.status = status, !.assignee = assignee] OBVIOUS
  <2> QED BY <1>1, <1>a, <2>1 DEF Filter, UiOk, FreshUi
<1>2. ASSUME NEW t \in Ticket, OpenTicket(t) PROVE PanelInv'
  <2>1. PICK u : u = [ui EXCEPT !.open = t] OBVIOUS
  <2>2. route.page \in {"client", "tickets"} BY <1>2 DEF OpenTicket, Listed, OnTab
  <2> QED BY <1>2, <1>a, <2>1, <2>2 DEF OpenTicket, UiOk, FreshUi
<1>3. CASE BackToList
  <2>1. PICK u : u = [ui EXCEPT !.open = None] OBVIOUS
  <2> QED BY <1>3, <1>a, <1>b, <2>1 DEF BackToList, UiOk, FreshUi
<1>4. CASE WriteReply
  <2>1. PICK u : u = [ui EXCEPT !.reply = TRUE] OBVIOUS
  <2> QED BY <1>4, <1>a, <1>b, <2>1 DEF WriteReply, UiOk, FreshUi
<1>5. CASE SendReply BY <1>5, <1>c, PlainCallInv DEF SendReply
<1>6. CASE MarkResolved BY <1>6, <1>c, PlainCallInv DEF MarkResolved
<1>7. CASE AssignToSelf BY <1>7, <1>c, PlainCallInv DEF AssignToSelf
<1>8. ASSUME NEW p, SetPriority(p) PROVE PanelInv' BY <1>8, <1>c, PlainCallInv DEF SetPriority
<1> QED BY <1>1, <1>2, <1>3, <1>4, <1>5, <1>6, <1>7, <1>8 DEF TicketStep

LEMMA TeamInv ==
  ASSUME PanelInv, TeamStep
  PROVE  PanelInv'
<1> USE UiNow
<1>a. ASSUME NEW u, Touch(u), route.page = "team", UiOk(route, u) PROVE PanelInv'
  BY <1>a, TouchInv
<1>b. Chosen # None => route.page = "team" BY DEF Chosen, Selected
<1>c. {"role", "revoke", "invite"} \subseteq Op \ {"create", "suspend"} BY DEF Op
<1>1. ASSUME NEW m, SelectMember(m) PROVE PanelInv'
  <2>1. PICK u : u = [ui EXCEPT !.member = m] OBVIOUS
  <2> QED BY <1>1, <1>a, <2>1 DEF SelectMember, OnTeam, UiOk, FreshUi
<1>2. CASE CloseMember
  <2>1. PICK u : u = [ui EXCEPT !.member = None] OBVIOUS
  <2> QED BY <1>2, <1>a, <1>b, <2>1 DEF CloseMember, UiOk, FreshUi
<1>3. ASSUME NEW role, ChangeRole(role) PROVE PanelInv' BY <1>3, <1>c, PlainCallInv DEF ChangeRole
<1>4. CASE AskRevoke
  <2>1. PICK u : u = [ui EXCEPT !.revoke = TRUE] OBVIOUS
  <2> QED BY <1>4, <1>a, <1>b, <2>1 DEF AskRevoke, UiOk, FreshUi
<1>5. CASE CancelRevoke
  <2>1. PICK u : u = [ui EXCEPT !.revoke = FALSE, !.typed = None] OBVIOUS
  <2> QED BY <1>5, <1>a, <1>b, <2>1 DEF CancelRevoke, UiOk, FreshUi
<1>6. ASSUME NEW m, TypeMemberEmail(m) PROVE PanelInv'
  <2>1. PICK u : u = [ui EXCEPT !.typed = m] OBVIOUS
  <2> QED BY <1>6, <1>a, <1>b, <2>1 DEF TypeMemberEmail, UiOk, FreshUi
<1>7. CASE RevokeMember BY <1>7, <1>c, PlainCallInv DEF RevokeMember
<1>8. CASE OpenInvite
  <2>1. PICK u : u = [ui EXCEPT !.invite = TRUE] OBVIOUS
  <2> QED BY <1>8, <1>a, <2>1 DEF OpenInvite, OnTeam, UiOk, FreshUi
<1>9. CASE CloseInvite
  <2>1. PICK u : u = [ui EXCEPT !.invite = FALSE, !.email = None] OBVIOUS
  <2> QED BY <1>9, <1>a, <2>1 DEF CloseInvite, OnTeam, UiOk, FreshUi
<1>10. ASSUME NEW e, TypeInviteEmail(e) PROVE PanelInv'
  <2>1. PICK u : u = [ui EXCEPT !.email = e] OBVIOUS
  <2> QED BY <1>10, <1>a, <2>1 DEF TypeInviteEmail, OnTeam, UiOk, FreshUi
<1>11. CASE Invite BY <1>11, <1>c, PlainCallInv DEF Invite
<1>12. CASE DismissLink
  <2>1. PICK u : u = [ui EXCEPT !.sent = None] OBVIOUS
  <2> QED BY <1>12, <1>a, <2>1 DEF DismissLink, OnTeam, UiOk, FreshUi
<1> QED BY <1>1, <1>2, <1>3, <1>4, <1>5, <1>6, <1>7, <1>8, <1>9, <1>10, <1>11, <1>12 DEF TeamStep

LEMMA SettingsInv ==
  ASSUME PanelInv, SettingsStep
  PROVE  PanelInv'
<1> USE UiNow
<1>1. ASSUME NEW text, OnSettings, Touch([ui EXCEPT !.text = text, !.typed = text]) PROVE PanelInv'
  <2>1. PICK u : u = [ui EXCEPT !.text = text, !.typed = text] OBVIOUS
  <2>2. UiOk(route, u) /\ route.page # "clients" BY <1>1, <2>1 DEF OnSettings, UiOk, FreshUi
  <2> QED BY <1>1, <2>1, <2>2, TouchInv
<1>2. ASSUME NEW text, TypeText(text) PROVE PanelInv' BY <1>1, <1>2 DEF TypeText
<1>3. CASE RestoreDefault BY <1>1, <1>3 DEF RestoreDefault
<1>4. CASE SaveTemplate
  <2>1. "template" \in Op \ {"create", "suspend"} BY DEF Op
  <2> QED BY <1>4, <2>1, PlainCallInv DEF SaveTemplate
<1> QED BY <1>2, <1>3, <1>4 DEF SettingsStep

LEMMA JournalInv ==
  ASSUME PanelInv, JournalStep
  PROVE  PanelInv'
<1> USE UiNow
<1>1. PICK D : D = {None} \cup {t \div PerDay : t \in Moment} OBVIOUS
<1>2. PICK period \in {7, 30, 0}, from \in D, to \in D : SetPeriod(period, from, to)
  BY <1>1 DEF JournalStep
<1>3. PICK u : u = [ui EXCEPT !.period = period, !.from = from, !.to = to] OBVIOUS
<1>4. UiOk(route, u) /\ route.page # "clients" BY <1>1, <1>2, <1>3 DEF SetPeriod, OnJournal, UiOk, FreshUi
<1> QED BY <1>2, <1>3, <1>4, TouchInv DEF SetPeriod

---------------------------------------------------------------------------
(* Queries.                                                                *)

\* What the invariant says of the cache.
LEMMA CacheNow ==
  ASSUME PanelInv
  PROVE  /\ Now \in Nat \ {0} /\ Sound(cache, Watching, Watching, due, Now)
         /\ DOMAIN due \subseteq DOMAIN cache /\ Debts(due, Now)
         /\ \A key \in DOMAIN cache :
              EntryOk(cache[key], Now) /\ EntrySound(cache[key], key, Watching, Watching, due, Now)
<1>1. Now \in Nat \ {0} BY DEF PanelInv, HistoryOk
<1>2. Sound(cache, Watching, Watching, due, Now) /\ DOMAIN due \subseteq DOMAIN cache /\ Debts(due, Now)
  BY DEF PanelInv, Cached
<1>3. DOMAIN cache \subseteq Key /\ Watching \subseteq DOMAIN cache BY <1>2 DEF Sound, CacheOk, Observed
<1>4. \A key \in DOMAIN cache : EntrySound(cache[key], key, Watching, Watching, due, Now)
  BY <1>2, <1>3, SoundEntries
<1> QED BY <1>1, <1>2, <1>4 DEF EntrySound

\* A page that stays keeps its range.
LEMMA RangeStays ==
  ASSUME PanelInv, NEW r, r = route, NEW u, NEW c,
         route.page = "clients" => u.found = ui.found /\ u.index = ui.index /\ u.size = ui.size
  PROVE  RangeMoves(r, u, c)
<1> SUFFICES ASSUME r.page = "clients", ListData(c) = ListData(cache)
             PROVE  RangeOk(r, u, ListData(c))
  BY DEF RangeMoves
<1>1. RangeOk(route, ui, ListData(cache)) BY DEF PanelInv, ScreenInv
<1>2. RowsOf(r, u, ListData(c)) = RowsOf(route, ui, ListData(cache)) BY DEF RowsOf
<1> QED BY <1>1, <1>2 DEF RangeOk

\* One entry changes, and the screen is drawn.
LEMMA DrawInv ==
  ASSUME PanelInv, UNCHANGED <<scene, mock, past, due>>, left' \in 0..scene.effort,
         NEW u, UiOk(route, u), route.page = "clients" => u = ui,
         NEW d, DOMAIN d = DOMAIN cache, NEW key \in DOMAIN cache,
         \A k \in DOMAIN cache \ {key} : d[k] = cache[k],
         EntrySound(d[key], key, Watching, Watching, due, Now),
         Show(route, u, d, writes)
  PROVE  PanelInv'
<1>1. Sound(d, Watching, Watching, due', Now) BY CacheNow, OneEntry
<1>2. DOMAIN due' \subseteq DOMAIN d /\ Debts(due', Now) BY CacheNow
<1>3. PICK r \in Route : r = route BY UiNow
<1>4. RangeMoves(r, u, d) BY <1>3, RangeStays
<1>5. PICK V, w : V = Watching /\ w = writes OBVIOUS
<1> QED BY <1>1, <1>2, <1>3, <1>4, <1>5, WritesThere, ShowInv

\* The cache changes and nothing on screen does.
LEMMA QuietInv ==
  ASSUME PanelInv, UNCHANGED <<scene, mock, route, ui, writes, past, due>>,
         left' \in 0..scene.effort, DOMAIN cache' = DOMAIN cache,
         Sound(cache', Watching, Watching, due, Now), SameLooks(route, cache, cache')
  PROVE  PanelInv'
<1>1. Now' = Now /\ Now \in Nat /\ HistoryOk' BY CacheNow, SameHistory
<1>2. PICK n \in Nat : n = Now BY <1>1
<1>3. PICK r, u, c : r = route /\ u = ui /\ c = cache' OBVIOUS
<1>4. CacheOk(c, n) BY <1>2, <1>3 DEF Sound
<1>5. Grown BY SameHistory
<1>6. Watching' = Watching
  <2>1. Watching' = Watched(r, u, c)' BY <1>3, WatchingThen
  <2>2. Watched(r, u, c)' = Watched(r, u, c) BY <1>2, <1>4, <1>5, WatchedStays
  <2>3. Watched(r, u, c) = Watched(route, ui, cache) BY <1>3, SameWatched
  <2> QED BY <2>1, <2>2, <2>3 DEF Watching
<1>7. ListData(cache)' = ListData(cache)
  <2>1. ListData(cache)' = ListData(c)' BY <1>3, ListDataThen
  <2>2. ListData(c)' = ListData(c) BY <1>2, <1>4, <1>5, ListDataStays
  <2>3. ListData(c) = ListData(cache) BY <1>3, SameListData
  <2> QED BY <2>1, <2>2, <2>3
<1>8. ScreenInv' BY <1>7 DEF PanelInv, ScreenInv, RangeOk, RowsOf
<1>9. Cached(Now)' BY <1>1, <1>6, CacheNow DEF Cached
<1>10. WritesInv(n)'
  <2>1. AccessShown(route, cache') <=> AccessShown(route, cache) BY SameTab
  <2>2. AccessShown(route, cache)' <=> AccessShown(route, cache)
    BY <2>1 DEF AccessShown, TabShown, Loaded
  <2>3. ASSUME NEW s \in Slot PROVE WriteOk(writes[s], n)'
    <3>1. PICK w : w = writes[s] OBVIOUS
    <3>2. WriteOk(w, n)' BY <1>2, <1>5, <3>1, WritesThere, OlderWrite
    <3> QED BY <3>1, <3>2
  <2> QED BY <2>2, <2>3, WritesThere DEF WritesInv, AccessHere
<1>11. Enough' BY FewerCreating DEF PanelInv
<1>12. VisitOk' BY DEF PanelInv, VisitOk
<1> QED BY <1>1, <1>2, <1>8, <1>9, <1>10, <1>11, <1>12 DEF PanelInv

LEMMA LeftNow == ASSUME PanelInv, UNCHANGED left PROVE left' \in 0..scene.effort
BY DEF PanelInv, VisitOk

\* What becomes of the entry of a query.
Answered(e, n) == [e EXCEPT !.fetch = n]
Failed(e) == [e EXCEPT !.fetch = 0, !.error = TRUE]

LEMMA AnsweredSound ==
  ASSUME NEW n \in Nat \ {0}, NEW e, EntryOk(e, n), NEW key, NEW W, NEW debts, Debts(debts, n),
         EntrySound(e, key, W, W, debts, n), e.fetch = Asked
  PROVE  EntrySound(Answered(e, n), key, W, W, debts, n)
<1>1. PICK a : a = Answered(e, n) OBVIOUS
<1>2. EntryOk(a, n) /\ a.data = e.data /\ a.stale = e.stale /\ a.error = e.error /\ a.fetch = n
  BY <1>1 DEF EntryOk, Answered, Asked
<1>3. key \in W BY DEF EntrySound, Asked
<1>4. key \in DOMAIN debts => debts[key] \in 0..n BY DEF Debts
<1>5. Asked # 0 BY DEF Asked
<1>6. ASSUME key \in DOMAIN debts PROVE Owes(a, debts[key])
  BY <1>2, <1>4, <1>6 DEF EntrySound, Owes
<1> QED BY <1>1, <1>2, <1>3, <1>6 DEF EntrySound

LEMMA FailedSound ==
  ASSUME NEW n \in Nat, NEW e, EntryOk(e, n), NEW key, NEW W, NEW debts,
         EntrySound(e, key, W, W, debts, n)
  PROVE  EntrySound(Failed(e), key, W, W, debts, n)
<1>1. PICK a : a = Failed(e) OBVIOUS
<1>2. PICK f : f = [e EXCEPT !.fetch = 0] OBVIOUS
<1>3. EntryOk(f, n) /\ f.data = e.data /\ f.stale = e.stale /\ f.fetch = 0
  BY <1>2 DEF EntryOk, Asked
<1>4. a = [f EXCEPT !.error = TRUE] BY <1>1, <1>2 DEF Failed, EntryOk
<1>5. EntryOk(a, n) /\ a.data = e.data /\ a.stale = e.stale /\ a.fetch = 0 /\ a.error
  BY <1>3, <1>4 DEF EntryOk
<1> QED BY <1>1, <1>5 DEF EntrySound, Owes

LEMMA FilledSound ==
  ASSUME NEW n \in Nat, NEW e, EntryOk(e, n), NEW key, NEW W, NEW debts, Debts(debts, n),
         EntrySound(e, key, W, W, debts, n), e.fetch > 0
  PROVE  EntrySound(Filled(e), key, W, W, debts, n)
<1>1. PICK a : a = Filled(e) OBVIOUS
<1>2. EntryOk(a, n) /\ a.data = e.fetch /\ a.fetch = 0 BY <1>1 DEF EntryOk, Filled, Asked
<1>3. e.fetch \in Int BY DEF EntryOk, Asked
<1>4. key \in DOMAIN debts => debts[key] \in 0..n BY DEF Debts
<1> QED BY <1>1, <1>2, <1>3, <1>4 DEF EntrySound, Owes

LEMMA AskingSound ==
  ASSUME NEW n \in Nat, NEW e, EntryOk(e, n), NEW key, NEW W, key \in W, NEW debts,
         EntrySound(e, key, W, W, debts, n)
  PROVE  EntrySound(Asking(e), key, W, W, debts, n)
<1>1. PICK a : a = Asking(e) OBVIOUS
<1>2. EntryOk(a, n) /\ a.data = e.data /\ a.stale = e.stale /\ a.fetch = Asked
  BY <1>1, AskingOk, AskingEntry
<1> QED BY <1>1, <1>2 DEF EntrySound, Owes, Asked

LEMMA ToldSound ==
  ASSUME NEW n \in Nat, NEW e, EntryOk(e, n), NEW key, NEW W, NEW debts,
         EntrySound(e, key, W, W, debts, n)
  PROVE  EntrySound(Told(e), key, W, W, debts, n)
<1>1. PICK a : a = Told(e) OBVIOUS
<1>2. EntryOk(a, n) /\ a.data = e.data /\ a.stale /\ a.fetch = e.fetch /\ a.error = e.error
  BY <1>1, ToldEntry
<1> QED BY <1>1, <1>2 DEF EntrySound, Owes

\* The step of a query that is drawn.
LEMMA FailureInv ==
  ASSUME PanelInv, UNCHANGED <<scene, mock, past, due>>, left' \in 0..scene.effort,
         NEW key \in DOMAIN cache,
         Show(route, ui, [cache EXCEPT ![key].fetch = 0, ![key].error = TRUE], writes)
  PROVE  PanelInv'
<1>1. PICK d : d = [cache EXCEPT ![key].fetch = 0, ![key].error = TRUE] OBVIOUS
<1>2. DOMAIN d = DOMAIN cache /\ \A k \in DOMAIN cache \ {key} : d[k] = cache[k] BY <1>1
<1>3. d[key] = Failed(cache[key]) BY <1>1 DEF Failed
<1>4. EntrySound(d[key], key, Watching, Watching, due, Now) BY <1>3, CacheNow, FailedSound
<1>5. PICK u : u = ui OBVIOUS
<1> QED BY <1>1, <1>2, <1>4, <1>5, UiNow, DrawInv

LEMMA QueryInv ==
  ASSUME PanelInv, NEW key \in Key,
         AnswerQuery(key) \/ DeliverQuery(key) \/ FailQuery(key) \/ RetryQuery(key) \/ Age(key)
  PROVE  PanelInv'
<1>1. CASE AnswerQuery(key)
  <2>1. key \in DOMAIN cache /\ cache[key].fetch = Asked /\ UNCHANGED <<scene, mock, past, due>>
    BY <1>1 DEF AnswerQuery
  <2>2. left' \in 0..scene.effort BY <1>1, LeftNow DEF AnswerQuery
  <2>3. CASE Answers(key, Db)
    <3>1. cache' = [cache EXCEPT ![key].fetch = Now] /\ UNCHANGED <<route, ui, writes>>
      BY <1>1, <2>3 DEF AnswerQuery
    <3>2. DOMAIN cache' = DOMAIN cache /\ \A k \in DOMAIN cache \ {key} : cache'[k] = cache[k]
      BY <3>1
    <3>3. cache'[key] = Answered(cache[key], Now) BY <2>1, <3>1 DEF Answered
    <3>4. EntrySound(cache'[key], key, Watching, Watching, due, Now)
      BY <2>1, <3>3, CacheNow, AnsweredSound
    <3>5. PICK d : d = cache' OBVIOUS
    <3>6. Sound(d, Watching, Watching, due, Now) BY <2>1, <3>2, <3>4, <3>5, CacheNow, OneEntry
    <3>7. cache'[key].data = cache[key].data /\ cache'[key].error = cache[key].error
      BY <2>1, <3>3, CacheNow DEF Answered, EntryOk
    <3>8. SameLooks(route, cache, cache') BY <2>1, <3>2, <3>7 DEF SameLooks, EntryOf
    <3> QED BY <2>1, <2>2, <3>1, <3>2, <3>5, <3>6, <3>8, QuietInv
  <2>4. CASE ~Answers(key, Db)
    <3>1. Show(route, ui, [cache EXCEPT ![key].fetch = 0, ![key].error = TRUE], writes)
      BY <1>1, <2>4 DEF AnswerQuery
    <3> QED BY <2>1, <2>2, <3>1, FailureInv
  <2> QED BY <2>3, <2>4
<1>2. CASE DeliverQuery(key)
  <2>1. PICK d : d = [cache EXCEPT ![key] = Filled(@)] OBVIOUS
  <2>2. PICK u : u = ui OBVIOUS
  <2>3. /\ key \in DOMAIN cache /\ cache[key].fetch > 0 /\ Show(route, u, d, writes)
        /\ UNCHANGED <<scene, mock, past, due, left>>
    BY <1>2, <2>1, <2>2 DEF DeliverQuery
  <2>4. /\ DOMAIN d = DOMAIN cache /\ \A k \in DOMAIN cache \ {key} : d[k] = cache[k]
        /\ d[key] = Filled(cache[key])
    BY <2>1, <2>3
  <2>5. EntrySound(d[key], key, Watching, Watching, due, Now)
    BY <2>3, <2>4, CacheNow, FilledSound
  <2>6. left' \in 0..scene.effort BY <2>3, LeftNow
  <2> QED BY <2>2, <2>3, <2>4, <2>5, <2>6, UiNow, DrawInv
<1>3. CASE FailQuery(key)
  <2>1. left' \in 0..scene.effort BY <1>3, SpendLeft DEF FailQuery, PanelInv
  <2> QED BY <1>3, <2>1, FailureInv DEF FailQuery
<1>4. CASE RetryQuery(key)
  <2>1. PICK d : d = [cache EXCEPT ![key] = Asking(@)] OBVIOUS
  <2>2. /\ key \in DOMAIN cache \cap Watching /\ Show(route, ui, d, writes) /\ Spend
        /\ UNCHANGED <<scene, mock, past, due>>
    BY <1>4, <2>1 DEF RetryQuery, Watching
  <2>3. /\ DOMAIN d = DOMAIN cache /\ \A k \in DOMAIN cache \ {key} : d[k] = cache[k]
        /\ d[key] = Asking(cache[key])
    BY <2>1, <2>2
  <2>4. EntrySound(d[key], key, Watching, Watching, due, Now)
    BY <2>2, <2>3, CacheNow, AskingSound
  <2>5. left' \in 0..scene.effort BY <2>2, SpendLeft DEF PanelInv
  <2>6. PICK u : u = ui OBVIOUS
  <2> QED BY <2>2, <2>3, <2>4, <2>5, <2>6, UiNow, DrawInv
<1>5. CASE Age(key)
  <2>1. /\ Loaded(cache, key) /\ cache' = [cache EXCEPT ![key].stale = TRUE] /\ Spend
        /\ UNCHANGED <<scene, mock, route, ui, writes, past, due>>
    BY <1>5 DEF Age
  <2>2. key \in DOMAIN cache BY <2>1, LoadedIn
  <2>3. /\ DOMAIN cache' = DOMAIN cache /\ \A k \in DOMAIN cache \ {key} : cache'[k] = cache[k]
        /\ cache'[key] = Told(cache[key])
    BY <2>1, <2>2 DEF Told
  <2>4. EntrySound(cache'[key], key, Watching, Watching, due, Now)
    BY <2>2, <2>3, CacheNow, ToldSound
  <2>5. PICK d : d = cache' OBVIOUS
  <2>6. Sound(d, Watching, Watching, due, Now) BY <2>2, <2>3, <2>4, <2>5, CacheNow, OneEntry
  <2>7. cache'[key].data = cache[key].data /\ (cache'[key].error <=> cache[key].error)
    BY <2>2, <2>3, CacheNow, ToldEntry
  <2>8. SameLooks(route, cache, cache') BY <2>2, <2>3, <2>7 DEF SameLooks, EntryOf
  <2>9. left' \in 0..scene.effort BY <2>1, SpendLeft DEF PanelInv
  <2> QED BY <2>1, <2>3, <2>5, <2>6, <2>8, <2>9, QuietInv
<1> QED BY <1>1, <1>2, <1>3, <1>4, <1>5

---------------------------------------------------------------------------
(* The answers of calls.                                                   *)

LEMMA NoWriteOk ==
  ASSUME NEW n \in Nat
  PROVE  WriteOk(NoWrite, n) /\ AccessHere(NoWrite) /\ NoWrite.op # "create"
<1>1. NoWrite.op \notin {"create", "suspend"} /\ NoWrite.at = "idle"
  BY NoneAssumption DEF NoWrite, Op, ClientCall
<1> QED BY <1>1 DEF WriteOk, AccessHere, NoWrite, States

\* The debts of before that a success keeps.
OldDebts(s) == [key \in DOMAIN due \ Replaced(writes[s]) |-> due[key]]

LEMMA OldDebtsSound ==
  ASSUME PanelInv, NEW s \in Slot
  PROVE  Sound(cache, Watching, Watching, OldDebts(s), Now) /\ Debts(OldDebts(s), Now)
<1>1. PICK debts : debts = OldDebts(s) OBVIOUS
<1>2. DOMAIN debts \subseteq DOMAIN due /\ \A key \in DOMAIN debts : debts[key] = due[key]
  BY <1>1 DEF OldDebts
<1>3. Debts(debts, Now) BY <1>2, CacheNow DEF Debts
<1>4. Sound(cache, Watching, Watching, debts, Now) BY <1>2, CacheNow DEF Sound, Owing
<1> QED BY <1>1, <1>3, <1>4

LEMMA DoneVersion ==
  ASSUME PanelInv, NEW s \in Slot, writes[s].at = "done"
  PROVE  writes[s].version \in 1..Now
BY WritesThere, CacheNow DEF WriteOk

\* The debts after a success: older ones, or those it raises.
LEMMA DebtsThen ==
  ASSUME PanelInv, NEW s \in Slot, writes[s].at = "done",
         NEW slot, NEW r, NEW u, NEW c, NEW shows, Succeed(s, slot, r, u, c, shows)
  PROVE  /\ Debts(due', Now) /\ DOMAIN due' \subseteq DOMAIN c
         /\ \A key \in DOMAIN due' :
              /\ key \notin Replaced(writes[s])
              /\ \/ key \in DOMAIN OldDebts(s) /\ due'[key] = OldDebts(s)[key]
                 \/ key \in shows /\ due'[key] = writes[s].version
                      /\ ~Overtaken(key, writes[s].version)
<1>1. PICK n \in Nat, v \in Nat : n = Now /\ v = writes[s].version /\ v \in 1..n
  BY DoneVersion, CacheNow
<1>2. PICK K : K = {key \in shows \cap DOMAIN cache : ~Overtaken(key, v)} OBVIOUS
<1>3. PICK D : D = (DOMAIN due \cup K) \cap (DOMAIN c \ Replaced(writes[s])) OBVIOUS
<1>4. PICK old : old = [key \in D |-> IF key \in DOMAIN due THEN due[key] ELSE 0] OBVIOUS
<1>5. due' = [key \in D |-> IF key \in K /\ old[key] < v THEN v ELSE old[key]]
  <2>1. due' = Raised(due, K, v, DOMAIN c \ Replaced(writes[s])) BY <1>1, <1>2 DEF Succeed
  <2> QED BY <1>3, <1>4, <2>1 DEF Raised
<1>6. DOMAIN due' = D BY <1>5
<1>7. \A key \in D : old[key] \in 0..n
  <2>1. \A key \in DOMAIN due : due[key] \in 0..n BY <1>1, CacheNow DEF Debts
  <2> QED BY <1>1, <1>4, <2>1
<1>8. \A key \in D : due'[key] \in 0..n BY <1>1, <1>5, <1>7
<1>9. ASSUME NEW key \in D
      PROVE  \/ key \in DOMAIN OldDebts(s) /\ due'[key] = OldDebts(s)[key]
             \/ key \in shows /\ due'[key] = v /\ ~Overtaken(key, v)
  <2>1. CASE key \in K /\ old[key] < v BY <1>2, <1>5, <2>1
  <2>2. CASE ~(key \in K /\ old[key] < v)
    <3>1. due'[key] = old[key] BY <1>5, <2>2
    <3>2. key \in DOMAIN due
      <4> SUFFICES ASSUME key \notin DOMAIN due PROVE FALSE OBVIOUS
      <4>1. key \in K /\ old[key] = 0 BY <1>3, <1>4
      <4> QED BY <1>1, <2>2, <4>1
    <3>3. key \in DOMAIN OldDebts(s) /\ OldDebts(s)[key] = old[key]
      BY <1>3, <1>4, <3>2 DEF OldDebts
    <3> QED BY <3>1, <3>3
  <2> QED BY <2>1, <2>2
<1>10. Debts(due', Now) BY <1>1, <1>6, <1>8 DEF Debts
<1> QED BY <1>1, <1>3, <1>6, <1>9, <1>10

\* A success: the answer is put into the cache or entries leave it, which
\* gives "given", and the views it concerns are invalidated.
LEMMA SuccessInv ==
  ASSUME PanelInv, NEW s \in Slot, writes[s].at = "done",
         NEW slot, WriteOk(slot, Now), AccessHere(slot), slot.op = "create" => slot.at # "sent",
         NEW r \in Route, NEW u, UiOk(r, u),
         NEW V \in SUBSET Watching, NEW given, Sound(given, Watching, V, OldDebts(s), Now),
         \A key \in DOMAIN given \ Replaced(writes[s]) :
           key \in DOMAIN cache /\ given[key] = cache[key],
         NEW keys, NEW shows, shows \cap DOMAIN given \subseteq keys,
         NEW c, c = Invalidate(given, keys, Watching), Succeed(s, slot, r, u, c, shows),
         RangeMoves(r, u, c), Watching \cap After(r, u, c) \subseteq V
  PROVE  PanelInv'
<1>1. DOMAIN c = DOMAIN given BY InvalidateDomain
<1>2. PICK later : later = due' OBVIOUS
<1>3. Debts(later, Now) /\ DOMAIN later \subseteq DOMAIN c BY <1>2, DebtsThen
<1>4. \A key \in DOMAIN later \cap DOMAIN given :
        \/ key \in DOMAIN OldDebts(s) /\ later[key] = OldDebts(s)[key]
        \/ key \in keys /\ (given[key].data = 0 /\ given[key].fetch > 0 => given[key].fetch >= later[key])
  <2> SUFFICES ASSUME NEW key \in DOMAIN later \cap DOMAIN given,
                      ~(key \in DOMAIN OldDebts(s) /\ later[key] = OldDebts(s)[key])
               PROVE  /\ key \in keys
                      /\ given[key].data = 0 /\ given[key].fetch > 0 => given[key].fetch >= later[key]
    OBVIOUS
  <2>1. key \in DOMAIN due' /\ due'[key] = later[key] BY <1>2
  <2>2. key \notin Replaced(writes[s]) BY <2>1, DebtsThen
  <2>3. key \in shows /\ later[key] = writes[s].version /\ ~Overtaken(key, writes[s].version)
    BY <2>1, DebtsThen
  <2>4. key \in DOMAIN cache /\ given[key] = cache[key] BY <2>2
  <2>5. EntryOk(cache[key], Now) /\ writes[s].version \in 1..Now /\ Now \in Nat
    BY <2>4, CacheNow, DoneVersion
  <2> QED BY <2>3, <2>4, <2>5 DEF Overtaken, EntryOk, Asked
<1>5. PICK n \in Nat : n = Now BY CacheNow
<1>6. PICK debts : debts = OldDebts(s) OBVIOUS
<1>7. Sound(c, Watching, V, later, n)
  <2>1. Sound(given, Watching, V, debts, n) /\ Debts(later, n) BY <1>3, <1>5, <1>6
  <2>2. Payable(later, given, debts, keys) BY <1>4, <1>6 DEF Payable
  <2>3. PICK W : W = Watching OBVIOUS
  <2>4. Sound(given, W, V, debts, n) /\ c = Invalidate(given, keys, W) /\ V \in SUBSET W BY <2>1, <2>3
  <2>5. Sound(c, W, V, later, n) BY <2>1, <2>2, <2>4, InvalidateKeeps
  <2> QED BY <2>3, <2>5
<1>8. PICK w : w = [writes EXCEPT ![s] = slot] OBVIOUS
<1>9. /\ DOMAIN w = Slot /\ \A x \in Slot : WriteOk(w[x], Now) /\ AccessHere(w[x])
      /\ Creating(w) \subseteq Creating(writes)
  <2>1. DOMAIN w = Slot /\ w[s] = slot /\ \A x \in Slot \ {s} : w[x] = writes[x]
    BY <1>8, WritesThere
  <2>2. \A x \in Slot : WriteOk(w[x], Now) /\ AccessHere(w[x]) BY <2>1, WritesThere
  <2> QED BY <2>1, <2>2 DEF Creating
<1>10. Show(r, u, c, w) /\ UNCHANGED <<scene, mock, past, left>> BY <1>8 DEF Succeed
<1>11. left' \in 0..scene.effort BY <1>10, LeftNow
<1> QED BY <1>2, <1>3, <1>5, <1>7, <1>9, <1>10, <1>11, ShowInv
---------------------------------------------------------------------------
\* A step that touches nothing the properties depend on.
Plain == {"found", "index", "size", "created", "open", "text", "period", "from", "to"}

LEMMA PlainUi ==
  ASSUME NEW r, NEW u, UiOk(r, u), NEW v, DOMAIN v = DOMAIN u,
         \A f \in Plain \cap DOMAIN u : v[f] = u[f],
         "email" \in DOMAIN u => v.email \in {u.email, None},
         "typed" \in DOMAIN u => v.typed \in {u.typed, None}
  PROVE  /\ UiOk(r, v)
         /\ r.page = "clients" => v.found = u.found /\ v.index = u.index /\ v.size = u.size
<1>1. DOMAIN u = DOMAIN FreshUi(r.page) BY DEF UiOk
<1>2. CASE r.page = "clients" BY <1>1, <1>2 DEF UiOk, FreshUi, Plain
<1>3. CASE r.page = "new" BY <1>1, <1>3 DEF UiOk, FreshUi, Plain
<1>4. CASE r.page = "client" BY <1>1, <1>4 DEF UiOk, FreshUi, Plain
<1>5. CASE r.page = "tickets" BY <1>1, <1>5 DEF UiOk, FreshUi, Plain
<1>6. CASE r.page = "settings" BY <1>1, <1>6 DEF UiOk, FreshUi, Plain
<1>7. CASE r.page = "journal" BY <1>1, <1>7 DEF UiOk, FreshUi, Plain
<1>8. CASE r.page \notin {"clients", "new", "client", "tickets", "settings", "journal"}
  BY <1>1, <1>8 DEF UiOk
<1> QED BY <1>2, <1>3, <1>4, <1>5, <1>6, <1>7, <1>8

\* The answer leaves the user on the page, and only invalidates.
LEMMA TellInv ==
  ASSUME PanelInv, NEW s \in Slot, writes[s].at = "done", writes[s].op # "create",
         NEW slot, WriteOk(slot, Now), AccessHere(slot), slot.op # "create",
         NEW u, UiOk(route, u),
         route.page = "clients" => u.found = ui.found /\ u.index = ui.index /\ u.size = ui.size,
         NEW keys, NEW shows, shows \cap DOMAIN cache \subseteq keys,
         Succeed(s, slot, route, u, Invalidate(cache, keys, Watching), shows)
  PROVE  PanelInv'
<1>1. PICK c : c = Invalidate(cache, keys, Watching) OBVIOUS
<1>2. PICK r \in Route : r = route BY UiNow
<1>3. RangeMoves(r, u, c) BY <1>2, RangeStays
<1>4. Replaced(writes[s]) = {} BY DEF Replaced
<1>5. PICK given, V : given = cache /\ V = Watching OBVIOUS
<1>6. Watching \cap After(r, u, c) \subseteq V BY <1>5
<1>7. Sound(given, Watching, V, OldDebts(s), Now) BY <1>5, OldDebtsSound
<1> QED BY <1>1, <1>2, <1>3, <1>4, <1>5, <1>6, <1>7, SuccessInv

\* What the hooks invalidate covers what the call concerns.
LEMMA SectionHas ==
  ASSUME NEW c, NEW keys
  PROVE  {ClientList, ClientDetail(c), ClientJournal(c)} \cap keys \subseteq Section(keys)
<1>1. \A key \in {ClientList, ClientDetail(c), ClientJournal(c)} : IsPrefix(<<"clients">>, key)
  BY DEF IsPrefix, ClientList, ClientDetail, ClientJournal
<1> QED BY <1>1 DEF Section, Under

LEMMA TicketSectionHas ==
  ASSUME NEW t
  PROVE  {TicketList, TicketDetail(t)} \cap DOMAIN cache \subseteq TicketSection
<1>1. \A key \in {TicketList, TicketDetail(t)} : IsPrefix(<<"tickets">>, key)
  BY DEF IsPrefix, TicketList, TicketDetail
<1> QED BY <1>1 DEF TicketSection, Under

LEMMA DoneWrite ==
  ASSUME PanelInv, NEW s \in Slot, writes[s].at = "done", writes[s].op # "create"
  PROVE  /\ WriteOk([writes[s] EXCEPT !.at = "settling"], Now)
         /\ AccessHere([writes[s] EXCEPT !.at = "settling"])
         /\ [writes[s] EXCEPT !.at = "settling"].op # "create"
<1>1. PICK w : w = [writes[s] EXCEPT !.at = "settling"] OBVIOUS
<1>2. WriteOk(writes[s], Now) /\ AccessHere(writes[s]) BY WritesThere
<1>3. DOMAIN w = DOMAIN NoWrite BY <1>1, <1>2 DEF WriteOk
<1>4. /\ w.at = "settling" /\ w.op = writes[s].op /\ w.on = writes[s].on /\ w.version = writes[s].version
      /\ w.owner = writes[s].owner /\ w.here = writes[s].here
  BY <1>1, <1>2 DEF WriteOk, NoWrite
<1>5. WriteOk(w, Now) BY <1>2, <1>3, <1>4 DEF WriteOk, States
<1>6. AccessHere(w) BY <1>2, <1>4 DEF AccessHere
<1> QED BY <1>1, <1>4, <1>5, <1>6

LEMMA DeliverAccessInv ==
  ASSUME PanelInv, NEW s \in Slot, DeliverAccess(s)
  PROVE  PanelInv'
<1>1. PICK slot : slot = [writes[s] EXCEPT !.at = "settling"] OBVIOUS
<1>2. PICK shows : shows = {ClientList, ClientDetail(writes[s].on), ClientJournal(writes[s].on)} OBVIOUS
<1>3. PICK keys : keys = Section(DOMAIN cache) OBVIOUS
<1>4. /\ writes[s].at = "done" /\ writes[s].op # "create"
      /\ Succeed(s, slot, route, ui, Invalidate(cache, keys, Watching), shows)
  BY <1>1, <1>2, <1>3 DEF DeliverAccess, ClientCall
<1>5. WriteOk(slot, Now) /\ AccessHere(slot) /\ slot.op # "create" BY <1>1, <1>4, DoneWrite
<1>6. shows \cap DOMAIN cache \subseteq keys BY <1>2, <1>3, SectionHas
<1>7. PICK u : u = ui OBVIOUS
<1> QED BY <1>4, <1>5, <1>6, <1>7, UiNow, TellInv

LEMMA ToldEnds ==
  ASSUME PanelInv, NEW s \in Slot, writes[s].at = "done", writes[s].op # "create",
         NEW u, DOMAIN u = DOMAIN ui, \A f \in Plain \cap DOMAIN ui : u[f] = ui[f],
         "email" \in DOMAIN ui => u.email \in {ui.email, None},
         "typed" \in DOMAIN ui => u.typed \in {ui.typed, None},
         NEW keys, NEW shows, shows \cap DOMAIN cache \subseteq keys,
         Succeed(s, NoWrite, route, u, Invalidate(cache, keys, Watching), shows)
  PROVE  PanelInv'
<1>1. PICK slot : slot = NoWrite OBVIOUS
<1>2. WriteOk(slot, Now) /\ AccessHere(slot) /\ slot.op # "create" BY <1>1, CacheNow, NoWriteOk
<1>3. PICK r : r = route OBVIOUS
<1>4. UiOk(r, ui) BY <1>3, UiNow
<1>5. PICK v : v = ui OBVIOUS
<1>6. /\ UiOk(route, u)
      /\ route.page = "clients" => u.found = ui.found /\ u.index = ui.index /\ u.size = ui.size
  BY <1>3, <1>4, <1>5, PlainUi
<1> QED BY <1>1, <1>2, <1>6, TellInv

LEMMA DeliverTicketInv ==
  ASSUME PanelInv, NEW s \in Slot, DeliverTicket(s)
  PROVE  PanelInv'
<1>1. PICK w : w = writes[s] OBVIOUS
<1>2. PICK u : u = IF w.op = "reply" /\ w.here THEN [ui EXCEPT !.reply = FALSE] ELSE ui OBVIOUS
<1>3. PICK keys : keys = IF w.owner = "tab" THEN {ClientTickets(w.arg)} ELSE TicketSection OBVIOUS
<1>4. PICK shows : shows = IF w.owner = "tab" THEN {ClientTickets(w.arg)}
                           ELSE {TicketList, TicketDetail(w.on)}
  OBVIOUS
<1>5. /\ writes[s].at = "done" /\ writes[s].op # "create"
      /\ Succeed(s, NoWrite, route, u, Invalidate(cache, keys, Watching), shows)
  BY <1>1, <1>2, <1>3, <1>4 DEF DeliverTicket, TicketCall
<1>6. shows \cap DOMAIN cache \subseteq keys BY <1>3, <1>4, TicketSectionHas
<1>7. /\ DOMAIN u = DOMAIN ui /\ \A f \in Plain \cap DOMAIN ui : u[f] = ui[f]
      /\ "email" \in DOMAIN ui => u.email \in {ui.email, None}
      /\ "typed" \in DOMAIN ui => u.typed \in {ui.typed, None}
  BY <1>2 DEF Plain
<1> QED BY <1>5, <1>6, <1>7, ToldEnds

LEMMA DeliverTeamInv ==
  ASSUME PanelInv, NEW s \in Slot, DeliverTeam(s)
  PROVE  PanelInv'
<1>1. PICK w : w = writes[s] OBVIOUS
<1>2. PICK u : u = CASE w.op = "revoke" /\ w.home ->
                          [ui EXCEPT !.member = None, !.revoke = FALSE, !.typed = None]
                     [] w.op = "invite" /\ w.here ->
                          [ui EXCEPT !.invite = FALSE, !.email = None, !.sent = w.arg]
                     [] OTHER -> ui
  OBVIOUS
<1>3. /\ writes[s].at = "done" /\ writes[s].op # "create"
      /\ Succeed(s, NoWrite, route, u, Invalidate(cache, TeamKeys, Watching), TeamKeys)
  BY <1>1, <1>2 DEF DeliverTeam
<1>4. u \in {ui, [ui EXCEPT !.member = None, !.revoke = FALSE, !.typed = None],
             [ui EXCEPT !.invite = FALSE, !.email = None, !.sent = w.arg]}
  BY <1>2
<1>5. /\ DOMAIN u = DOMAIN ui /\ \A f \in Plain \cap DOMAIN ui : u[f] = ui[f]
      /\ "email" \in DOMAIN ui => u.email \in {ui.email, None}
      /\ "typed" \in DOMAIN ui => u.typed \in {ui.typed, None}
  <2>1. CASE u = ui BY <2>1
  <2>2. CASE u = [ui EXCEPT !.member = None, !.revoke = FALSE, !.typed = None]
    <3>1. DOMAIN u = DOMAIN ui BY <2>2
    <3>2. \A f \in DOMAIN ui \ {"member", "revoke", "typed"} : u[f] = ui[f] BY <2>2
    <3>3. "typed" \in DOMAIN ui => u.typed = None BY <2>2
    <3> QED BY <3>1, <3>2, <3>3 DEF Plain
  <2>3. CASE u = [ui EXCEPT !.invite = FALSE, !.email = None, !.sent = w.arg]
    <3>1. DOMAIN u = DOMAIN ui BY <2>3
    <3>2. \A f \in DOMAIN ui \ {"invite", "email", "sent"} : u[f] = ui[f] BY <2>3
    <3>3. "email" \in DOMAIN ui => u.email = None BY <2>3
    <3> QED BY <3>1, <3>2, <3>3 DEF Plain
  <2> QED BY <1>4, <2>1, <2>2, <2>3
<1> QED BY <1>3, <1>5, ToldEnds

LEMMA DeliverSavedInv ==
  ASSUME PanelInv, NEW s \in Slot, DeliverSaved(s)
  PROVE  PanelInv'
<1>1. PICK u, keys : u = ui /\ keys = {Settings} OBVIOUS
<1>2. /\ writes[s].at = "done" /\ writes[s].op # "create"
      /\ Succeed(s, NoWrite, route, u, Invalidate(cache, keys, Watching), keys)
  BY <1>1 DEF DeliverSaved
<1> QED BY <1>1, <1>2, ToldEnds

LEMMA DeliverCreatedInv ==
  ASSUME PanelInv, NEW s \in Slot, DeliverCreated(s)
  PROVE  PanelInv'
<1>1. PICK w : w = writes[s] OBVIOUS
<1>2. PICK slot, shows, V : slot = NoWrite /\ shows = {ClientList} /\ V = Watching OBVIOUS
<1>3. PICK u : u = IF w.here THEN [ui EXCEPT !.created = w.on] ELSE ui OBVIOUS
<1>4. PICK given : given = Put(cache, ClientDetail(w.on), w.version) OBVIOUS
<1>5. PICK c : c = Invalidate(given, shows, Watching) OBVIOUS
<1>6. PICK r \in Route : r = route BY UiNow
<1>7. w.op = "create" /\ w.at = "done" /\ Succeed(s, slot, r, u, c, shows)
  BY <1>1, <1>2, <1>3, <1>4, <1>5, <1>6 DEF DeliverCreated
<1>8. w.on \in Client BY <1>1, <1>7, WritesThere DEF WriteOk
<1>9. UiOk(r, u) /\ (r.page = "clients" => u.found = ui.found /\ u.index = ui.index /\ u.size = ui.size)
  <2>1. UiOk(r, ui) BY <1>6, UiNow
  <2>2. CASE u = ui BY <2>1, <2>2
  <2>3. CASE u = [ui EXCEPT !.created = w.on]
    <3>1. CASE r.page = "new" BY <1>8, <2>1, <2>3, <3>1 DEF UiOk, FreshUi
    <3>2. CASE r.page # "new"
      <4>1. "created" \notin DOMAIN ui BY <2>1, <3>2 DEF UiOk, FreshUi
      <4>2. DOMAIN u = DOMAIN ui /\ \A f \in DOMAIN ui : u[f] = ui[f] BY <2>3, <4>1
      <4>3. PICK v : v = ui OBVIOUS
      <4>4. /\ "email" \in DOMAIN v => u.email \in {v.email, None}
            /\ "typed" \in DOMAIN v => u.typed \in {v.typed, None}
        BY <4>2, <4>3
      <4> QED BY <2>1, <4>2, <4>3, <4>4, PlainUi
    <3> QED BY <3>1, <3>2
  <2> QED BY <1>3, <2>2, <2>3
<1>10. PICK n \in Nat : n = Now BY CacheNow
<1>11. PICK debts : debts = OldDebts(s) OBVIOUS
<1>12. PICK key : key = ClientDetail(w.on) OBVIOUS
<1>13. Replaced(writes[s]) = {key} BY <1>1, <1>7, <1>12 DEF Replaced
<1>14. key \in Key \ DOMAIN debts BY <1>8, <1>11, <1>12, <1>13, KeysIn DEF OldDebts
<1>15. w.version \in 1..n BY <1>1, <1>7, <1>10, DoneVersion
<1>16. Sound(cache, Watching, V, debts, n) BY <1>2, <1>10, <1>11, OldDebtsSound
<1>17. /\ DOMAIN given = DOMAIN cache \cup {key} /\ Sound(given, Watching, V, debts, n)
       /\ \A k \in DOMAIN cache \ {key} : given[k] = cache[k]
  BY <1>4, <1>12, <1>14, <1>15, <1>16, PutKeeps
<1>18. \A k \in DOMAIN given \ Replaced(writes[s]) :
         k \in DOMAIN cache /\ given[k] = cache[k]
  BY <1>13, <1>17
<1>19. RangeMoves(r, u, c) BY <1>6, <1>9, RangeStays
<1>20. WriteOk(slot, Now) /\ AccessHere(slot) /\ slot.op # "create" BY <1>2, CacheNow, NoWriteOk
<1>21. V \in SUBSET Watching /\ Watching \cap After(r, u, c) \subseteq V BY <1>2
<1>22. shows \cap DOMAIN given \subseteq shows OBVIOUS
<1>23. writes[s].at = "done" /\ Sound(given, Watching, V, OldDebts(s), Now)
  BY <1>1, <1>7, <1>10, <1>11, <1>17
<1> QED BY <1>5, <1>7, <1>9, <1>18, <1>19, <1>20, <1>21, <1>22, <1>23, SuccessInv

LEMMA DeliverDeletedInv ==
  ASSUME PanelInv, NEW s \in Slot, DeliverDeleted(s)
  PROVE  PanelInv'
<1>1. PICK w : w = writes[s] OBVIOUS
<1>2. PICK slot, shows : slot = NoWrite /\ shows = {ClientList} OBVIOUS
<1>3. PICK u : u = IF route.page = "clients" THEN ui ELSE FreshUi("clients") OBVIOUS
<1>4. PICK id : id = w.last OBVIOUS
<1>5. PICK its : its = {ClientDetail(id), ClientTickets(id), ClientJournal(id)} OBVIOUS
<1>6. PICK given : given = Without(cache, its) OBVIOUS
<1>7. PICK c : c = Invalidate(given, shows, Watching) OBVIOUS
<1>8. PICK r : r = At("clients") OBVIOUS
<1>9. w.op = "delete" /\ w.at = "done" /\ Succeed(s, slot, r, u, c, shows)
  BY <1>1, <1>2, <1>3, <1>4, <1>5, <1>6, <1>7, <1>8 DEF DeliverDeleted, Forgotten
<1>10. r \in Route /\ r.page = "clients" /\ r.tab = "all" BY <1>8 DEF At, Route, Page, Tab
<1>11. UiOk(r, u) /\ (route.page = "clients" => u = ui) /\ (route.page # "clients" => u.index = 0)
  <2>1. CASE route.page = "clients" BY <1>3, <1>10, <2>1, UiNow DEF UiOk
  <2>2. CASE route.page # "clients" BY <1>3, <1>10, <2>2, FreshUiOk DEF Page
  <2> QED BY <2>1, <2>2
<1>12. RangeMoves(r, u, c)
  <2>1. CASE route.page = "clients" /\ r.tab = route.tab /\ ListData(c) = ListData(cache)
    <3>1. RangeOk(route, ui, ListData(cache)) BY <2>1 DEF PanelInv, ScreenInv
    <3>2. u = ui BY <1>11, <2>1
    <3>3. RowsOf(r, u, ListData(c)) = RowsOf(route, ui, ListData(cache)) BY <2>1, <3>2 DEF RowsOf
    <3>4. RangeOk(r, u, ListData(c)) BY <3>1, <3>2, <3>3 DEF RangeOk
    <3> QED BY <2>1, <3>4 DEF RangeMoves
  <2>2. CASE ~(route.page = "clients" /\ r.tab = route.tab /\ ListData(c) = ListData(cache))
    BY <1>11, <2>2 DEF RangeMoves
  <2> QED BY <2>1, <2>2
<1>13. PICK n \in Nat : n = Now BY CacheNow
<1>14. PICK debts : debts = OldDebts(s) OBVIOUS
<1>15. Sound(cache, Watching, Watching, debts, n) BY <1>13, <1>14, OldDebtsSound
<1>16. PICK V : V = Watching \ its OBVIOUS
<1>17. /\ Sound(given, Watching, V, debts, n) /\ DOMAIN given = DOMAIN cache \ its
       /\ \A k \in DOMAIN given : given[k] = cache[k]
  <2>1. Sound(given, Watching, V, debts, n) BY <1>6, <1>15, <1>16, WithoutKeeps
  <2>2. DOMAIN given = DOMAIN cache \ its /\ \A k \in DOMAIN given : given[k] = cache[k]
    BY <1>6 DEF Without
  <2> QED BY <2>1, <2>2
<1>18. \A k \in DOMAIN given \ Replaced(writes[s]) :
         k \in DOMAIN cache /\ given[k] = cache[k]
  BY <1>17
<1>19. Watching \cap After(r, u, c) \subseteq V
  <2>1. After(r, u, c) = {TicketList, ClientList} BY <1>10 DEF After, Watched
  <2>2. TicketList \notin its /\ ClientList \notin its
    <3>1. Len(TicketList) = 1 /\ Len(ClientList) = 2 /\ \A k \in its : Len(k) = 3
      BY <1>5 DEF TicketList, ClientList, ClientDetail, ClientTickets, ClientJournal
    <3> QED BY <3>1
  <2> QED BY <1>16, <2>1, <2>2
<1>20. WriteOk(slot, Now) /\ AccessHere(slot) /\ slot.op # "create" BY <1>2, CacheNow, NoWriteOk
<1>21. V \in SUBSET Watching BY <1>16
<1>22. shows \cap DOMAIN given \subseteq shows OBVIOUS
<1>23. writes[s].at = "done" /\ Sound(given, Watching, V, OldDebts(s), Now)
  BY <1>1, <1>9, <1>13, <1>14, <1>17
<1> QED BY <1>7, <1>9, <1>10, <1>11, <1>12, <1>18, <1>19, <1>20, <1>21, <1>22, <1>23, SuccessInv

LEMMA SettleAccessInv ==
  ASSUME PanelInv, NEW s \in Slot, SettleAccess(s)
  PROVE  PanelInv'
<1>1. PICK closes : closes = (writes[s].op = "suspend" /\ writes[s].here) OBVIOUS
<1>2. PICK r : r = IF closes THEN ClientAt(writes[s].on, "access") ELSE route OBVIOUS
<1>3. PICK u : u = IF closes THEN Closed ELSE ui OBVIOUS
<1>4. PICK w : w = [writes EXCEPT ![s] = NoWrite] OBVIOUS
<1>5. Show(r, u, cache, w) /\ UNCHANGED <<scene, mock, past, due, left>>
  BY <1>1, <1>2, <1>3, <1>4 DEF SettleAccess
<1>6. r \in Route /\ UiOk(r, u) /\ RangeMoves(r, u, cache)
  <2>1. CASE closes
    <3>1. route.page = "client" /\ writes[s].on \in Client
      BY <1>1, <2>1, WritesThere DEF WriteOk, AccessHere, AccessShown, TabShown
    <3>2. r \in Route /\ r.page = "client" BY <1>2, <2>1, <3>1 DEF ClientAt, Route, Page, Tab
    <3>3. UiOk(r, u) BY <1>3, <2>1, <3>1, <3>2, UiNow DEF Closed, UiOk, FreshUi
    <3> QED BY <3>2, <3>3 DEF RangeMoves
  <2>2. CASE ~closes
    <3>1. r = route /\ u = ui BY <1>2, <1>3, <2>2
    <3> QED BY <3>1, UiNow, RangeStays
  <2> QED BY <1>1, <2>1, <2>2
<1>7. /\ DOMAIN w = Slot /\ \A x \in Slot : WriteOk(w[x], Now) /\ AccessHere(w[x])
      /\ Creating(w) \subseteq Creating(writes)
  <2>1. DOMAIN w = Slot /\ w[s] = NoWrite /\ \A x \in Slot \ {s} : w[x] = writes[x]
    BY <1>4, WritesThere
  <2>2. WriteOk(NoWrite, Now) /\ AccessHere(NoWrite) /\ NoWrite.op # "create" BY CacheNow, NoWriteOk
  <2>3. \A x \in Slot : WriteOk(w[x], Now) /\ AccessHere(w[x]) BY <2>1, <2>2, WritesThere
  <2> QED BY <2>1, <2>2, <2>3 DEF Creating
<1>8. left' \in 0..scene.effort BY <1>5, LeftNow
<1>9. PICK V, given : V = Watching /\ given = cache OBVIOUS
<1>10. Sound(given, Watching, V, due', Now) /\ DOMAIN due' \subseteq DOMAIN given /\ Debts(due', Now)
  BY <1>5, <1>9, CacheNow
<1> QED BY <1>5, <1>6, <1>7, <1>8, <1>9, <1>10, ShowInv

---------------------------------------------------------------------------
(* The server.                                                             *)

\* A call changes some column, and adds no client but the one it creates.
Births(w) == IF w.op = "create" THEN {w.on} ELSE {}

LEMMA ClientsColumn ==
  ASSUME NEW db, DOMAIN db = Columns, NEW rows, NEW next, next = [db EXCEPT !.clients = rows]
  PROVE  DOMAIN next = Columns /\ next.clients = rows
BY DEF Columns

LEMMA AppliedColumns ==
  ASSUME NEW db, DOMAIN db = Columns, NEW w, w.op \in Op
  PROVE  /\ DOMAIN Applied(db, w) = Columns
         /\ DOMAIN Applied(db, w).clients \subseteq DOMAIN db.clients \cup Births(w)
<1> USE DEF Columns
<1>1. CASE w.op = "create"
  <2>1. PICK rows : rows = [id \in DOMAIN db.clients \cup {w.on} |->
           IF id = w.on THEN [status |-> IF w.arg.days > 0 THEN "trial" ELSE "active",
                              email |-> w.arg.email, code |-> 1]
                        ELSE db.clients[id]]
    OBVIOUS
  <2>0. Applied(db, w) = Created(db, w.on, w.arg.email, w.arg.days) BY <1>1 DEF Applied, TicketCall
  <2>2. Applied(db, w) = [db EXCEPT !.clients = rows] BY <2>0, <2>1 DEF Created
  <2>3. DOMAIN rows = DOMAIN db.clients \cup {w.on} BY <2>1
  <2> QED BY <1>1, <2>2, <2>3, ClientsColumn DEF Births
<1>a. ASSUME NEW x, NEW f, NEW rows, rows = [db.clients EXCEPT ![w.on][f] = x],
             Applied(db, w) = [db EXCEPT !.clients = rows]
      PROVE  /\ DOMAIN Applied(db, w) = Columns
             /\ DOMAIN Applied(db, w).clients \subseteq DOMAIN db.clients \cup Births(w)
  <2>1. DOMAIN rows = DOMAIN db.clients BY <1>a
  <2> QED BY <1>a, <2>1, ClientsColumn
<1>2. CASE w.op = "suspend"
  <2>1. PICK rows : rows = [db.clients EXCEPT ![w.on]["status"] = "paused"] OBVIOUS
  <2>0. Applied(db, w) = Suspended(db, w.on) BY <1>2 DEF Applied, TicketCall
  <2>2. Applied(db, w) = [db EXCEPT !.clients = rows] BY <2>0, <2>1 DEF Suspended
  <2> QED BY <1>a, <2>1, <2>2
<1>3. CASE w.op = "resume"
  <2>1. PICK rows : rows = [db.clients EXCEPT ![w.on]["status"] = "active"] OBVIOUS
  <2>0. Applied(db, w) = Resumed(db, w.on) BY <1>3 DEF Applied, TicketCall
  <2>2. Applied(db, w) = [db EXCEPT !.clients = rows] BY <2>0, <2>1 DEF Resumed
  <2> QED BY <1>a, <2>1, <2>2
<1>4. CASE w.op = "issue"
  <2>1. PICK rows : rows = [db.clients EXCEPT ![w.on]["code"] = @ + 1] OBVIOUS
  <2>0. Applied(db, w) = CodeIssued(db, w.on) BY <1>4 DEF Applied, TicketCall
  <2>2. Applied(db, w) = [db EXCEPT !.clients = rows] BY <2>0, <2>1 DEF CodeIssued
  <2>3. DOMAIN rows = DOMAIN db.clients BY <2>1
  <2> QED BY <2>2, <2>3, ClientsColumn
<1>5. CASE w.op = "delete"
  <2>1. PICK rows : rows = [id \in DOMAIN db.clients \ {w.on} |-> db.clients[id]] OBVIOUS
  <2>2. PICK tickets : tickets = [t \in {k \in DOMAIN db.tickets : mock \/ db.tickets[k].client # w.on} |->
                            db.tickets[t]]
    OBVIOUS
  <2>3. PICK mid : mid = [db EXCEPT !.clients = rows] OBVIOUS
  <2>0. Applied(db, w) = Removed(db, w.on) BY <1>5 DEF Applied, TicketCall
  <2>4. Applied(db, w) = [mid EXCEPT !.tickets = tickets]
    BY <2>0, <2>1, <2>2, <2>3 DEF Removed
  <2>5. DOMAIN mid = Columns /\ mid.clients = rows BY <2>3, ClientsColumn
  <2>6. DOMAIN Applied(db, w) = Columns /\ Applied(db, w).clients = rows BY <2>4, <2>5
  <2>7. DOMAIN rows = DOMAIN db.clients \ {w.on} BY <2>1
  <2> QED BY <2>6, <2>7
<1>6. CASE w.op \in TicketCall
  <2>1. Applied(db, w) = Ticketed(db, w) BY <1>6 DEF Applied, TicketCall
  <2> QED BY <1>6, <2>1 DEF Ticketed, TicketCall
<1>7. CASE w.op = "role" BY <1>7 DEF Applied, RoleChanged, TicketCall
<1>8. CASE w.op = "revoke"
  <2>1. PICK rows : rows = [o \in DOMAIN db.team \ {w.on} |-> db.team[o]] OBVIOUS
  <2>2. Applied(db, w) \in {db, [db EXCEPT !.team = rows]}
    BY <1>8, <2>1 DEF Applied, Revoked, TicketCall
  <2> QED BY <2>2
<1>9. CASE w.op = "invite" BY <1>9 DEF Applied, TicketCall
<1>10. CASE w.op = "template" BY <1>10 DEF Applied, TicketCall
<1> QED BY <1>1, <1>2, <1>3, <1>4, <1>5, <1>6, <1>7, <1>8, <1>9, <1>10 DEF Op, ClientCall

LEMMA SeqOfItsRange ==
  ASSUME NEW S, NEW seq \in Seq(S)
  PROVE  seq \in Seq(Range(seq))
<1>1. PICK n \in Nat : seq \in [1..n -> S] BY SeqDef
<1>2. seq \in [1..n -> Range(seq)] BY <1>1 DEF Range
<1> QED BY <1>2, SeqDef

LEMMA HistoryThen ==
  ASSUME HistoryOk, NEW w, w.op \in Op, Moved(Applied(Db, w))
  PROVE  /\ HistoryOk' /\ Now' \in Nat /\ Now <= Now' /\ Grown
         /\ UnusedClients \ Births(w) \subseteq UnusedClients'
         /\ UnusedClients' \subseteq UnusedClients
<1>1. PICK n \in Nat \ {0} : n = Now BY DEF HistoryOk
<1>2. PICK old : old = past OBVIOUS
<1>3. PICK db : db = Applied(Db, w) OBVIOUS
<1>4. DOMAIN Db = Columns BY <1>1 DEF HistoryOk, Db
<1>5. DOMAIN db = Columns /\ DOMAIN db.clients \subseteq DOMAIN Db.clients \cup Births(w)
  BY <1>3, <1>4, AppliedColumns
<1>6. CASE past' = past
  <2>1. HistoryOk' BY <1>6 DEF HistoryOk, Now
  <2>2. UnusedClients' = UnusedClients BY <1>6 DEF UnusedClients, Now
  <2>3. Now' = Now BY <1>6 DEF Now
  <2> QED BY <1>1, <1>6, <2>1, <2>2, <2>3 DEF Grown
<1>7. CASE past' = Append(past, db)
  <2>1. PICK S : S = Range(past) \cup {db} OBVIOUS
  <2>2. past \in Seq(S)
    <3>1. Range(past) \subseteq S BY <2>1
    <3> QED BY <3>1, SeqMonotonic DEF HistoryOk
  <2>3. /\ past' \in Seq(S) /\ Len(past') = n + 1 /\ past'[n + 1] = db
        /\ \A i \in 1..n : past'[i] = past[i]
    BY <1>1, <1>7, <2>1, <2>2, AppendProperties DEF Now
  <2>4. Now' = n + 1 BY <2>3 DEF Now
  <2>5. \A v \in 1..n + 1 : DOMAIN past'[v] = Columns
    <3>1. \A v \in 1..n : DOMAIN past[v] = Columns BY <1>1 DEF HistoryOk
    <3>2. \A v \in 1..n + 1 : v \in 1..n \/ v = n + 1 OBVIOUS
    <3> QED BY <1>5, <2>3, <3>1, <3>2
  <2>6. past' \in Seq(Range(past'))
    <3>1. PICK new : new = past' OBVIOUS
    <3> QED BY <2>3, <3>1, SeqOfItsRange
  <2>7. HistoryOk' BY <2>4, <2>5, <2>6 DEF HistoryOk
  <2>8. \A c \in Client : c \in UnusedClients <=> \A v \in 1..n : c \notin DOMAIN past[v].clients
    BY <1>1 DEF UnusedClients
  <2>9. \A c \in Client : c \in UnusedClients' <=> \A v \in 1..n + 1 : c \notin DOMAIN past'[v].clients
    BY <2>4 DEF UnusedClients
  <2>10. Db = past[n] BY <1>1 DEF Db
  <2>11. \A c \in Client : (\A v \in 1..n + 1 : c \notin DOMAIN past'[v].clients) =>
                              \A v \in 1..n : c \notin DOMAIN past[v].clients
    <3>1. \A v \in 1..n : v \in 1..n + 1 OBVIOUS
    <3> QED BY <2>3, <3>1
  <2>12. \A c \in Client \ Births(w) : (\A v \in 1..n : c \notin DOMAIN past[v].clients) =>
                                       \A v \in 1..n + 1 : c \notin DOMAIN past'[v].clients
    <3>1. \A v \in 1..n + 1 : v \in 1..n \/ v = n + 1 OBVIOUS
    <3>2. n \in 1..n OBVIOUS
    <3> QED BY <1>5, <2>3, <2>10, <3>1, <3>2
  <2>13. UnusedClients \subseteq Client BY DEF UnusedClients
  <2>14. UnusedClients' \subseteq Client BY DEF UnusedClients
  <2> QED BY <1>1, <2>3, <2>4, <2>7, <2>8, <2>9, <2>11, <2>12, <2>13, <2>14 DEF Grown
<1> QED BY <1>3, <1>6, <1>7 DEF Moved

LEMMA OneLess ==
  ASSUME NEW S, IsFiniteSet(S), NEW T, IsFiniteSet(T), NEW x, S \ {x} \subseteq T
  PROVE  Cardinality(S) - 1 <= Cardinality(T)
<1>1. IsFiniteSet(S \ {x}) BY FS_RemoveElement
<1>2. Cardinality(S) \in Nat /\ Cardinality(T) \in Nat /\ Cardinality(S \ {x}) \in Nat
  BY <1>1, FS_CardinalityType
<1>3. Cardinality(S \ {x}) >= Cardinality(S) - 1 BY <1>2, FS_RemoveElement
<1>4. Cardinality(S \ {x}) <= Cardinality(T) BY FS_Subset
<1> QED BY <1>2, <1>3, <1>4

\* The screen and the cache stay; one call moves on, or none.
LEMMA ServerInv ==
  ASSUME PanelInv, UNCHANGED <<scene, mock, route, ui, cache, due>>, left' \in 0..scene.effort,
         HistoryOk', Now' \in Nat, Now <= Now', Grown, Enough', DOMAIN writes' = Slot,
         \A s \in Slot : (writes'[s] = writes[s]) \/ (WriteOk(writes[s], Now) /\ AccessHere(writes[s]))'
  PROVE  PanelInv'
<1>1. ScreenInv' /\ Cached(Now)' BY StillInv
<1>2. PICK n \in Nat, m \in Nat : n = Now /\ m = Now' /\ n <= m BY CacheNow
<1>3. ASSUME NEW s \in Slot PROVE (WriteOk(writes[s], Now) /\ AccessHere(writes[s]))'
  <2>1. CASE writes'[s] = writes[s]
    <3>1. PICK w : w = writes[s] OBVIOUS
    <3>2. WriteOk(w, n) /\ AccessHere(w) BY <1>2, <3>1, WritesThere
    <3>3. WriteOk(w, m)' BY <1>2, <3>2, OlderWrite
    <3>4. AccessHere(writes[s])'
      BY <2>1, <3>1, <3>2 DEF AccessHere, AccessShown, TabShown, Loaded
    <3> QED BY <1>2, <2>1, <3>1, <3>3, <3>4
  <2> QED BY <2>1
<1>4. WritesInv(Now)' BY <1>3 DEF WritesInv
<1>5. VisitOk' BY DEF PanelInv, VisitOk
<1> QED BY <1>1, <1>4, <1>5 DEF PanelInv

\* The server handles a call: creations find an id that is left.
LEMMA HandleInv ==
  ASSUME PanelInv, NEW s \in Slot, HandleWrite(s)
  PROVE  PanelInv'
<1>1. PICK n \in Nat : n = Now BY CacheNow
<1>2. PICK old : old = writes[s] OBVIOUS
<1>3. PICK on : on = IF old.op = "create" THEN CHOOSE c \in UnusedClients : TRUE ELSE old.on OBVIOUS
<1>4. PICK w : w = [old EXCEPT !.on = on] OBVIOUS
<1>5. /\ old.at = "sent" /\ UNCHANGED <<scene, mock, route, ui, cache, due, left>>
      /\ IF Refuses(Db, w)
           THEN writes' = [writes EXCEPT ![s].at = "refused"] /\ UNCHANGED past
           ELSE /\ Moved(Applied(Db, w))
                /\ writes' = [writes EXCEPT ![s] = [w EXCEPT !.at = "done", !.version = Len(past')]]
  BY <1>2, <1>3, <1>4 DEF HandleWrite
<1>6. WriteOk(old, n) /\ AccessHere(old) /\ DOMAIN writes = Slot BY <1>1, <1>2, WritesThere
<1>7. old.op \in Op BY <1>5, <1>6 DEF WriteOk
<1>8. /\ DOMAIN w = DOMAIN NoWrite /\ w.on = on /\ w.op = old.op /\ w.owner = old.owner
      /\ w.here = old.here /\ w.version = old.version /\ w.at = old.at /\ w.arg = old.arg
  BY <1>4, <1>6 DEF WriteOk, NoWrite
<1>9. left' \in 0..scene.effort BY <1>5, LeftNow
<1>10. CASE Refuses(Db, w)
  <2>1. PICK new : new = [old EXCEPT !.at = "refused"] OBVIOUS
  <2>2. DOMAIN writes' = Slot /\ writes'[s] = new /\ \A x \in Slot \ {s} : writes'[x] = writes[x]
    BY <1>2, <1>5, <1>6, <1>10, <2>1
  <2>3. /\ DOMAIN new = DOMAIN NoWrite /\ new.at = "refused" /\ new.op = old.op /\ new.on = old.on
        /\ new.arg = old.arg /\ new.version = old.version /\ new.owner = old.owner
        /\ new.here = old.here
    BY <1>6, <2>1 DEF WriteOk, NoWrite
  <2>4. WriteOk(new, n) BY <1>5, <1>6, <2>3 DEF WriteOk, States, Explained
  <2>5. UNCHANGED past /\ HistoryOk' /\ Now' = Now /\ Now <= Now' /\ Grown
    BY <1>5, <1>10, SameHistory
  <2>6. WriteOk(new, n)' BY <1>1, <2>4, <2>5, OlderWrite
  <2>7. AccessHere(writes[s])'
    BY <1>5, <1>6, <2>2, <2>3 DEF AccessHere, AccessShown, TabShown, Loaded
  <2>8. Creating(writes') \subseteq Creating(writes) BY <2>2, <2>3 DEF Creating
  <2>9. Enough' BY <2>5, <2>8, FewerCreating DEF PanelInv
  <2>10. \A x \in Slot : (writes'[x] = writes[x]) \/ (WriteOk(writes[x], Now) /\ AccessHere(writes[x]))'
    BY <1>1, <2>2, <2>5, <2>6, <2>7
  <2>11. Now' \in Nat BY <1>1, <2>5
  <2> QED BY <1>5, <1>9, <2>2, <2>5, <2>9, <2>10, <2>11, ServerInv
<1>11. CASE ~Refuses(Db, w)
  <2>1. PICK mid : mid = [w EXCEPT !.at = "done"] OBVIOUS
  <2>2. PICK m : m = Len(past') OBVIOUS
  <2>3. PICK new : new = [mid EXCEPT !.version = m] OBVIOUS
  <2>4. writes' = [writes EXCEPT ![s] = new]
    <3>1. [w EXCEPT !.at = "done", !.version = m] = new BY <2>1, <2>3
    <3> QED BY <1>5, <1>11, <2>2, <3>1
  <2>5. DOMAIN writes' = Slot /\ writes'[s] = new /\ \A x \in Slot \ {s} : writes'[x] = writes[x]
    BY <1>6, <2>4
  <2>6. /\ HistoryOk' /\ Now' \in Nat /\ Now <= Now' /\ Grown
        /\ UnusedClients \ Births(w) \subseteq UnusedClients' /\ UnusedClients' \subseteq UnusedClients
    BY <1>5, <1>7, <1>8, <1>11, HistoryThen DEF PanelInv
  <2>7. m = Now' /\ m \in Nat /\ m > 0 BY <1>1, <2>2, <2>6 DEF Now, HistoryOk
  <2>8. /\ DOMAIN mid = DOMAIN NoWrite /\ mid.at = "done" /\ mid.op = old.op /\ mid.on = on
        /\ mid.owner = old.owner /\ mid.here = old.here
    BY <1>8, <2>1 DEF NoWrite
  <2>9. /\ DOMAIN new = DOMAIN NoWrite /\ new.at = "done" /\ new.op = old.op /\ new.on = on
        /\ new.owner = old.owner /\ new.here = old.here /\ new.version = m
    BY <2>3, <2>8 DEF NoWrite
  <2>10. old.op = "create" => on \in UnusedClients
    <3> SUFFICES ASSUME old.op = "create" PROVE on \in UnusedClients OBVIOUS
    <3>1. s \in Creating(writes) BY <1>2, <1>5 DEF Creating
    <3>2. Cardinality(Creating(writes)) # 0 BY <3>1, CreatingFinite, FS_EmptySet
    <3>3. Cardinality(UnusedClients) # 0
      BY <3>2, CreatingIs, CreatingFinite, UnusedFinite DEF PanelInv, Enough
    <3>4. UnusedClients # {} BY <3>3, FS_EmptySet
    <3> QED BY <1>3, <3>4
  <2>11. WriteOk(new, m)'
    <3>1. old.op # "create" => on = old.on BY <1>3
    <3>2. UnusedClients \subseteq Client BY DEF UnusedClients
    <3>3. new.op = "create" => new.on \in Client BY <2>9, <2>10, <3>2
    <3>4. new.op = "suspend" => new.on \in Client /\ new.owner = "access"
      BY <1>6, <2>9, <3>1 DEF WriteOk
    <3> QED BY <1>7, <2>7, <2>9, <3>3, <3>4 DEF WriteOk, States
  <2>12. AccessHere(writes[s])'
    BY <1>5, <1>6, <2>5, <2>9 DEF AccessHere, AccessShown, TabShown, Loaded
  <2>13. Enough'
    <3>1. Creating(writes') \subseteq Creating(writes) \ {s} BY <2>5, <2>9 DEF Creating
    <3>2. CreatesUnderWay' = Cardinality(Creating(writes')) BY DEF CreatesUnderWay, Creating
    <3>3. IsFiniteSet(UnusedClients') /\ Cardinality(UnusedClients') \in Nat
      BY <2>6, UnusedFinite, FS_Subset, FS_CardinalityType
    <3>4. IsFiniteSet(Creating(writes')) /\ Cardinality(Creating(writes')) \in Nat BY CreatingFinite
    <3>5. CASE old.op = "create"
      <4>1. s \in Creating(writes) BY <1>2, <1>5, <3>5 DEF Creating
      <4>2. Cardinality(Creating(writes) \ {s}) = Cardinality(Creating(writes)) - 1
        BY <4>1, CreatingFinite, FS_RemoveElement
      <4>3. IsFiniteSet(Creating(writes) \ {s}) BY CreatingFinite, FS_RemoveElement
      <4>4. Cardinality(Creating(writes')) <= Cardinality(Creating(writes) \ {s})
        BY <3>1, <4>3, FS_Subset
      <4>5. Cardinality(UnusedClients) - 1 <= Cardinality(UnusedClients')
        <5>1. PICK T : T = UnusedClients' OBVIOUS
        <5>2. UnusedClients \ {w.on} \subseteq T BY <1>8, <2>6, <3>5, <5>1 DEF Births
        <5> QED BY <3>3, <5>1, <5>2, UnusedFinite, OneLess
      <4> QED BY <3>2, <3>3, <3>4, <4>2, <4>4, <4>5, CreatingIs, CreatingFinite, UnusedFinite
          DEF PanelInv, Enough
    <3>6. CASE old.op # "create"
      <4>1. UnusedClients' = UnusedClients BY <1>8, <2>6, <3>6 DEF Births
      <4>2. Creating(writes') \subseteq Creating(writes) BY <3>1
      <4>3. Cardinality(Creating(writes')) <= Cardinality(Creating(writes))
        BY <4>2, CreatingFinite, FS_Subset
      <4> QED BY <3>2, <3>4, <4>1, <4>3, CreatingIs, CreatingFinite, UnusedFinite DEF PanelInv, Enough
    <3> QED BY <3>5, <3>6
  <2>14. \A x \in Slot : (writes'[x] = writes[x]) \/ (WriteOk(writes[x], Now) /\ AccessHere(writes[x]))'
    BY <2>5, <2>7, <2>11, <2>12
  <2> QED BY <1>5, <1>9, <2>5, <2>6, <2>13, <2>14, ServerInv
<1> QED BY <1>10, <1>11

\* Somebody else's call.
LEMMA ColleagueInv ==
  ASSUME PanelInv, Colleague
  PROVE  PanelInv'
<1>1. PICK w \in scene.others :
        /\ Spend
        /\ w.op = "create" => w.on \in UnusedClients /\ CreatesUnderWay < Cardinality(UnusedClients)
        /\ Moved(Applied(Db, w)) /\ UNCHANGED <<scene, mock, route, ui, cache, writes, due>>
  BY DEF Colleague
<1>2. w.op \in Op BY SceneNow
<1>3. /\ HistoryOk' /\ Now' \in Nat /\ Now <= Now' /\ Grown
      /\ UnusedClients \ Births(w) \subseteq UnusedClients' /\ UnusedClients' \subseteq UnusedClients
  BY <1>1, <1>2, HistoryThen DEF PanelInv
<1>4. Enough'
  <2>1. CreatesUnderWay' = CreatesUnderWay BY <1>1 DEF CreatesUnderWay
  <2>2. IsFiniteSet(UnusedClients') /\ Cardinality(UnusedClients') \in Nat
    BY <1>3, UnusedFinite, FS_Subset, FS_CardinalityType
  <2>3. CASE w.op = "create"
    <3>1. PICK T : T = UnusedClients' OBVIOUS
    <3>2. UnusedClients \ {w.on} \subseteq T BY <1>3, <2>3, <3>1 DEF Births
    <3>3. Cardinality(UnusedClients) - 1 <= Cardinality(T) BY <2>2, <3>1, <3>2, UnusedFinite, OneLess
    <3> QED BY <1>1, <2>1, <2>2, <2>3, <3>1, <3>3, CreatingIs, CreatingFinite, UnusedFinite DEF Enough
  <2>4. CASE w.op # "create"
    <3>1. UnusedClients' = UnusedClients BY <1>3, <2>4 DEF Births
    <3> QED BY <2>1, <3>1 DEF PanelInv, Enough
  <2> QED BY <2>3, <2>4
<1>5. left' \in 0..scene.effort BY <1>1, SpendLeft DEF PanelInv
<1>6. DOMAIN writes' = Slot BY <1>1, WritesThere
<1> QED BY <1>1, <1>3, <1>4, <1>5, <1>6, ServerInv

\* A call ends without having changed anything on the server.
LEMMA EndInv ==
  ASSUME PanelInv, UNCHANGED <<scene, mock, route, ui, cache, past, due>>, left' \in 0..scene.effort,
         NEW s \in Slot, NEW new, WriteOk(new, Now), AccessHere(new),
         new.op = "create" => new.at # "sent", writes' = [writes EXCEPT ![s] = new]
  PROVE  PanelInv'
<1>1. DOMAIN writes' = Slot /\ writes'[s] = new /\ \A x \in Slot \ {s} : writes'[x] = writes[x]
  BY WritesThere
<1>2. PICK n \in Nat : n = Now BY CacheNow
<1>3. HistoryOk' /\ Now' = Now /\ Now <= Now' /\ Grown BY SameHistory
<1>4. WriteOk(new, n)' BY <1>2, <1>3, OlderWrite
<1>5. AccessHere(writes[s])' BY <1>1 DEF AccessHere, AccessShown, TabShown, Loaded
<1>6. Creating(writes') \subseteq Creating(writes) BY <1>1 DEF Creating
<1>7. Enough' BY <1>6, FewerCreating DEF PanelInv
<1>8. \A x \in Slot : (writes'[x] = writes[x]) \/ (WriteOk(writes[x], Now) /\ AccessHere(writes[x]))'
  BY <1>1, <1>2, <1>3, <1>4, <1>5
<1>9. Now' \in Nat BY <1>2, <1>3
<1> QED BY <1>1, <1>3, <1>7, <1>8, <1>9, ServerInv

LEMMA DeliverErrorInv ==
  ASSUME PanelInv, NEW s \in Slot, DeliverError(s)
  PROVE  PanelInv'
<1>1. left' \in 0..scene.effort BY LeftNow DEF DeliverError
<1>2. PICK new : new = NoWrite OBVIOUS
<1>3. WriteOk(new, Now) /\ AccessHere(new) /\ new.op # "create" BY <1>2, CacheNow, NoWriteOk
<1> QED BY <1>1, <1>2, <1>3, EndInv DEF DeliverError

LEMMA LoseWriteInv ==
  ASSUME PanelInv, NEW s \in Slot, LoseWrite(s)
  PROVE  PanelInv'
<1>1. left' \in 0..scene.effort BY SpendLeft DEF LoseWrite, PanelInv
<1>2. PICK old : old = writes[s] OBVIOUS
<1>3. PICK new : new = [old EXCEPT !.at = "failed"] OBVIOUS
<1>4. WriteOk(old, Now) /\ AccessHere(old) /\ old.at \in {"sent", "done"}
  BY <1>2, WritesThere DEF LoseWrite
<1>5. /\ DOMAIN new = DOMAIN NoWrite /\ new.at = "failed" /\ new.op = old.op /\ new.on = old.on
      /\ new.version = old.version /\ new.owner = old.owner /\ new.here = old.here
  BY <1>3, <1>4 DEF WriteOk, NoWrite
<1>6. WriteOk(new, Now) /\ AccessHere(new) BY <1>4, <1>5 DEF WriteOk, AccessHere, States
<1>7. writes' = [writes EXCEPT ![s] = new] BY <1>2, <1>3 DEF LoseWrite
<1> QED BY <1>1, <1>5, <1>6, <1>7, EndInv DEF LoseWrite
---------------------------------------------------------------------------
\* Every step keeps the invariant.
LEMMA PanelStep ==
  ASSUME PanelInv, [Next]_vars
  PROVE  PanelInv'
<1>1. CASE UNCHANGED vars
  <2>1. HistoryOk' /\ Now' = Now /\ Now <= Now' /\ Grown BY <1>1, SameHistory DEF vars
  <2>2. Now' \in Nat BY <2>1, CacheNow
  <2>3. Enough' BY <1>1, FewerCreating DEF vars, PanelInv
  <2>4. DOMAIN writes' = Slot BY <1>1, WritesThere DEF vars
  <2>5. left' \in 0..scene.effort BY <1>1, LeftNow DEF vars
  <2> QED BY <1>1, <2>1, <2>2, <2>3, <2>4, <2>5, ServerInv DEF vars
<1>2. CASE User
  <2>1. ASSUME NEW r \in scene.routes, Go(r) PROVE PanelInv'
    <3>1. r \in Route BY SceneNow
    <3> QED BY <2>1, <3>1, VisitInv DEF Go
  <2>2. ASSUME NEW key \in Key, RetryQuery(key) PROVE PanelInv' BY <2>2, QueryInv
  <2> QED BY <1>2, <2>1, <2>2, ClientsPageInv, NewClientInv, ClientPageInv, TicketInv, TeamInv,
             SettingsInv, JournalInv DEF User
<1>3. CASE Machine
  <2>1. ASSUME NEW key \in Key, AnswerQuery(key) \/ DeliverQuery(key) PROVE PanelInv'
    BY <2>1, QueryInv
  <2>2. ASSUME NEW s \in Slot,
               \/ HandleWrite(s) \/ DeliverError(s) \/ DeliverCreated(s) \/ DeliverAccess(s)
               \/ SettleAccess(s) \/ DeliverDeleted(s) \/ DeliverTicket(s) \/ DeliverTeam(s)
               \/ DeliverSaved(s)
        PROVE  PanelInv'
    BY <2>2, HandleInv, DeliverErrorInv, DeliverCreatedInv, DeliverAccessInv, SettleAccessInv,
       DeliverDeletedInv, DeliverTicketInv, DeliverTeamInv, DeliverSavedInv
  <2> QED BY <1>3, <2>1, <2>2 DEF Machine
<1>4. CASE World
  <2>1. ASSUME NEW key \in Key, FailQuery(key) \/ Age(key) PROVE PanelInv' BY <2>1, QueryInv
  <2>2. ASSUME NEW s \in Slot, LoseWrite(s) PROVE PanelInv' BY <2>2, LoseWriteInv
  <2> QED BY <1>4, <2>1, <2>2, ColleagueInv DEF World
<1> QED BY <1>1, <1>2, <1>3, <1>4 DEF Next

\* The initial states have it.
LEMMA PanelStart ==
  ASSUME Init
  PROVE  PanelInv
<1>1. /\ Now = 1 /\ past[1] = FirstDb /\ past \in Seq({FirstDb})
      /\ \A v \in 1..Now : v = 1
  BY DEF Init, Now
<1>2. HistoryOk BY <1>1, FirstDbAssumption, SeqOfItsRange DEF HistoryOk, Columns
<1>3. VisitOk /\ route \in Route BY SceneAssumption DEF Init, VisitOk
<1>4. UiOk(route, ui) /\ (route.page = "clients" => ui.index = 0)
  BY <1>3, FreshUiOk DEF Init, Route
<1>5. ScreenInv
  <2>1. route.page = "clients" => RangeOk(route, ui, ListData(cache)) BY <1>4, FirstPage DEF UiOk
  <2> QED BY <1>3, <1>4, <2>1 DEF ScreenInv
<1>6. PICK c : c = [key \in {TicketList} |-> [Blank EXCEPT !.data = 1]] OBVIOUS
<1>7. PICK A : A = Watched(route, ui, <<>>) OBVIOUS
<1>8. PICK W, w, n : W = {TicketList} /\ w = cache /\ n = 1 OBVIOUS
<1>9. w = Watch(c, W, A) BY <1>6, <1>7, <1>8 DEF Init
<1>10. DOMAIN c = {TicketList} /\ EntryOk(c[TicketList], n) /\ c[TicketList].data = 1
       /\ c[TicketList].fetch = 0 /\ c[TicketList].error = FALSE /\ n \in Nat
  <2>1. PICK b : b = [Blank EXCEPT !.data = 1] OBVIOUS
  <2>2. EntryOk(b, n) /\ b.data = 1 /\ b.fetch = 0 /\ b.error = FALSE
    <3>1. b = [data |-> 1, stale |-> FALSE, fetch |-> 0, error |-> FALSE] BY <2>1 DEF Blank
    <3> QED BY <1>8, <3>1 DEF EntryOk, Asked
  <2>3. DOMAIN c = {TicketList} /\ c[TicketList] = b BY <1>6, <2>1
  <2> QED BY <1>8, <2>2, <2>3
<1>11. CacheOk(c, n) BY <1>10, KeysIn DEF CacheOk
<1>12. Unobserved(c, W) /\ Observed(c, W \cap A) BY <1>8, <1>10 DEF Unobserved, Observed
<1>13. PICK debts : debts = due OBVIOUS
<1>14. debts = <<>> BY <1>13 DEF Init
<1>15. DOMAIN debts = {} BY <1>14
<1>16. Debts(debts, n) /\ Owing(c, W, debts) /\ DOMAIN debts \subseteq DOMAIN c
  BY <1>15 DEF Debts, Owing
<1>17. A \in SUBSET Key BY <1>3, <1>4, <1>7, WatchedKeys
<1>18. /\ CacheOk(w, n) /\ Unobserved(w, A) /\ Observed(w, A) /\ Owing(w, A, debts)
  BY <1>9, <1>10, <1>11, <1>12, <1>16, <1>17, WatchKeeps
<1>19. \A key : ~EntryOf(w, key).error
  <2> SUFFICES ASSUME NEW key PROVE ~EntryOf(w, key).error OBVIOUS
  <2>1. EntryOf(c, key) \in {c[TicketList], Blank} BY <1>10 DEF EntryOf
  <2>2. ~EntryOf(c, key).error BY <1>10, <2>1 DEF Blank
  <2>3. CASE key \in DOMAIN c \cup A
    <3>1. PICK e : e = EntryOf(c, key) OBVIOUS
    <3>2. EntryOk(e, n) BY <1>10, <1>11, <3>1, EntryOfOk
    <3>3. key \in DOMAIN w BY <1>9, <2>3, WatchDomain
    <3>4. w[key] \in {e, Aborted(e), Asking(e)} BY <1>9, <2>3, <3>1, WatchLeft, WatchWanted, WatchRest
    <3>5. ~w[key].error BY <1>10, <2>2, <3>1, <3>2, <3>4, AbortEntry, AskingEntry
    <3> QED BY <3>3, <3>5 DEF EntryOf
  <2>4. CASE key \notin DOMAIN c \cup A
    <3>1. key \notin DOMAIN w BY <1>9, <2>4, WatchDomain
    <3> QED BY <3>1 DEF EntryOf, Blank
  <2> QED BY <2>3, <2>4
<1>20. Watching = A
  <2>1. PICK r, u, e : r = route /\ u = ui /\ e = <<>> OBVIOUS
  <2>2. DOMAIN e = {} BY <2>1
  <2>3. \A key : ~EntryOf(e, key).error BY <2>2 DEF EntryOf, Blank
  <2>4. r.page \in {"client", "tickets"} => u.open = None BY <2>1 DEF Init, FreshUi
  <2>5. OpenThread(r, u, e) = None /\ OpenThread(r, u, w) = None BY <2>4 DEF OpenThread
  <2>6. r.page = "client" => TabShown(r, e) /\ TabShown(r, w) BY <1>19, <2>3 DEF TabShown
  <2>7. Watched(r, u, w) = Watched(r, u, e) BY <2>5, <2>6 DEF Watched
  <2> QED BY <1>7, <1>8, <2>1, <2>7 DEF Watching
<1>21. Cached(Now) BY <1>1, <1>8, <1>13, <1>15, <1>16, <1>18, <1>20 DEF Cached, Sound
<1>22. WritesInv(Now)
  <2>1. DOMAIN writes = Slot /\ \A s \in Slot : writes[s] = NoWrite BY DEF Init
  <2> QED BY <1>1, <2>1, NoWriteOk DEF WritesInv
<1>23. Enough
  <2>1. \A s \in Slot : writes[s] = NoWrite BY DEF Init
  <2>2. NoWrite.op # "create" BY <1>1, NoWriteOk
  <2>3. Creating(writes) = {} BY <2>1, <2>2 DEF Creating
  <2> QED BY <2>3, CreatingIs, UnusedFinite, FS_EmptySet DEF Enough
<1> QED BY <1>2, <1>3, <1>5, <1>21, <1>22, <1>23 DEF PanelInv

---------------------------------------------------------------------------
\* The inductive invariant holds of every behaviour of the panel.
THEOREM PanelIsSound == Spec => []PanelInv
<1>1. Init => PanelInv BY PanelStart
<1>2. PanelInv /\ [Next]_vars => PanelInv' BY PanelStep
<1> QED BY <1>1, <1>2, PTL DEF Spec

\* Every variable has its type: the cache holds known queries with states the
\* server has been through, and the local state is that of the page on screen.
THEOREM PanelTypes == Spec => []TypeOK
<1>1. PanelInv => TypeOK
  <2> SUFFICES ASSUME PanelInv PROVE TypeOK OBVIOUS
  <2>1. \A s \in Slot : writes[s].at \in {"idle", "sent", "done", "settling", "failed", "refused"}
    BY WritesThere DEF WriteOk, States
  <2>2. scene \in Scene /\ mock \in BOOLEAN /\ left \in 0..scene.effort BY DEF PanelInv, VisitOk
  <2>3. DOMAIN ui = DOMAIN FreshUi(route.page) BY UiNow DEF UiOk
  <2>4. DOMAIN cache \subseteq Key BY CacheNow DEF Sound, CacheOk
  <2>5. \A key \in DOMAIN cache : cache[key] \in [data : 0..Now, stale : BOOLEAN,
                                                  fetch : Asked..Now, error : BOOLEAN]
    BY CacheNow DEF EntryOk
  <2> QED BY <2>1, <2>2, <2>3, <2>4, <2>5, CacheNow DEF TypeOK
<1> QED BY <1>1, PanelIsSound, PTL

\* useClients.ts:111-116, useTickets.ts:35-39: once a call has succeeded, a view
\* in the cache that it concerns, observed or not, shows nothing older unless its
\* fetch is under way or has failed, or the call had overtaken its first load;
\* however many calls, fetches, visits and colleagues are involved.
THEOREM NothingOlder == Spec => []OlderOnlyIfOvertaken
<1>1. PanelInv => OlderOnlyIfOvertaken
  <2> SUFFICES ASSUME PanelInv, NEW key \in Watching \cap DOMAIN due,
                      cache[key].fetch = 0, ~cache[key].error
               PROVE  cache[key].data >= due[key]
    BY DEF OlderOnlyIfOvertaken
  <2>1. key \in DOMAIN cache /\ Owing(cache, Watching, due) BY CacheNow DEF Sound
  <2>2. ~(cache[key].data < due[key]) BY <2>1 DEF Owing
  <2>3. cache[key].data \in Int /\ due[key] \in Int BY <2>1, CacheNow DEF EntryOk, Debts
  <2> QED BY <2>2, <2>3
<1> QED BY <1>1, PanelIsSound, PTL

\* NewClientPage.tsx:120-122: a creation is refused for its address only when the
\* check failed or had said that the address was free.
THEOREM RefusalsExplained == Spec => []ConflictExplained
<1>1. PanelInv => ConflictExplained
  <2> SUFFICES ASSUME PanelInv, NEW s \in Slot, writes[s].op = "create", writes[s].at = "refused"
               PROVE  Explained(writes[s])
    BY DEF ConflictExplained, Explained
  <2> QED BY WritesThere DEF WriteOk
<1> QED BY <1>1, PanelIsSound, PTL

\* SettingsPage.tsx:27-28: what the user has typed is what the page holds; no
\* answer and no refetch overwrites it.
THEOREM TextSurvives == Spec => []TypedTextSurvives
<1>1. PanelInv => TypedTextSurvives BY UiNow DEF UiOk, TypedTextSurvives
<1> QED BY <1>1, PanelIsSound, PTL

\* ClientsPage.tsx:78-82: the page of the table on screen has rows whenever the
\* list has, whatever filter, search, page size or fresh data narrowed it.
THEOREM HonestRange == Spec => []RangeIsHonest
<1>1. PanelInv => RangeIsHonest
  BY RowsAre DEF PanelInv, ScreenInv, RangeOk, RangeIsHonest
<1> QED BY <1>1, PanelIsSound, PTL

\* Division by the length of a day.
LEMMA DayOfMoment ==
  ASSUME NEW P \in Nat \ {0}, NEW e \in Nat
  PROVE  e \div P \in Nat /\ (e \div P) * P <= e /\ e < (e \div P) * P + P
OBVIOUS

LEMMA WholeDays ==
  ASSUME NEW P \in Nat \ {0}, NEW e \in Nat, NEW q \in Nat, q * P <= e, e < q * P + P, NEW d \in Nat
  PROVE  /\ e >= d * P <=> q >= d
         /\ e <= d * P + P - 1 <=> q <= d
<1>0. ASSUME NEW a \in Nat, NEW b \in Nat PROVE a * P \in Nat /\ (a + b) * P = a * P + b * P OBVIOUS
<1>1. ASSUME NEW a \in Nat, NEW b \in Nat, a <= b PROVE a * P <= b * P
  <2>1. b - a \in Nat /\ a + (b - a) = b BY <1>1
  <2>2. b * P = a * P + (b - a) * P BY <1>0, <2>1
  <2>3. (b - a) * P \in Nat /\ a * P \in Nat BY <1>0, <2>1
  <2> QED BY <2>2, <2>3
<1>2. q < d => q * P + P <= d * P
  <2>1. q < d => (q + 1) * P <= d * P BY <1>1
  <2>2. (q + 1) * P = q * P + P BY <1>0
  <2> QED BY <2>1, <2>2
<1>3. d < q => d * P + P <= q * P
  <2>1. d < q => (d + 1) * P <= q * P BY <1>1
  <2>2. (d + 1) * P = d * P + P BY <1>0
  <2> QED BY <2>1, <2>2
<1>4. d * P \in Nat /\ q * P \in Nat OBVIOUS
<1>5. d <= q => d * P <= q * P BY <1>1
<1>6. q <= d => q * P <= d * P BY <1>1
<1> QED BY <1>2, <1>3, <1>4, <1>5, <1>6

\* JournalPage.tsx:54-60: a period of one's own is exactly the moments of its days.
THEOREM WholeDaysKept == Spec => []PeriodKeepsWholeDays
<1>1. PanelInv => PeriodKeepsWholeDays
  <2> SUFFICES ASSUME PanelInv, OnJournal, ui.period = 0, ui.from # None, ui.to # None, NEW e \in Moment
               PROVE  WithinPeriod(e) <=> e \div PerDay \in ui.from..ui.to
    BY DEF PeriodKeepsWholeDays
  <2>1. Moment \subseteq Nat /\ PerDay \in Nat \ {0}
    <3>1. Moment = 0..Cardinality(Moment) - 1 /\ PerDay \in Nat \ {0} BY MomentAssumption
    <3>2. \A n : 0..n \subseteq Nat OBVIOUS
    <3> QED BY <3>1, <3>2
  <2>2. PICK q : q = e \div PerDay OBVIOUS
  <2>3. e \in Nat /\ q \in Nat /\ q * PerDay <= e /\ e < q * PerDay + PerDay
    BY <2>1, <2>2, DayOfMoment
  <2>4. \A t \in Moment : t \div PerDay \in Nat BY <2>1, DayOfMoment
  <2>5. PICK from \in Nat, to \in Nat : from = ui.from /\ to = ui.to
    BY <2>4, UiNow DEF OnJournal, UiOk
  <2>6. e >= from * PerDay <=> q >= from BY <2>1, <2>3, WholeDays
  <2>7. e <= to * PerDay + PerDay - 1 <=> q <= to BY <2>1, <2>3, WholeDays
  <2>8. WithinPeriod(e) <=> e >= from * PerDay /\ e <= to * PerDay + PerDay - 1
    BY <2>5 DEF WithinPeriod, EndOfDay
  <2> QED BY <2>2, <2>3, <2>5, <2>6, <2>7, <2>8
<1> QED BY <1>1, PanelIsSound, PTL
---------------------------------------------------------------------------
LEMMA ShowCalls ==
  ASSUME PanelInv, NEW r, NEW u, NEW given, NEW w, Show(r, u, given, w), NEW s \in Slot,
         w[s] = writes[s]
  PROVE  writes'[s].op = writes[s].op
<1>1. "op" \in DOMAIN w[s] BY WritesThere DEF WriteOk, NoWrite
<1> QED BY <1>1, ShownWrite

\* Only its own answer ends a deletion that has been done.
LEMMA CallStays ==
  ASSUME PanelInv, [Next]_vars, NEW s \in Slot, writes[s].op = "delete", writes[s].at = "done",
         ~DeliverDeleted(s)
  PROVE  writes'[s].op = "delete"
<1> DEFINE Stays == writes'[s].op = "delete"
<1>a. "delete" # None BY NoneAssumption DEF Op
<1>b. ASSUME NEW u, Touch(u) PROVE Stays BY <1>b, ShowCalls DEF Touch
<1>c. ASSUME NEW op, NEW on, NEW arg, NEW owner, NEW version,
             MutateKnowing(op, on, arg, owner, version)
      PROVE  Stays
  BY <1>a, <1>c, WritesThere DEF MutateKnowing
<1>d. ASSUME NEW op, NEW on, NEW arg, NEW owner, Mutate(op, on, arg, owner) PROVE Stays
  BY <1>c, <1>d DEF Mutate
<1>e. ASSUME NEW r, Visit(r) PROVE Stays BY <1>e, ShowCalls DEF Visit
<1>f. ASSUME NEW x \in Slot, x # s, NEW slot, NEW r, NEW u, NEW c, NEW shows,
             Succeed(x, slot, r, u, c, shows)
      PROVE  Stays
  <2>1. PICK w : w = [writes EXCEPT ![x] = slot] OBVIOUS
  <2>2. w[s] = writes[s] BY <1>f, <2>1, WritesThere
  <2> QED BY <1>f, <2>1, <2>2, ShowCalls DEF Succeed
<1>g. UNCHANGED writes => Stays OBVIOUS
<1>1. CASE UNCHANGED vars BY <1>1 DEF vars
<1>2. CASE User
  <2>1. ASSUME NEW r \in scene.routes, Go(r) PROVE Stays BY <1>e, <2>1 DEF Go
  <2>2. ASSUME NEW key \in Key, RetryQuery(key) PROVE Stays BY <2>2, ShowCalls DEF RetryQuery
  <2>3. CASE ClientsPageStep
    BY <1>b, <2>3, ShowCalls DEF ClientsPageStep, SetFilter, Search, ShowAll, SetSize, NextPage, PreviousPage
  <2>4. CASE NewClientStep
    BY <1>b, <1>c, <1>e, <2>4 DEF NewClientStep, TypeClientEmail, FillIn, ChooseStart, SubmitClient,
       GoToClient, CreateAnother
  <2>5. CASE ClientPageStep
    <3>1. ToggleAccess => Stays BY <1>d, <1>e DEF ToggleAccess
    <3>2. CancelForm => Stays BY ShowCalls DEF CancelForm
    <3> QED BY <1>b, <1>d, <2>5, <3>1, <3>2 DEF ClientPageStep, OpenForm, Resume, GiveReason, Suspend,
       IssueCode, AskDelete, CancelDelete, TypeClientName, DeleteClient
  <2>6. CASE TicketStep
    BY <1>b, <1>d, <2>6 DEF TicketStep, Filter, OpenTicket, BackToList, WriteReply, SendReply,
       MarkResolved, AssignToSelf, SetPriority
  <2>7. CASE TeamStep
    BY <1>b, <1>d, <2>7 DEF TeamStep, SelectMember, CloseMember, ChangeRole, AskRevoke, CancelRevoke,
       TypeMemberEmail, RevokeMember, OpenInvite, CloseInvite, TypeInviteEmail, Invite, DismissLink
  <2>8. CASE SettingsStep BY <1>b, <1>d, <2>8 DEF SettingsStep, TypeText, RestoreDefault, SaveTemplate
  <2>9. CASE JournalStep BY <1>b, <2>9 DEF JournalStep, SetPeriod
  <2> QED BY <1>2, <2>1, <2>2, <2>3, <2>4, <2>5, <2>6, <2>7, <2>8, <2>9 DEF User
<1>3. CASE Machine
  <2>1. ASSUME NEW key \in Key, AnswerQuery(key) \/ DeliverQuery(key) PROVE Stays
    BY <2>1, ShowCalls DEF AnswerQuery, DeliverQuery
  <2>2. ASSUME NEW x \in Slot, HandleWrite(x) PROVE Stays
    <3>1. x # s BY <2>2 DEF HandleWrite
    <3>2. \E v : writes' = [writes EXCEPT ![x] = v] BY <2>2 DEF HandleWrite
    <3> QED BY <3>1, <3>2, WritesThere
  <2>3. ASSUME NEW x \in Slot, DeliverError(x) PROVE Stays BY <2>3, WritesThere DEF DeliverError
  <2>4. ASSUME NEW x \in Slot, SettleAccess(x) PROVE Stays
    <3>1. x # s BY <2>4 DEF SettleAccess
    <3>2. PICK w : w = [writes EXCEPT ![x] = NoWrite] OBVIOUS
    <3>3. w[s] = writes[s] BY <3>1, <3>2, WritesThere
    <3> QED BY <2>4, <3>2, <3>3, ShowCalls DEF SettleAccess
  <2>5. ASSUME NEW x \in Slot, DeliverCreated(x) PROVE Stays BY <1>f, <2>5 DEF DeliverCreated
  <2>6. ASSUME NEW x \in Slot, DeliverAccess(x) PROVE Stays BY <1>f, <2>6 DEF DeliverAccess, ClientCall
  <2>7. ASSUME NEW x \in Slot, DeliverDeleted(x) PROVE Stays BY <1>f, <2>7 DEF DeliverDeleted
  <2>8. ASSUME NEW x \in Slot, DeliverTicket(x) PROVE Stays BY <1>f, <2>8 DEF DeliverTicket, TicketCall
  <2>9. ASSUME NEW x \in Slot, DeliverTeam(x) PROVE Stays BY <1>f, <2>9 DEF DeliverTeam
  <2>10. ASSUME NEW x \in Slot, DeliverSaved(x) PROVE Stays BY <1>f, <2>10 DEF DeliverSaved
  <2> QED BY <1>3, <2>1, <2>2, <2>3, <2>4, <2>5, <2>6, <2>7, <2>8, <2>9, <2>10 DEF Machine
<1>4. CASE World
  <2>1. Colleague => Stays BY DEF Colleague
  <2>2. ASSUME NEW key \in Key, FailQuery(key) \/ Age(key) PROVE Stays
    BY <2>2, ShowCalls DEF FailQuery, Age
  <2>3. ASSUME NEW x \in Slot, LoseWrite(x) PROVE Stays
    <3>1. writes'[s] \in {writes[s], [writes[s] EXCEPT !.at = "failed"]} BY <2>3, WritesThere DEF LoseWrite
    <3>2. "op" \in DOMAIN writes[s] BY WritesThere DEF WriteOk, NoWrite
    <3> QED BY <3>1, <3>2
  <2> QED BY <1>4, <2>1, <2>2, <2>3 DEF World
<1> QED BY <1>1, <1>2, <1>3, <1>4 DEF Next

LEMMA ForgottenAfter ==
  ASSUME PanelInv, PanelInv', NEW s \in Slot, DeliverDeleted(s)
  PROVE  LET w == writes[s] IN
         /\ \A key \in ItsCards(w.on) : EntryOf(cache', key).fetch = 0
         /\ w.last = w.on => ItsCards(w.on) \cap DOMAIN cache' = {}
<1>1. PICK w, its : w = writes[s] /\ its = ItsCards(w.on) OBVIOUS
<1>2. PICK c : c = Forgotten(w.last) OBVIOUS
<1>3. PICK u : u = IF route.page = "clients" THEN ui ELSE FreshUi("clients") OBVIOUS
<1>4. \E slots : Show(At("clients"), u, c, slots)
  BY <1>1, <1>2, <1>3 DEF DeliverDeleted, Succeed
<1>5. At("clients").page = "clients" BY DEF At
<1>6. PICK r : r = At("clients") OBVIOUS
<1>7. Opened(r, c) = c BY <1>5, <1>6 DEF Opened
<1>8. PICK A : A = {TicketList, ClientList} OBVIOUS
<1>9. \A v : Watched(r, v, c) = A BY <1>5, <1>6, <1>8 DEF Watched
<1>10. route' = r /\ cache' = Watch(c, Watching, A) BY <1>4, <1>6, <1>7, <1>9 DEF Show, Watching
<1>11. Watching' = A BY <1>5, <1>6, <1>8, <1>10 DEF Watching, Watched
<1>12. its \cap A = {}
  <2>1. Len(TicketList) = 1 /\ Len(ClientList) = 2 /\ \A k \in its : Len(k) = 3
    BY <1>1 DEF ItsCards, TicketList, ClientList, ClientDetail, ClientTickets, ClientJournal
  <2> QED BY <1>8, <2>1
<1>13. ASSUME NEW key \in its PROVE EntryOf(cache', key).fetch = 0
  <2>1. key \in DOMAIN cache' => cache'[key].fetch = 0
    BY <1>11, <1>12 DEF PanelInv, Cached, Sound, Unobserved
  <2> QED BY <2>1 DEF EntryOf, Blank
<1>14. ASSUME w.last = w.on PROVE its \cap DOMAIN cache' = {}
  <2>1. DOMAIN c = DOMAIN cache \ its
    BY <1>1, <1>2, <1>14, InvalidateDomain DEF Forgotten, Without, ItsCards
  <2>2. DOMAIN cache' = DOMAIN c \cup A BY <1>10, WatchDomain
  <2> QED BY <1>12, <2>1, <2>2
<1> QED BY <1>1, <1>13, <1>14

\* useClients.ts:144-147: when a deletion ends, nothing is being asked about the
\* client that is gone, and its cards have left the cache, unless the panel that
\* deleted it was drawn for another client since.
THEOREM DeletionsForget == Spec => NothingAskedOfTheDeleted
<1>1. ASSUME PanelInv, PanelInv', [Next]_vars
      PROVE  \A s \in Slot : Deletes(s) =>
               LET w == writes[s] IN
               /\ \A key \in ItsCards(w.on) : EntryOf(cache', key).fetch = 0
               /\ w.last = w.on => ItsCards(w.on) \cap DOMAIN cache' = {}
  <2> SUFFICES ASSUME NEW s \in Slot, Deletes(s)
               PROVE  LET w == writes[s] IN
                      /\ \A key \in ItsCards(w.on) : EntryOf(cache', key).fetch = 0
                      /\ w.last = w.on => ItsCards(w.on) \cap DOMAIN cache' = {}
    OBVIOUS
  <2>1. "delete" # None BY NoneAssumption DEF Op
  <2>2. DeliverDeleted(s) BY <1>1, <2>1, CallStays DEF Deletes
  <2> QED BY <1>1, <2>2, ForgottenAfter
<1> QED BY <1>1, PanelIsSound, PTL DEF Spec, NothingAskedOfTheDeleted
=============================================================================
