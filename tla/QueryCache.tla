---------------------------- MODULE QueryCache ----------------------------
(***************************************************************************)
(* What the panel relies on in TanStack Query: a cache from query keys to  *)
(* entries, one fetch in flight per key, invalidation by key prefix.  The  *)
(* library is not part of the repository; these operators are its rules as *)
(* the hooks useClients.ts, useTickets.ts, useTeam.ts... use them.         *)
(* What a query returns is the number of the server state it read.         *)
(***************************************************************************)
EXTENDS Integers, Sequences, SequencesExt

\* entry.fetch: nothing in flight, sent, or the answer on its way back
Asked == -1
Blank == [data |-> 0, stale |-> FALSE, fetch |-> 0, error |-> FALSE]

EntryOf(cache, key) == IF key \in DOMAIN cache THEN cache[key] ELSE Blank

Under(prefix, keys) == {key \in keys : IsPrefix(prefix, key)}

\* A fetch that begins: a query without data forgets its error.
Asking(entry) == [entry EXCEPT !.fetch = Asked, !.error = @ /\ entry.data > 0]

\* The last observer of a key going away aborts its fetch (every queryFn of
\* the panel takes the signal); the first one fetches what is missing or
\* stale and leaves the rest alone.
Watch(cache, before, after) ==
  [key \in DOMAIN cache \cup after |->
     LET entry == EntryOf(cache, key) IN
     CASE key \in before \ after -> [entry EXCEPT !.fetch = 0]
       [] key \in after \ before /\ entry.fetch = 0 /\ (entry.data = 0 \/ entry.stale) ->
            Asking(entry)
       [] OTHER -> entry]

\* invalidateQueries: observed queries are fetched again.  A fetch in flight
\* is cancelled for it, except the first load of a query, which is kept.
Invalidate(cache, keys, observed) ==
  [key \in DOMAIN cache |->
     LET entry == cache[key] IN
     CASE key \notin keys -> entry
       [] key \in keys \cap observed /\ (entry.data > 0 \/ entry.fetch = 0) ->
            [Asking(entry) EXCEPT !.stale = TRUE]
       [] OTHER -> [entry EXCEPT !.stale = TRUE]]

\* setQueryData leaves a fetch in flight alone; removeQueries
Put(cache, key, version) ==
  [k \in DOMAIN cache \cup {key} |->
     IF k = key THEN [EntryOf(cache, key) EXCEPT !.data = version, !.stale = FALSE, !.error = FALSE]
                ELSE cache[k]]
Without(cache, keys) == [key \in DOMAIN cache \ keys |-> cache[key]]

\* A fetch succeeds: the entry is fresh, however old the answer is.
Filled(entry) == [data |-> entry.fetch, stale |-> FALSE, fetch |-> 0, error |-> FALSE]
===========================================================================
