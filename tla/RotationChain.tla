--------------------------- MODULE RotationChain ---------------------------
(***************************************************************************)
(* What the refresh-token store promises, whatever order its callers'      *)
(* statements run in (domain/session.go): tokens are grouped in sessions,  *)
(* a token gets at most one successor and keeps it, a token succeeds at    *)
(* most one other and only one of its own session, and a dead token never  *)
(* comes back to life.                                                     *)
(***************************************************************************)
CONSTANTS Token, None
VARIABLES session,    \* which chain each issued token belongs to
          successor,  \* the token that replaced it, None while there is none
          dead        \* the revoked tokens

vars == <<session, successor, dead>>

Issued == DOMAIN session
Sessions == {session[p] : p \in Issued}

Init == session = [p \in {} |-> p] /\ successor = [p \in {} |-> p] /\ dead = {}

\* A token joins a session that exists, or starts one.
Issue(p, s) ==
  /\ p \in Token \ Issued
  /\ s = p \/ s \in Sessions
  /\ session' = [q \in Issued \cup {p} |-> IF q = p THEN s ELSE session[q]]
  /\ successor' = [q \in Issued \cup {p} |-> IF q = p THEN None ELSE successor[q]]
  /\ UNCHANGED dead

Replace(p, q) ==
  /\ {p, q} \subseteq Issued /\ p # q
  /\ session[p] = session[q]
  /\ successor[p] = None
  /\ \A o \in Issued : successor[o] # q
  /\ successor' = [successor EXCEPT ![p] = q]
  /\ UNCHANGED <<session, dead>>

\* Revocation takes whole sessions.
Kill(S) ==
  /\ S \subseteq Sessions
  /\ dead' = dead \cup {p \in Issued : session[p] \in S}
  /\ UNCHANGED <<session, successor>>

Next ==
  \/ \E p, s \in Token : Issue(p, s)
  \/ \E p, q \in Token : Replace(p, q)
  \/ \E S \in SUBSET Sessions : Kill(S)

Spec == Init /\ [][Next]_vars
===========================================================================
