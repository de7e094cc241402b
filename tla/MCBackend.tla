----------------------------- MODULE MCBackend -----------------------------
(***************************************************************************)
(* Small instances of Backend for TLC: one owner, the other members admins *)
(* when the run starts.                                                    *)
(***************************************************************************)
EXTENDS Backend, TLC

CONSTANT boss

MCInitialRole == [u \in User |-> IF u = boss THEN "owner" ELSE "admin"]

\* Request slots and token ids are interchangeable.
Symmetry == Permutations(Request) \cup Permutations(TeamCall) \cup Permutations(Token)

\* What two or three slots are for in a run that has them all: guesses at one
\* password, with at most one session to come of them; or two requests over a
\* member's sessions, while nobody guesses.
Busy == {r \in Request : requests[r].pc # "idle"}
Guessing ==
  /\ \A r \in Busy : requests[r].pc \in {"authenticate", "fail", "welcome", "open", "respond"}
  /\ Cardinality(DOMAIN refresh) <= 1
Rotating ==
  /\ Cardinality(Busy) <= 2
  /\ \A r \in Busy : requests[r].pc # "fail"
  /\ \A u \in User : users[u].failed = 0 /\ attempts[u] = 0
GuessingOrRotating == Guessing \/ Rotating
===========================================================================
