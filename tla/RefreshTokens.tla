--------------------------- MODULE RefreshTokens ---------------------------
(***************************************************************************)
(* Table refresh_tokens (queries/refresh_token.sql): a growing set of rows *)
(* linked into rotation chains.  A session_id is a random UUID minted by   *)
(* Login; here a session is named by the first token of its chain.         *)
(* used_at and replaced_by are always written together, so replacedBy #    *)
(* None also stands for used_at IS NOT NULL.                               *)
(***************************************************************************)
EXTENDS TokenPairs

CONSTANT RefreshTTL
ASSUME RefreshTTLAssumption == RefreshTTL \in Nat \ {0}

VARIABLES refresh,  \* the rows, by token
          closed    \* history: sessions a revocation statement has covered

refreshVars == <<refresh, closed>>

RefreshRow == [user : User, session : Token, expires : Nat,
               replacedBy : Token \cup {None}, revoked : BOOLEAN]

RefreshTypeOK ==
  /\ refresh \in [DOMAIN refresh -> RefreshRow]
  /\ DOMAIN refresh \subseteq Token
  /\ closed \subseteq Token

RefreshInit == refresh = EmptyTable /\ closed = {}

---------------------------------------------------------------------------
IsExpired(row, now) == row.expires <= now
IsRevoked(row) == row.revoked
IsUsed(row) == row.replacedBy # None

RowsOf(s) == {p \in DOMAIN refresh : refresh[p].session = s}

CreateRefreshToken(p, u, s, now) ==
  /\ refresh' = [q \in DOMAIN refresh \cup {p} |->
                   IF q = p THEN [user |-> u, session |-> s, expires |-> now + RefreshTTL,
                                  replacedBy |-> None, revoked |-> FALSE]
                            ELSE refresh[q]]
  /\ UNCHANGED closed

\* Mutant: the UPDATE without its used_at IS NULL condition.
MarkUsedAgain(p, q) ==
  /\ refresh' = [refresh EXCEPT ![p].replacedBy = q]
  /\ UNCHANGED closed

\* WHERE id = p AND used_at IS NULL: a second call changes nothing.
MarkUsed(p, q) ==
  /\ refresh' = IF IsUsed(refresh[p]) THEN refresh
                ELSE [refresh EXCEPT ![p].replacedBy = q]
  /\ UNCHANGED closed

RevokeRows(rows) ==
  /\ refresh' = [p \in DOMAIN refresh |->
                   IF p \in rows THEN [refresh[p] EXCEPT !.revoked = TRUE] ELSE refresh[p]]
  /\ closed' = closed \cup {refresh[p].session : p \in rows}

RevokeSession(s) == RevokeRows(RowsOf(s))
RevokeAllForUser(u) == RevokeRows({p \in DOMAIN refresh : refresh[p].user = u})
===========================================================================
