------------------------------- MODULE MCDesk -------------------------------
(***************************************************************************)
(* Small instances of Desk for TLC: one ticket of one client, and an       *)
(* owner, a member of support and a viewer at work.                        *)
(***************************************************************************)
EXTENDS Desk, TLC

CONSTANTS boss, helper, t1, k1

MCClaimedRole == [u \in User |-> CASE u = boss -> "owner" [] u = helper -> "support"
                                   [] OTHER -> "viewer"]
MCTicketOf == k1 :> t1
MCTrialDays == {0, 1}

\* Job slots, emails and message ids are interchangeable; tenant t1 is not.
Symmetry == Permutations(Job) \cup Permutations(Email) \cup Permutations(Message)
===========================================================================
