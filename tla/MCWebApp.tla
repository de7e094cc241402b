------------------------------ MODULE MCWebApp ------------------------------
(***************************************************************************)
(* Small instances of WebApp for TLC.  Each scene is a visit to the        *)
(* screens whose calls meet; a behaviour plays one of them.                *)
(***************************************************************************)
EXTENDS WebApp, TLC

CONSTANTS c1, c2, t1, m1, m2, e1, e2

MCFirstDb ==
  [clients |-> c1 :> [status |-> "active", email |-> e1, code |-> 0] @@
               c2 :> [status |-> "paused", email |-> None, code |-> 0],
   tickets |-> t1 :> [client |-> c1, status |-> "open", priority |-> "normal",
                      assignee |-> None, messages |-> 1],
   team |-> m1 :> "owner" @@ m2 :> "support",
   invited |-> {}, template |-> "default"]

By(op, on, arg) == [op |-> op, on |-> on, arg |-> arg]
Visiting(effort, start, routes, finds, others) ==
  [effort |-> effort, start |-> start, routes |-> routes, finds |-> finds, others |-> others]

\* The screens of each visit are those whose queries and calls meet.
MCScene ==
  {Visiting(5, At("clients"), {At("clients"), ClientAt(c1, "overview")}, {Client, {c1}, {}},
            {By("suspend", c1, None), By("delete", c2, None)}),
   Visiting(5, At("new"), {At("new")}, {},
            {By("create", c, [email |-> e2, days |-> 0]) : c \in Client}),
   Visiting(4, At("clients"), {At("clients"), ClientAt(c1, "access")}, {}, {}),
   Visiting(4, ClientAt(c1, "access"), {ClientAt(c1, "access"), ClientAt(c2, "access")}, {},
            {By("resume", c2, None)}),
   Visiting(4, ClientAt(c1, "tickets"), {ClientAt(c1, "tickets"), ClientAt(c1, "journal")}, {},
            {By("delete", c1, None)}),
   Visiting(3, At("tickets"), {At("tickets"), ClientAt(c1, "tickets")}, {},
            {By("status", t1, None), By("delete", c1, None)}),
   Visiting(5, At("team"), {At("team")}, {}, {By("revoke", m2, None), By("role", m2, "admin")}),
   Visiting(5, At("settings"), {At("settings"), At("overview")}, {},
            {By("template", None, "ours")}),
   Visiting(2, At("journal"), {At("journal")}, {}, {})}

MCMoment == 0..17
=============================================================================
