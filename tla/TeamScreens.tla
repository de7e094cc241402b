---------------------------- MODULE TeamScreens ----------------------------
(***************************************************************************)
(* The team, the settings and the journal of the whole team                *)
(* (src/web/src/features/team, settings, journal).                         *)
(***************************************************************************)
EXTENDS Stores

CONSTANTS Text,    \* what the message template may say
          Moment,  \* when entries of the journal occurred, 0..n; n is now
          PerDay   \* moments in a day

ASSUME MomentAssumption == PerDay \in Nat \ {0} /\ Moment = 0..Cardinality(Moment) - 1

DefaultText == "default"
InvitableRoles == {"admin", "support", "viewer"}

---------------------------------------------------------------------------
(* TeamPage                                                                *)

OnTeam == route.page = "team"
Chosen == Selected(route, ui, cache)
Locked == View(Team).team[Chosen] = "owner"

\* MemberDetail is keyed by the member: another row, another component.
SelectMember(m) ==
  /\ OnTeam /\ Shown(cache, Team) /\ m \in DOMAIN View(Team).team /\ m # ui.member
  /\ ~ui.revoke /\ ~ui.invite
  /\ Touch([ui EXCEPT !.member = m])
CloseMember == Chosen # None /\ ~ui.revoke /\ Touch([ui EXCEPT !.member = None])

\* No guard against a role that is still on its way.
ChangeRole(role) ==
  /\ Chosen # None /\ ~Locked /\ role # View(Team).team[Chosen]
  /\ Mutate("role", Chosen, role, "member")

AskRevoke == Chosen # None /\ ~Locked /\ ~ui.revoke /\ Touch([ui EXCEPT !.revoke = TRUE])
CancelRevoke == Chosen # None /\ ui.revoke /\ Touch([ui EXCEPT !.revoke = FALSE, !.typed = None])
TypeMemberEmail(m) ==
  Chosen # None /\ ui.revoke /\ m # ui.typed /\ Touch([ui EXCEPT !.typed = m])
RevokeMember ==
  /\ Chosen # None /\ ui.revoke /\ ui.typed = Chosen /\ ~Pending("revoke", "revoke")
  /\ Mutate("revoke", Chosen, None, "revoke")

OpenInvite == OnTeam /\ ~ui.invite /\ ~ui.revoke /\ Touch([ui EXCEPT !.invite = TRUE])
CloseInvite == OnTeam /\ ui.invite /\ Touch([ui EXCEPT !.invite = FALSE, !.email = None])
TypeInviteEmail(e) == OnTeam /\ ui.invite /\ e # ui.email /\ Touch([ui EXCEPT !.email = e])
Invite ==
  /\ OnTeam /\ ui.invite /\ ui.email # None /\ ~Pending("invite", "invite")
  /\ Mutate("invite", None, ui.email, "invite")
DismissLink == OnTeam /\ ui.sent # None /\ Touch([ui EXCEPT !.sent = None])

\* The list is invalidated whatever the call was.  onRevoked belongs to the
\* hook and closes the panel of whoever is selected by now; the link of an
\* invitation is handed over only while its window is open.
TeamKeys == {Team}
DeliverTeam(s) ==
  LET w == writes[s] IN
  /\ w.op \in {"role", "revoke", "invite"} /\ w.at = "done"
  /\ Succeed(s, NoWrite, route,
             CASE w.op = "revoke" /\ w.home ->
                    [ui EXCEPT !.member = None, !.revoke = FALSE, !.typed = None]
               [] w.op = "invite" /\ w.here ->
                    [ui EXCEPT !.invite = FALSE, !.email = None, !.sent = w.arg]
               [] OTHER -> ui,
             Invalidate(cache, TeamKeys, Watching), TeamKeys)
---------------------------------------------------------------------------
(* SettingsPage                                                            *)

OnSettings == route.page = "settings" /\ Shown(cache, Settings)
Dirty == ui.text # View(Settings).template

TypeText(text) ==
  OnSettings /\ text # ui.text /\ Touch([ui EXCEPT !.text = text, !.typed = text])
RestoreDefault ==
  OnSettings /\ ui.text # DefaultText /\ Touch([ui EXCEPT !.text = DefaultText, !.typed = DefaultText])
SaveTemplate ==
  OnSettings /\ Dirty /\ ~Pending("template", "page") /\ Mutate("template", None, ui.text, "page")
DeliverSaved(s) ==
  /\ writes[s].op = "template" /\ writes[s].at = "done"
  /\ Succeed(s, NoWrite, route, ui, Invalidate(cache, {Settings}, Watching), {Settings})
---------------------------------------------------------------------------
(* JournalPage.  The page filters what was loaded by period; the dates of  *)
(* a period of one's own are days, None where the field cannot be read.    *)

Present == Cardinality(Moment) - 1
OnJournal == route.page = "journal" /\ Shown(cache, Journal)

EndOfDayMissed(to) == to * PerDay
EndOfDay(to) == to * PerDay + PerDay - 1

WithinPeriod(occurred) ==
  IF ui.period \in {7, 30} THEN occurred >= Present - ui.period * PerDay
  ELSE /\ ui.from # None => occurred >= ui.from * PerDay
       /\ ui.to # None => occurred <= EndOfDay(ui.to)

\* The chips and the two fields, or the reset of all filters.
SetPeriod(period, from, to) ==
  /\ OnJournal /\ <<period, from, to>> # <<ui.period, ui.from, ui.to>>
  /\ \/ period = 0
     \/ <<from, to>> = <<ui.from, ui.to>>
     \/ <<period, from, to>> = <<7, None, None>>
  /\ Touch([ui EXCEPT !.period = period, !.from = from, !.to = to])
===========================================================================
