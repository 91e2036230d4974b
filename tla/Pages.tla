-------------------------------- MODULE Pages --------------------------------
(***************************************************************************)
(* What tells one entity page of the console from another: the routes its  *)
(* service calls (services/*.service.ts), the permissions that show its    *)
(* buttons (PERM of paths.ts), its form, and the row actions of its menu   *)
(* with the statuses they are offered for.                                 *)
(***************************************************************************)
EXTENDS Forms

\* API of paths.ts: a route, or an action of it.
Route(r) == <<r>>
Action(r, a) == <<r, a>>

\* PERM of paths.ts, "exact METHOD path matches".
Perm(r, op) ==
  CASE op = "create" -> <<"POST", Route(r)>>
    [] op = "update" -> <<"PATCH", Route(r)>>
    [] op = "remove" -> <<"DELETE", Route(r)>>
    [] OTHER -> <<"POST", Action(r, op)>>

Perms(r, ops) == [op \in ops |-> Perm(r, op)]
Crud == {"create", "update", "remove"}

\* http.post, http.patch and http.del.
Post(path) == <<"POST", path>>
Patch(path) == <<"PATCH", path>>
Del(path) == <<"DELETE", path>>

-----------------------------------------------------------------------------
(* The services.                                                           *)

DeadlinesApi ==
  LET r == Route("deadlines") IN
  [create |-> Post(r), update |-> Patch(r), remove |-> Del(r),
   complete |-> Post(Action("deadlines", "complete"))]
ViolationsApi ==
  LET r == Route("violations") IN
  [create |-> Post(r), update |-> Patch(r), remove |-> Del(r),
   resolve |-> Post(Action("violations", "resolve"))]
CompliancesApi ==
  LET r == Route("compliances") IN
  [create |-> Post(r), update |-> Patch(r), remove |-> Del(r),
   check |-> Post(Action("compliances", "check"))]
AuditsApi ==
  LET r == Route("audits") IN
  [create |-> Post(r), update |-> Patch(r), remove |-> Del(r),
   start |-> Post(Action("audits", "start")),
   complete |-> Post(Action("audits", "complete"))]
CorrectiveActionsApi ==
  LET r == Route("corrective-actions") IN
  [create |-> Post(r), update |-> Patch(r), remove |-> Del(r),
   complete |-> Post(Action("corrective-actions", "complete"))]
RegulationsApi ==
  LET r == Route("regulations") IN
  [create |-> Post(r), update |-> Patch(r), remove |-> Del(r)]
ChecklistsApi ==
  LET r == Route("checklists") IN
  [create |-> Post(r), update |-> Patch(r), remove |-> Del(r)]
UsersApi ==
  LET r == Route("users") IN
  [create |-> Post(r), update |-> Patch(r), remove |-> Del(r)]
ReportsApi ==
  LET r == Route("reports") IN
  [generate |-> Post(Action("reports", "generate")), update |-> Patch(r),
   remove |-> Del(r)]
AlertsApi ==
  LET r == Route("alerts") IN
  [create |-> Post(r), update |-> Patch(r), remove |-> Del(r),
   acknowledge |-> Post(Action("alerts", "acknowledge")),
   resolve |-> Post(Action("alerts", "resolve"))]

-----------------------------------------------------------------------------
(* The menus: for which statuses a row action is offered, what the server  *)
(* makes of the status, the form, and what its submit calls on no row.     *)

Offer(from, to) == [from |-> from, to |-> to, rests |-> {}]
Menu(form, new, offers) == [form |-> form, new |-> new, offers |-> offers]
NoOffers == <<>>

DeadlineMenu ==
  Menu(DeadlineForm, "create",
       [complete |-> Offer(DeadlineStatuses \ {"completed"}, {"completed"})])
ViolationMenu ==
  Menu(ViolationForm, "create",
       [resolve |-> Offer(ViolationStatuses \ {"resolved", "closed"}, {"resolved"})])
\* The server decides, and leaves a draft or archived record alone.
ComplianceMenu ==
  Menu(ComplianceForm, "create",
       [check |-> [from |-> ComplianceStatuses,
                   to |-> {"compliant", "non_compliant"},
                   rests |-> {"draft", "archived"}]])
AuditMenu ==
  Menu(AuditForm, "create",
       [start |-> Offer({"scheduled"}, {"in_progress"}),
        complete |-> Offer({"scheduled", "in_progress"}, {"completed"})])
CorrectiveActionMenu ==
  Menu(CorrectiveActionForm, "create",
       [complete |-> Offer(ActionStatuses \ {"completed"}, {"completed"})])
RegulationMenu == Menu(RegulationForm, "create", NoOffers)
ChecklistMenu == Menu(ChecklistForm, "create", NoOffers)
UserMenu == Menu(UserForm, "create", NoOffers)
\* "Generate report" leaves the status to the server.
ReportMenu == Menu(ReportForm, "generate", NoOffers)
\* No form: alerts are raised by the sagas.
AlertMenu ==
  Menu([status |-> Choice(AlertStatuses, "open")], "none",
       [acknowledge |-> Offer({"open"}, {"acknowledged"}),
        resolve |-> Offer(AlertStatuses \ {"resolved"}, {"resolved"})])

-----------------------------------------------------------------------------
(* The pages: a mutation per operation of gates, with the permission that  *)
(* shows its button.                                                       *)

Page(api, gates, menu) == [api |-> api, gates |-> gates, menu |-> menu]

DeadlinesPage ==
  Page(DeadlinesApi, Perms("deadlines", Crud \cup {"complete"}), DeadlineMenu)
ViolationsPage ==
  Page(ViolationsApi, Perms("violations", Crud \cup {"resolve"}), ViolationMenu)
CompliancesPage ==
  Page(CompliancesApi, Perms("compliances", Crud \cup {"check"}), ComplianceMenu)
AuditsPage ==
  Page(AuditsApi, Perms("audits", Crud \cup {"start", "complete"}), AuditMenu)
CorrectiveActionsPage ==
  Page(CorrectiveActionsApi,
       Perms("corrective-actions", Crud \cup {"complete"}), CorrectiveActionMenu)
RegulationsPage == Page(RegulationsApi, Perms("regulations", Crud), RegulationMenu)
ChecklistsPage == Page(ChecklistsApi, Perms("checklists", Crud), ChecklistMenu)
UsersPage == Page(UsersApi, Perms("users", Crud), UserMenu)
AlertsPage ==
  Page(AlertsApi, Perms("alerts", {"acknowledge", "resolve", "remove"}), AlertMenu)

\* Mutant of ReportsPage: the button is shown to who may create reports.
ReportsPageCreate ==
  Page(ReportsApi, [generate |-> Perm("reports", "create"),
                    update |-> Perm("reports", "update"),
                    remove |-> Perm("reports", "remove")], ReportMenu)

ReportsPage ==
  Page(ReportsApi, Perms("reports", {"generate", "update", "remove"}), ReportMenu)

PageNames == {"deadlines", "violations", "compliances", "audits", "actions",
              "regulations", "checklists", "users", "reports", "alerts"}
PageOf(p) ==
  CASE p = "deadlines" -> DeadlinesPage
    [] p = "violations" -> ViolationsPage
    [] p = "compliances" -> CompliancesPage
    [] p = "audits" -> AuditsPage
    [] p = "actions" -> CorrectiveActionsPage
    [] p = "regulations" -> RegulationsPage
    [] p = "checklists" -> ChecklistsPage
    [] p = "users" -> UsersPage
    [] p = "reports" -> ReportsPage
    [] p = "alerts" -> AlertsPage

\* The columns of the forms.
Columns == UNION {{PageOf(p).menu.form[c] : c \in DOMAIN PageOf(p).menu.form} : p \in PageNames}

ASSUME ChoiceAssumption ==
  \A f \in Columns : f.kind = "choice" => Specials \cap f.inputs = {}
=============================================================================
