----------------------------- MODULE Visibility -----------------------------
(***************************************************************************)
(* Who sees which call and which report, whatever the administration has   *)
(* become since they were recorded: the scopes every list, page, export,   *)
(* live channel and AI tool starts from.  A call keeps the branch its      *)
(* dialer had then; a report keeps its author and the leader it was        *)
(* submitted to.                                                           *)
(***************************************************************************)
EXTENDS Organisation

CONSTANT NoOne

Calls == [project : Projects, branch : Branches, team : Teams \cup {NoOne}]
\* managed: submitted, and not zero-defect.
ReportsOf(calls) == [call : calls, author : Users, leader : Users \cup {NoOne},
                     managed : BOOLEAN]

Allowed(u, c) == <<u, c.project>> \in assigned

\* The branch, by its present company and by the present place of the dialer.
Supervises(u, c) ==
  /\ c.branch = account[u].branch /\ firm[c.branch] = account[u].firm
  /\ Located(c.project) = account[u].branch

\* Mutant: a project manager's reports are chosen by project alone.
SeesProjectReports(u, r) ==
  CASE account[u].role = "qa" -> r.author = u
    [] account[u].role = "supervisor" -> Supervises(u, r.call)
    [] account[u].role = "team_leader" ->
         r.leader = u /\ r.managed /\ Allowed(u, r.call)
    [] account[u].role = "project_manager" -> Allowed(u, r.call)

\* scoped_reports
SeesReport(u, r) ==
  CASE account[u].role = "qa" -> r.author = u
    [] account[u].role = "supervisor" -> Supervises(u, r.call)
    [] account[u].role = "team_leader" ->
         r.leader = u /\ r.managed /\ Allowed(u, r.call)
    [] account[u].role = "project_manager" ->
         r.call.branch = account[u].branch /\ Allowed(u, r.call)

\* scoped_calls
SeesCall(u, c) ==
  IF account[u].role = "supervisor" THEN Supervises(u, c)
  ELSE /\ c.branch = account[u].branch /\ Allowed(u, c)
       /\ account[u].role = "team_leader" => c.team # NoOne /\ team[c.team].leader = u

\* branch_projects, and the projects of the performance page.
ChoosesProject(u, p) ==
  /\ p \in offered /\ Located(p) = account[u].branch
  /\ firm[account[u].branch] = account[u].firm
  /\ \/ account[u].role = "supervisor"
     \/ account[u].role = "project_manager" /\ <<u, p>> \in assigned

\* _require_call_editor, the search of the editor and the page it opens.
Edits(u) == account[u].role = "project_manager" /\ account[u].editor
\* Mutant: the editor searches by project alone.
FindsByProject(u, c) == Edits(u) /\ Allowed(u, c)
FindsInEditor(u, c) == Edits(u) /\ Allowed(u, c) /\ c.branch = account[u].branch
OpensInEditor(u, c) == Edits(u) /\ SeesCall(u, c)

----------------------------------------------------------------------------
OwnCompany(u, c) == firm[c.branch] = account[u].firm \/ c.branch \in rebranded

\* After any sequence of moves of users, teams, dialers and projects, nobody sees
\* a call of another company (views.py:66-106; report_scope.py:3, "Never broaden this
\* queryset"), and a report of another company is seen only by who wrote it or was
\* its leader, before moving on: those two scopes (report_scope.py:30-31 and :41-52)
\* look at no branch.  A branch that changed company takes its calls with it.
NobodySeesOtherCompany ==
  \A u \in Users \ overtaken :
    LET foreign == {c \in Calls : ~OwnCompany(u, c)} IN
    /\ \A c \in foreign : ~SeesCall(u, c)
    /\ \A r \in ReportsOf(foreign) : SeesReport(u, r) =>
         \/ r.author = u /\ account[u].role = "qa"
         \/ r.leader = u /\ account[u].role = "team_leader"

\* The pages agree, whatever was moved: the editor's own search scope
\* (views.py:1462-1489) finds exactly the calls its detail page opens
\* (views.py:1577-1582, scoped_calls), and every report of a project the performance
\* page offers (dashboard/views.py:97-107, tenancy/access.py) is one its user can read.
PagesAgree ==
  \A u \in Users, c \in Calls :
    /\ FindsInEditor(u, c) <=> OpensInEditor(u, c)
    /\ ChoosesProject(u, c.project) /\ c.branch = account[u].branch =>
         \A r \in ReportsOf({c}) : SeesReport(u, r)

\* Both hold after any sequence of requests (access/report_scope.py:26-64,
\* calls/views.py:66-106, :1462-1489).
ScopesAgree == NobodySeesOtherCompany /\ PagesAgree
=============================================================================
