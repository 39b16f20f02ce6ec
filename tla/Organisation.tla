---------------------------- MODULE Organisation ----------------------------
(***************************************************************************)
(* The administration of the portal (tenancy/api_serializers.py): the      *)
(* company of each branch, accounts with role, branch and projects, teams  *)
(* and their leaders, dialers and their projects.  A request validates     *)
(* against the database and saves later, without a lock between the two,   *)
(* so that two administrators may validate before either saves.            *)
(***************************************************************************)
EXTENDS Naturals, FiniteSets

CONSTANTS Firms, Branches, Users, Teams, Dialers, Admins,
          Projects, DialerOf,   \* the campaigns a dialer can have, by its code
          Busy,                 \* teams that calls are assigned to
          FirstFirm, FirstAccount, FirstTeam, FirstDialer, FirstAssigned, \* at the start
          Kept,                 \* a field the request leaves out
          NoRequest, MaxRequests

Roles == {"qa", "team_leader", "project_manager", "supervisor"}
ProjectRoles == {"qa", "team_leader", "project_manager"}
Account == [role : Roles, firm : Firms, branch : Branches, editor : BOOLEAN]

ASSUME OrganisationAssumption ==
  /\ DialerOf \in [Projects -> Dialers] /\ Busy \subseteq Teams
  /\ FirstFirm \in [Branches -> Firms] /\ FirstAccount \in [Users -> Account]
  /\ FirstTeam \in [Teams -> [branch : Branches, leader : Users]]
  /\ FirstDialer \in [Dialers -> Branches] /\ FirstAssigned \in SUBSET (Users \X Projects)
  /\ Kept \notin {given : given \in SUBSET Projects} /\ MaxRequests \in Nat /\ Users \cap Teams = {}

\* At the start every row is one that its serializer would accept.
ASSUME FirstAssumption ==
  /\ \A t \in Teams : /\ FirstAccount[FirstTeam[t].leader].role = "team_leader"
                      /\ FirstAccount[FirstTeam[t].leader].branch = FirstTeam[t].branch
  /\ \A u \in Users :
       LET row == FirstAccount[u]
           held == {p \in Projects : <<u, p>> \in FirstAssigned} IN
       /\ FirstFirm[row.branch] = row.firm
       /\ row.editor => row.role = "project_manager"
       /\ \A p \in held : FirstDialer[DialerOf[p]] = row.branch
       /\ IF row.role \in ProjectRoles THEN row.role # "team_leader" => held # {} ELSE held = {}

VARIABLES firm,     \* the company of each branch
          account,  \* role, company, branch and editor access of each user
          assigned, \* QAProjectAssignment, pairs of a user and a project
          team,     \* branch and leader of each team
          dialer,   \* the branch of each dialer
          offered,  \* the projects that exist (DialerCampaign)
          request,  \* the validated request of each administrator
          overtaken,\* users and teams saved from a validation that another save
                    \* had made out of date (history)
          displaced,\* assignments whose dialer moved since they were checked (history)
          stripped, \* users who lost a project with its campaign (history)
          rebranded,\* branches that changed company (history)
          requests  \* bound counter

orgVars == <<firm, account, assigned, team, dialer, offered, request, overtaken, displaced,
             stripped, rebranded, requests>>
tables == <<firm, account, assigned, team, dialer, offered>>
histories == <<overtaken, displaced, stripped, rebranded>>

OrgInit ==
  /\ firm = FirstFirm /\ account = FirstAccount /\ assigned = FirstAssigned
  /\ team = FirstTeam /\ dialer = FirstDialer /\ offered = Projects
  /\ request = [a \in Admins |-> NoRequest]
  /\ overtaken = {} /\ displaced = {} /\ stripped = {} /\ rebranded = {} /\ requests = 0

ProjectsOf(u) == {p \in Projects : <<u, p>> \in assigned}
LedBranches(u) == {team[t].branch : t \in {s \in Teams : team[s].leader = u}}
Located(p) == dialer[DialerOf[p]]

\* A request that passed its validation.
Validated(a, r) ==
  /\ request[a] = NoRequest /\ requests < MaxRequests
  /\ request' = [request EXCEPT ![a] = r] /\ requests' = requests + 1
  /\ UNCHANGED <<tables, histories>>

\* Every other request validated so far is out of date from here on.
Saved(a) ==
  request' = [b \in Admins |->
                IF b = a \/ request[b] = NoRequest THEN NoRequest
                ELSE [request[b] EXCEPT !.late = TRUE]]

----------------------------------------------------------------------------
(* UserAdminSerializer.                                                    *)

\* Mutant: the teams a user leads are not looked at.
UserFits(u, new, given) ==
  LET held == IF given = Kept THEN ProjectsOf(u) ELSE given IN
  /\ firm[new.branch] = new.firm
  /\ new.editor => new.role = "project_manager"
  /\ IF new.role \in ProjectRoles
     THEN /\ new.role # "team_leader" => held # {}
          /\ \A p \in held : Located(p) = new.branch
     ELSE given \in {Kept, {}}

ValidUser(u, new, given) ==
  LET held == IF given = Kept THEN ProjectsOf(u) ELSE given IN
  /\ firm[new.branch] = new.firm
  /\ new.editor => new.role = "project_manager"
  /\ IF new.role \in ProjectRoles
     THEN /\ new.role # "team_leader" => held # {}
          /\ \A p \in held : Located(p) = new.branch
     ELSE given \in {Kept, {}}
  /\ LedBranches(u) # {} => new.role = "team_leader" /\ LedBranches(u) = {new.branch}

ValidateUser(a, u) ==
  \E new \in Account, given \in (SUBSET offered) \cup {Kept} :
    /\ ValidUser(u, new, given)
    /\ Validated(a, [kind |-> "user", on |-> u, new |-> new, given |-> given, late |-> FALSE])

\* A project of the request was deleted meanwhile: the foreign key refuses it.
Refused(r) == IF r.given = Kept THEN FALSE ELSE ~(r.given \subseteq offered)

\* The whole row is written; projects are replaced when given, and dropped with
\* a role that has none.
SaveUser(a) ==
  LET r == request[a]
      others == {x \in assigned : x[1] # r.on}
      unchecked == r.given = Kept /\ r.late IN
  /\ r # NoRequest /\ r.kind = "user" /\ ~Refused(r)
  /\ account' = [account EXCEPT ![r.on] = r.new]
  /\ assigned' = IF r.new.role \notin ProjectRoles THEN others
                 ELSE IF r.given = Kept THEN assigned
                 ELSE others \cup ({r.on} \X r.given)
  /\ overtaken' = IF r.late THEN overtaken \cup {r.on} ELSE overtaken \ {r.on}
  /\ displaced' = IF unchecked THEN displaced ELSE {x \in displaced : x[1] # r.on}
  /\ stripped' = IF unchecked THEN stripped ELSE stripped \ {r.on}
  /\ Saved(a)
  /\ UNCHANGED <<firm, team, dialer, offered, rebranded, requests>>

RefuseUser(a) ==
  /\ request[a] # NoRequest /\ request[a].kind = "user" /\ Refused(request[a])
  /\ request' = [request EXCEPT ![a] = NoRequest]
  /\ UNCHANGED <<tables, histories, requests>>

----------------------------------------------------------------------------
(* TeamAdminSerializer, BranchAdminSerializer, DialerAdminSerializer.      *)

\* A team that calls are assigned to stays in its branch.
ValidTeam(t, new) ==
  /\ t \in Busy => new.branch = team[t].branch
  /\ account[new.leader].branch = new.branch
  /\ account[new.leader].role = "team_leader"

ValidateTeam(a, t) ==
  \E b \in Branches, l \in Users :
    LET new == [branch |-> b, leader |-> l] IN
    /\ ValidTeam(t, new)
    /\ Validated(a, [kind |-> "team", on |-> t, new |-> new, given |-> Kept, late |-> FALSE])

SaveTeam(a) ==
  /\ request[a] # NoRequest /\ request[a].kind = "team"
  /\ team' = [team EXCEPT ![request[a].on] = request[a].new]
  /\ overtaken' = IF request[a].late THEN overtaken \cup {request[a].on} ELSE overtaken
  /\ Saved(a)
  /\ UNCHANGED <<firm, account, assigned, dialer, offered, displaced, stripped, rebranded, requests>>

\* Nothing is checked of what stands in the branch.
SaveBranch(a, b) ==
  /\ requests < MaxRequests /\ requests' = requests + 1 /\ request[a] = NoRequest
  /\ \E f \in Firms \ {firm[b]} : firm' = [firm EXCEPT ![b] = f]
  /\ rebranded' = rebranded \cup {b}
  /\ Saved(a)
  /\ UNCHANGED <<account, assigned, team, dialer, offered, overtaken, displaced, stripped>>

\* _replace_campaigns: assignments go with the campaigns that are not listed.
Cascade(gone) == {x \in assigned : x[2] \notin gone}

\* Nor of who is assigned to the projects of the dialer.
SaveDialer(a, d) ==
  /\ requests < MaxRequests /\ requests' = requests + 1 /\ request[a] = NoRequest
  /\ \E b \in Branches, listed \in SUBSET {p \in Projects : DialerOf[p] = d} :
       LET gone == {p \in offered \ listed : DialerOf[p] = d} IN
       /\ dialer' = [dialer EXCEPT ![d] = b]
       /\ offered' = (offered \ gone) \cup listed
       /\ assigned' = Cascade(gone)
       /\ stripped' = stripped \cup {u \in Users : ProjectsOf(u) \cap gone # {}}
       /\ displaced' = {x \in displaced \cup {y \in assigned : DialerOf[y[2]] = d /\ b # dialer[d]} :
                          x[2] \notin gone}
  /\ Saved(a)
  /\ UNCHANGED <<firm, account, team, overtaken, rebranded>>

OrgNext == \E a \in Admins :
  \/ \E u \in Users : ValidateUser(a, u)
  \/ \E t \in Teams : ValidateTeam(a, t)
  \/ SaveUser(a) \/ RefuseUser(a) \/ SaveTeam(a)
  \/ \E b \in Branches : SaveBranch(a, b)
  \/ \E d \in Dialers : SaveDialer(a, d)

OrgSpec == OrgInit /\ [][OrgNext]_orgVars

----------------------------------------------------------------------------
(* Properties.                                                             *)

\* Every variable has its type (the tables of tenancy/models.py).
OrgTypeOK ==
  /\ firm \in [Branches -> Firms] /\ account \in [Users -> Account]
  /\ assigned \in SUBSET (Users \X Projects) /\ offered \in SUBSET Projects
  /\ team \in [Teams -> [branch : Branches, leader : Users]]
  /\ dialer \in [Dialers -> Branches]

LeadersInPlace ==
  \A t \in Teams : LET l == team[t].leader IN
    \/ t \in overtaken \/ l \in overtaken
    \/ account[l].role = "team_leader" /\ account[l].branch = team[t].branch

ProjectsInBranch ==
  \A u \in Users \ overtaken :
    /\ \A p \in ProjectsOf(u) : <<u, p>> \in displaced \/ Located(p) = account[u].branch
    /\ ProjectsOf(u) # {} => account[u].role \in ProjectRoles
    /\ account[u].role \in {"qa", "project_manager"} => ProjectsOf(u) # {} \/ u \in stripped

\* The rows that serializers and clean methods check one at a time fit together
\* after any sequence of requests: a team is led by a team leader of its branch
\* (api_serializers.py:198-205, :552-565; models.py:145-152), every project of a user
\* lies in his branch, and analysts and project managers have one
\* (api_serializers.py:520-542).  What the code lets pass is named: a save whose
\* validation another administrator's save had overtaken, a dialer moved to another
\* branch, and a campaign deleted with its assignments.
OrganisationCoherent ==
  /\ LeadersInPlace
  /\ ProjectsInBranch
  /\ \A u \in Users \ overtaken : account[u].editor => account[u].role = "project_manager"
  /\ \A u \in Users \ overtaken :
       account[u].branch \in rebranded \/ firm[account[u].branch] = account[u].firm
=============================================================================
