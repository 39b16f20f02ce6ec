--------------------------- MODULE TeamAssignment ---------------------------
(***************************************************************************)
(* How a call gets its team, and who is told when it has none.  A callback *)
(* names the agent's team by a prefix, the name of a team or of a leader;  *)
(* calls/webhooks.py resolves it (tenancy/services.py) before it opens the *)
(* transaction that writes the row.  Saving a team in the administration   *)
(* (TeamAdminSerializer of tenancy/api_serializers.py) gives it the calls  *)
(* that were waiting for it and resolves the unknown-team notification     *)
(* (notifications/services.py), in one transaction that sees what others   *)
(* committed before each of its statements.  One branch; CallMatching says *)
(* which row a callback finds.                                             *)
(***************************************************************************)
EXTENDS FiniteSets, Naturals

CONSTANTS AgentCalls, Callbacks,
          Teams,        \* team names
          Leaders,      \* the full names of the team leaders
          NoTeam,
          AgentPrefix,  \* the prefix in the full name of each call's agent
          MaxHeard,     \* bound: callbacks received
          MaxSaves      \* bound: teams created or edited

Prefixes == Teams \cup Leaders
CallRow == [prefix : Prefixes \cup {NoTeam}, team : Teams \cup {NoTeam}]

ASSUME TeamAssumption ==
  /\ Teams \cap Leaders = {} /\ NoTeam \notin Prefixes \cup AgentCalls \cup CallRow
  /\ AgentPrefix \in [AgentCalls -> Prefixes] /\ IsFiniteSet(Teams)
  /\ MaxHeard \in Nat /\ MaxSaves \in Nat

VARIABLES team,     \* the tenancy_team table: leader and state of each team
          agentCall, \* team_name prefix and team of each call row, or NoTeam
          heard,    \* callbacks between looking the team up and their commit, with the copy
                    \* of the row get_or_create has read
          admin,    \* the team being saved, between its two statements
          notice,   \* the unknown-team notification of each prefix
          heardCount, saves, \* bound counters
          merged,    \* calls that got a prefix without a team from a merge (history)
          overtaken, \* calls a team was saved around the callback of (history)
          unheard    \* prefixes a save gave to a team other than its own (history)

history == <<merged, overtaken, unheard>>
teamVars == <<team, agentCall, heard, admin, notice, heardCount, saves, history>>

Active(t) == team[t].state = "active"

\* resolve_team_prefix: the team of that name, or the only team of that leader.
Resolve(tbl, p) ==
  LET active == {t \in Teams : tbl[t].state = "active"}
      named  == {t \in active : t = p}
      led    == {t \in active : tbl[t].leader = p}
  IN IF named # {} THEN CHOOSE t \in named : TRUE
     ELSE IF Cardinality(led) = 1 THEN CHOOSE t \in led : TRUE ELSE NoTeam

TeamInit ==
  /\ team = [t \in Teams |-> [state |-> "absent", leader |-> NoTeam]]
  /\ agentCall = [c \in AgentCalls |-> NoTeam] /\ notice = [p \in Prefixes |-> "none"]
  /\ heard = [q \in Callbacks |-> NoTeam] /\ admin = NoTeam
  /\ heardCount = 0 /\ saves = 0
  /\ merged = {} /\ overtaken = {} /\ unheard = {}

----------------------------------------------------------------------------
\* The agent's full name is missing from some callbacks.
LookUpTeam(q, c, kind, prefix) ==
  /\ heard[q] = NoTeam /\ heardCount < MaxHeard /\ heardCount' = heardCount + 1
  /\ prefix \in {AgentPrefix[c], NoTeam}
  /\ heard' = [heard EXCEPT ![q] =
       [call |-> c, kind |-> kind, prefix |-> prefix, at |-> "looked", seen |-> NoTeam,
        team |-> IF prefix = NoTeam THEN NoTeam ELSE Resolve(team, prefix)]]
  /\ UNCHANGED <<team, agentCall, admin, notice, saves, history>>

\* Mutant: a disposition that cannot resolve the team forgets it.
MergedForgets(row, seen, r) ==
  IF r.kind = "start"
    THEN [prefix |-> IF seen.prefix = NoTeam /\ r.prefix # NoTeam THEN r.prefix ELSE row.prefix,
          team   |-> IF seen.team = NoTeam /\ r.team # NoTeam THEN r.team ELSE row.team]
    ELSE [prefix |-> IF r.prefix = NoTeam THEN seen.prefix ELSE r.prefix, team |-> r.team]

\* merge_start fills what was empty when the row was read and saves these columns;
\* merge_final overwrites what it has and saves the row as it was read.
\* The identity task of a stale call merges the way merge_final does.
Merged(row, seen, r) ==
  IF r.kind = "start"
    THEN [prefix |-> IF seen.prefix = NoTeam /\ r.prefix # NoTeam THEN r.prefix ELSE row.prefix,
          team   |-> IF seen.team = NoTeam /\ r.team # NoTeam THEN r.team ELSE row.team]
    ELSE [prefix |-> IF r.prefix = NoTeam THEN seen.prefix ELSE r.prefix,
          team   |-> IF r.team = NoTeam THEN seen.team ELSE r.team]

Waiting(row) == row # NoTeam /\ row.prefix # NoTeam /\ row.team = NoTeam
UnknownTeam(r) == r.prefix # NoTeam /\ r.team = NoTeam

\* Mutant: an unknown team is reported once and never again.
QueueOnce(r) ==
  notice' = IF UnknownTeam(r) /\ notice[r.prefix] = "none"
              THEN [notice EXCEPT ![r.prefix] = "open"] ELSE notice

\* queue_unknown_team_notification opens, or reopens, the prefix's one notice.
Queue(r) ==
  notice' = IF UnknownTeam(r) THEN [notice EXCEPT ![r.prefix] = "open"] ELSE notice

At(q, place) == heard[q] # NoTeam /\ heard[q].at = place

Answer(q) ==
  /\ heard' = [heard EXCEPT ![q] = NoTeam]
  /\ overtaken' = IF admin # NoTeam THEN overtaken \cup {heard[q].call} ELSE overtaken
  /\ UNCHANGED <<team, admin, heardCount, saves, unheard>>

\* A row the team being saved has updated stays locked until that commits.
MergeSeen(r, seen) ==
  /\ admin # NoTeam => r.call \notin admin.assigned
  /\ agentCall' = [agentCall EXCEPT ![r.call] = Merged(@, seen, r)]
  /\ merged' = IF Waiting(agentCall'[r.call]) /\ ~Waiting(agentCall[r.call])
                 THEN merged \cup {r.call} ELSE merged
  /\ UNCHANGED notice

\* The transaction looks for the row of the call: it locks and merges it ...
MergeInto(q) ==
  /\ At(q, "looked") /\ agentCall[heard[q].call] # NoTeam
  /\ MergeSeen(heard[q], agentCall[heard[q].call]) /\ Answer(q)

\* ... or finds none, and goes on to get_or_create,
FindNone(q) ==
  /\ At(q, "looked") /\ agentCall[heard[q].call] = NoTeam
  /\ heard' = [heard EXCEPT ![q].at = "insert"]
  /\ UNCHANGED <<team, agentCall, admin, notice, heardCount, saves, history>>

\* which creates the row,
Create(q) ==
  /\ At(q, "insert") /\ agentCall[heard[q].call] = NoTeam
  /\ agentCall' = [agentCall EXCEPT ![heard[q].call] =
                     [prefix |-> heard[q].prefix, team |-> heard[q].team]]
  /\ Queue(heard[q]) /\ UNCHANGED merged /\ Answer(q)

\* or reads the one that another request has created meanwhile, without locking it,
Get(q) ==
  /\ At(q, "insert") /\ agentCall[heard[q].call] # NoTeam
  /\ heard' = [heard EXCEPT ![q].at = "merge", ![q].seen = agentCall[heard[q].call]]
  /\ UNCHANGED <<team, agentCall, admin, notice, heardCount, saves, history>>

\* and merges into that copy.
MergeCopy(q) == At(q, "merge") /\ MergeSeen(heard[q], heard[q].seen) /\ Answer(q)

Receipt(q) == MergeInto(q) \/ FindNone(q) \/ Create(q) \/ Get(q) \/ MergeCopy(q)

----------------------------------------------------------------------------
Unambiguous(t, l) == \A u \in Teams \ {t} : ~(Active(u) /\ team[u].leader = l)

\* The prefixes that _assign_waiting_calls looks for.
Claims(t, l, state) ==
  {t} \cup (IF state = "active" /\ Unambiguous(t, l) THEN {l} ELSE {})

\* The team is saved and the waiting calls are updated ...
SaveTeam(t, l, state) ==
  /\ admin = NoTeam /\ saves < MaxSaves /\ saves' = saves + 1
  /\ admin' = [team |-> t, as |-> [state |-> state, leader |-> l],
               claims |-> Claims(t, l, state),
               assigned |-> {c \in AgentCalls : Waiting(agentCall[c]) /\
                                           agentCall[c].prefix \in Claims(t, l, state)}]
  /\ UNCHANGED <<team, agentCall, heard, notice, heardCount, history>>

\* resolve_unknown_team_notifications
Resolved(claims) ==
  [p \in Prefixes |-> IF p \in claims /\ notice[p] = "open" THEN "resolved" ELSE notice[p]]

\* ... then the notifications are resolved, and all of it is committed.
SaveCommit ==
  /\ admin # NoTeam /\ admin' = NoTeam
  /\ team' = [team EXCEPT ![admin.team] = admin.as]
  /\ agentCall' = [c \in AgentCalls |-> IF c \in admin.assigned
                                THEN [agentCall[c] EXCEPT !.team = admin.team] ELSE agentCall[c]]
  /\ notice' = Resolved(admin.claims)
  /\ overtaken' = overtaken \cup {c \in AgentCalls : \E q \in Callbacks :
                                    heard[q] # NoTeam /\ heard[q].call = c}
  /\ unheard' = unheard \cup {p \in Prefixes :
       Resolve(team, p) = NoTeam /\ Resolve(team', p) \notin {NoTeam, admin.team}}
  /\ UNCHANGED <<heard, heardCount, saves, merged>>

TeamNext ==
  \/ \E q \in Callbacks, c \in AgentCalls, kind \in {"start", "final"},
        prefix \in Prefixes \cup {NoTeam} : LookUpTeam(q, c, kind, prefix)
  \/ \E q \in Callbacks : Receipt(q)
  \/ \E t \in Teams, l \in Leaders, state \in {"active", "inactive"} : SaveTeam(t, l, state)
  \/ SaveCommit

TeamSpec == TeamInit /\ [][TeamNext]_teamVars

----------------------------------------------------------------------------
Team == [state : {"absent", "active", "inactive"}, leader : Leaders \cup {NoTeam}]

TeamTypeOK ==
  /\ team \in [Teams -> Team]
  /\ agentCall \in [AgentCalls -> CallRow \cup {NoTeam}]
  /\ heard \in [Callbacks -> {NoTeam} \cup
       [call : AgentCalls, kind : {"start", "final"}, prefix : Prefixes \cup {NoTeam},
        team : Teams \cup {NoTeam}, at : {"looked", "insert", "merge"},
        seen : CallRow \cup {NoTeam}]]
  /\ admin \in {NoTeam} \cup [team : Teams, as : Team, claims : SUBSET Prefixes,
                            assigned : SUBSET AgentCalls]
  /\ notice \in [Prefixes -> {"none", "open", "resolved"}]
  /\ heardCount \in Nat /\ saves \in Nat
  /\ merged \in SUBSET AgentCalls /\ overtaken \in SUBSET AgentCalls /\ unheard \in SUBSET Prefixes

(* Someone is told of every call that waits for a team, also after the      *)
(* prefix was resolved and became unknown again; unless the prefix came     *)
(* with a merge, which reports nothing, or a team was saved around the      *)
(* callback.                                                                *)
WaitingIsReported == \A c \in AgentCalls \ (merged \cup overtaken) :
  Waiting(agentCall[c]) => notice[agentCall[c].prefix] = "open"

(* No call waits for a team that its prefix names, whatever was saved when: *)
(* saving a team takes the waiting calls along.  Two exceptions: a callback *)
(* that looked the team up before the save and wrote its row after it, and  *)
(* a leader's name that became unambiguous because another team was saved.  *)
ResolvableIsAssigned == \A c \in AgentCalls \ overtaken :
  Waiting(agentCall[c]) /\ agentCall[c].prefix \notin unheard => Resolve(team, agentCall[c].prefix) = NoTeam

(* A warning about a prefix is gone once the prefix names a team, with the  *)
(* same two exceptions.                                                     *)
WarningIsCurrent == \A p \in Prefixes \ unheard :
  notice[p] = "open" /\ Resolve(team, p) # NoTeam =>
    \E c \in overtaken : AgentPrefix[c] = p

(* Whatever callbacks and saves of teams cross, a call waits only for a     *)
(* team that does not exist, and is reported exactly while it waits         *)
(* (webhooks.py:188-191, :453-464, tenancy/services.py,                     *)
(* tenancy/api_serializers.py:232-262).                                     *)
WaitingIsRight == WaitingIsReported /\ ResolvableIsAssigned /\ WarningIsCurrent

(* A call that has a team is left without one by one thing only: a          *)
(* disposition that knows no team and saves the whole row from the copy     *)
(* get_or_create read, without its lock, before the call had the team       *)
(* (webhooks.py:388, :423, :447-464).  No callback that locked its row, no  *)
(* Start Call, no creation and no save of a team does.                      *)
SavesTeamless(q, c) ==
  /\ At(q, "merge") /\ heard'[q] = NoTeam /\ heard[q].call = c
  /\ heard[q].kind = "final" /\ heard[q].team = NoTeam /\ heard[q].seen.team = NoTeam
TeamKept == [][\A c \in AgentCalls : agentCall[c] # NoTeam =>
  (agentCall[c].team # NoTeam /\ agentCall'[c].team = NoTeam =>
     \E q \in Callbacks : SavesTeamless(q, c))]_agentCall
=============================================================================
