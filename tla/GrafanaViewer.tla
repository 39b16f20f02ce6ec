---------------------------- MODULE GrafanaViewer ----------------------------
(***************************************************************************)
(* The shared Grafana viewer of the company that has analytics             *)
(* (analytics/tasks.py, CompanyAdminSerializer).  An administrator saves   *)
(* the company, a task brings the account in Grafana into line with the    *)
(* row, and a periodic task repeats it for enabled companies.  Grafana     *)
(* takes no part in a transaction: every call to it is a step, may fail,   *)
(* and may cross another task or a save.                                   *)
(***************************************************************************)
EXTENDS Naturals, FiniteSets

CONSTANTS Workers, Logins, Passwords, NoValue,
          MaxSaves, MaxFaults,
          MaxAccounts \* accounts Grafana creates, in all

ASSUME ViewerAssumption ==
  /\ NoValue \notin Logins /\ NoValue \notin Passwords /\ NoValue \notin Nat
  /\ MaxSaves \in Nat /\ MaxFaults \in Nat /\ MaxAccounts \in Nat

VARIABLES company, \* the row
          grafana, \* the accounts in Grafana, by their id
          created, \* accounts created so far, the source of ids
          queued,  \* sync_grafana_viewer is in the queue
          sync,    \* each worker: where it is, the row it read, the id it found
          admin,   \* the row an administrator's request loaded, or NoValue
          lost,    \* ids no row remembers after a fault or an overwriting save (history)
          crossed, \* the last save disabled analytics under a running task (history)
          gaveUp,  \* a task was dropped after its last retry, since that save (history)
          saves, faults \* bound counters

viewerVars == <<company, grafana, created, queued, sync, admin, lost, crossed, gaveUp,
                saves, faults>>

Companies == [enabled : BOOLEAN, active : BOOLEAN, login : Logins \cup {NoValue},
              password : Passwords \cup {NoValue},
              id : 1..MaxAccounts \cup {NoValue}, synced : Logins \cup {NoValue}]
Off(row) == ~row.enabled \/ ~row.active
Configured(row) == row.enabled /\ row.login # NoValue /\ row.password # NoValue

Idle == [pc |-> "idle", row |-> NoValue, id |-> NoValue]

\* create: the company is there, with analytics, and its first task is queued.
ViewerInit ==
  /\ \E l \in Logins, p \in Passwords :
       company = [enabled |-> TRUE, active |-> TRUE, login |-> l, password |-> p,
                  id |-> NoValue, synced |-> NoValue]
  /\ grafana = [i \in {} |-> NoValue] /\ created = 0
  /\ queued = TRUE /\ sync = [w \in Workers |-> Idle] /\ admin = NoValue
  /\ lost = {} /\ crossed = FALSE /\ gaveUp = FALSE
  /\ saves = 0 /\ faults = 0

Without(id) == [i \in DOMAIN grafana \ {id} |-> grafana[i]]
Accounts(login) == {i \in DOMAIN grafana : grafana[i].login = login}

----------------------------------------------------------------------------
(* The administrator.                                                      *)

\* The view loads the whole row, long before it writes the whole row.
AdminLoads ==
  /\ admin = NoValue /\ saves < MaxSaves
  /\ admin' = company /\ saves' = saves + 1
  /\ UNCHANGED <<company, grafana, created, queued, sync, lost, crossed, gaveUp, faults>>

Form == [enabled : BOOLEAN, active : BOOLEAN,
         login : Logins \cup {admin.login}, password : Passwords \cup {admin.password}]

\* validate: analytics needs a login and a password.
Saveable == {form \in Form : form.enabled => Configured(form)}

\* Mutant: only the enabled company is queued.
QueuesEnabled(row) == row.enabled

\* On enable and on disable, if the loaded row knew an account.
Queues(row) == row.enabled \/ row.id # NoValue

\* update: every column of the loaded row is written back, the id among them.
AdminSaves ==
  /\ admin # NoValue
  /\ \E form \in Saveable :
       /\ company' = [admin EXCEPT !.enabled = form.enabled, !.active = form.active,
                                   !.login = form.login, !.password = form.password]
       /\ queued' = (queued \/ Queues(company'))
       /\ crossed' = (Off(company') /\ \E w \in Workers : sync[w].pc # "idle")
  /\ lost' = IF company.id \in {NoValue, admin.id} THEN lost ELSE lost \cup {company.id}
  /\ gaveUp' = FALSE /\ admin' = NoValue
  /\ UNCHANGED <<grafana, created, sync, saves, faults>>

----------------------------------------------------------------------------
(* sync_grafana_viewer.                                                    *)

Move(w, from, to) == sync[w].pc = from /\ sync' = [sync EXCEPT ![w] = to]
At(w, pc) == [sync[w] EXCEPT !.pc = pc]
Local == <<company, created, queued, admin, lost, crossed, gaveUp, saves, faults>>

\* The task reads the row once; what it does next follows that copy.
FirstStep(row) ==
  IF Off(row) THEN IF row.id # NoValue THEN "remove" ELSE "idle"
  ELSE IF ~Configured(row) THEN "idle"
  ELSE IF row.id # NoValue /\ row.synced \notin {NoValue, row.login} THEN "rename"
  ELSE "lookup"

Take(w) ==
  /\ queued /\ queued' = FALSE
  /\ Move(w, "idle", IF FirstStep(company) = "idle" THEN Idle
                     ELSE [pc |-> FirstStep(company), row |-> company, id |-> NoValue])
  /\ UNCHANGED <<company, grafana, created, admin, lost, crossed, gaveUp, saves, faults>>

\* An account already gone is as good as deleted.
RemoveAccount(w) ==
  /\ Move(w, "remove", At(w, "clear"))
  /\ grafana' = Without(sync[w].row.id)
  /\ UNCHANGED Local

ClearRow(w) ==
  /\ Move(w, "clear", Idle)
  /\ company' = [company EXCEPT !.id = NoValue, !.synced = NoValue]
  /\ lost' = IF company.id \in {NoValue, sync[w].row.id} THEN lost ELSE lost \cup {company.id}
  /\ UNCHANGED <<grafana, created, queued, admin, crossed, gaveUp, saves, faults>>

RemoveRenamed(w) ==
  /\ Move(w, "rename", At(w, "lookup"))
  /\ grafana' = Without(sync[w].row.id)
  /\ UNCHANGED Local

\* Mutant: an account that exists is taken as it is.
LookupTrusts(w) ==
  /\ sync[w].pc = "lookup"
  /\ \/ /\ Accounts(sync[w].row.login) = {} /\ Move(w, "lookup", At(w, "create"))
     \/ \E i \in Accounts(sync[w].row.login) :
          Move(w, "lookup", [At(w, "store") EXCEPT !.id = i])
  /\ UNCHANGED <<grafana, Local>>

Lookup(w) ==
  /\ sync[w].pc = "lookup"
  /\ \/ /\ Accounts(sync[w].row.login) = {} /\ Move(w, "lookup", At(w, "create"))
     \/ \E i \in Accounts(sync[w].row.login) :
          Move(w, "lookup", [At(w, "password") EXCEPT !.id = i])
  /\ UNCHANGED <<grafana, Local>>

\* Grafana may answer without the id, which is then looked up.
Create(w) ==
  /\ sync[w].pc = "create"
  /\ Accounts(sync[w].row.login) = {} /\ created < MaxAccounts
  /\ created' = created + 1
  /\ grafana' = [i \in DOMAIN grafana \cup {created'} |->
                   IF i = created' THEN [login |-> sync[w].row.login,
                                         password |-> sync[w].row.password]
                   ELSE grafana[i]]
  /\ \/ Move(w, "create", [At(w, "password") EXCEPT !.id = created'])
     \/ Move(w, "create", At(w, "lookup_again"))
  /\ UNCHANGED <<company, queued, admin, lost, crossed, gaveUp, saves, faults>>

LookupAgain(w) ==
  /\ sync[w].pc = "lookup_again"
  /\ \E i \in Accounts(sync[w].row.login) :
       Move(w, "lookup_again", [At(w, "password") EXCEPT !.id = i])
  /\ UNCHANGED <<grafana, Local>>

\* An account deleted meanwhile answers 404, which _request takes for an answer.
UpdatePassword(w) ==
  /\ Move(w, "password", At(w, "store"))
  /\ grafana' = [i \in DOMAIN grafana |->
                   IF i = sync[w].id THEN [grafana[i] EXCEPT !.password = sync[w].row.password]
                   ELSE grafana[i]]
  /\ UNCHANGED Local

\* The id is written last, whatever the row says by now.
StoreId(w) ==
  /\ Move(w, "store", Idle)
  /\ company' = [company EXCEPT !.id = sync[w].id, !.synced = sync[w].row.login]
  /\ lost' = IF company.id \in {NoValue, sync[w].id} THEN lost ELSE lost \cup {company.id}
  /\ UNCHANGED <<grafana, created, queued, admin, crossed, gaveUp, saves, faults>>

\* Accounts of the login that the row does not know are forgotten by a task that ends.
Forgotten(w) == Accounts(sync[w].row.login) \ {company.id}

\* An HTTP error, a lost worker, or an account that came or went between two
\* calls: the task starts over from the row, or its retries are exhausted.
Fail(w) ==
  /\ sync[w].pc # "idle"
  /\ \/ faults < MaxFaults /\ faults' = faults + 1
     \/ /\ \/ sync[w].pc = "create" /\ Accounts(sync[w].row.login) # {}
           \/ sync[w].pc = "lookup_again" /\ Accounts(sync[w].row.login) = {}
        /\ faults' = faults
  /\ sync' = [sync EXCEPT ![w] = Idle]
  /\ \/ queued' = TRUE /\ gaveUp' = gaveUp
     \/ queued' = queued /\ gaveUp' = TRUE
  /\ lost' = lost \cup Forgotten(w)
  /\ UNCHANGED <<company, grafana, created, admin, crossed, saves>>

WorkerStep(w) ==
  \/ Take(w) \/ RemoveAccount(w) \/ ClearRow(w) \/ RemoveRenamed(w) \/ Lookup(w)
  \/ Create(w) \/ LookupAgain(w) \/ UpdatePassword(w) \/ StoreId(w)

\* sync_all_grafana_viewers, every ten minutes, for enabled companies only.
SyncAll ==
  /\ ~Off(company) /\ ~queued /\ queued' = TRUE
  /\ UNCHANGED <<company, grafana, created, sync, admin, lost, crossed, gaveUp,
                 saves, faults>>

\* Grafana restarts without its users.
GrafanaRestarts ==
  /\ faults < MaxFaults /\ faults' = faults + 1
  /\ grafana' = [i \in {} |-> NoValue]
  /\ UNCHANGED <<company, created, queued, sync, admin, lost, crossed, gaveUp, saves>>

ViewerNext ==
  \/ AdminLoads \/ AdminSaves \/ SyncAll \/ GrafanaRestarts
  \/ \E w \in Workers : WorkerStep(w) \/ Fail(w)

ViewerSpec == ViewerInit /\ [][ViewerNext]_viewerVars

\* The beat ticks for ever, and a worker that runs goes on or fails.
ViewerFairness ==
  /\ WF_viewerVars(SyncAll)
  /\ \A w \in Workers : WF_viewerVars(WorkerStep(w) \/ Fail(w))

----------------------------------------------------------------------------
(* Properties.                                                             *)

\* Every variable has its type (the columns of tenancy_company the task uses, the
\* accounts Grafana holds, the locals of the task).
ViewerTypeOK ==
  /\ company \in Companies /\ admin \in Companies \cup {NoValue}
  /\ created \in 0..MaxAccounts /\ DOMAIN grafana \subseteq 1..created
  /\ \A i \in DOMAIN grafana : grafana[i] \in [login : Logins, password : Passwords]
  /\ queued \in BOOLEAN /\ crossed \in BOOLEAN /\ gaveUp \in BOOLEAN
  /\ lost \in SUBSET (1..created)

InFlight == queued \/ admin # NoValue \/ \E w \in Workers : sync[w].pc # "idle"

\* Once analytics is off and nothing is in flight, Grafana holds no viewer
\* (api_serializers.py:132 "so a previously-created viewer account is removed when
\* analytics is turned off"), except the ones the code can lose: an id dropped by a
\* fault between Grafana and the row or overwritten by a save or a task with an
\* older copy (lost), a task running when analytics was turned off, and retries
\* that ran out.
DisabledHasNoViewer ==
  ~InFlight /\ Off(company) /\ ~crossed /\ ~gaveUp => DOMAIN grafana \subseteq lost

\* The viewer of an enabled company converges for good to the login and password of
\* the row, whatever failed, restarted or crossed before (settings.py:233 "Keeps the
\* shared company viewer credential converged after Grafana restarts or an
\* Administration-side password change").
ViewerConverges ==
  <>[](~Off(company) => \E i \in DOMAIN grafana :
         grafana[i] = [login |-> company.login, password |-> company.password])
=============================================================================
