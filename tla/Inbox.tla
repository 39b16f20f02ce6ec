------------------------------- MODULE Inbox -------------------------------
(***************************************************************************)
(* The notification inbox: rows of notifications with those who have read  *)
(* them, announcements of an administrator, the requests that mark rows as *)
(* read (notifications/), and the bell of each open portal, which is fed   *)
(* by live messages and by reloads that overtake each other (AppShell.tsx).*)
(* What queues and resolves a workflow's notification is in the module of  *)
(* that workflow; here it happens at any time.                             *)
(***************************************************************************)
EXTENDS Naturals, Sequences, FiniteSets

CONSTANTS People, StaffOf,      \* role, company, branch, whether active and a superuser
          Notices, CategoryOf,  \* report, missing_preset, unknown_team, custom
          RecipientsOf,         \* those a workflow may name for a row, one time or another
          Announcements,        \* what administrators ask to be sent
          MaxCommits, MaxReloads, MaxMarks

Superusers == {u \in People : StaffOf[u].superuser}

ASSUME InboxAssumption ==
  /\ CategoryOf \in [Notices -> {"report", "missing_preset", "unknown_team", "custom"}]
  /\ RecipientsOf \in [Notices -> SUBSET SUBSET People]
  /\ \A k \in Notices : \A to \in RecipientsOf[k] :
       /\ CategoryOf[k] = "report" => \E u \in People : to = {u}
       /\ CategoryOf[k] = "missing_preset" => to # {}
       /\ CategoryOf[k] = "unknown_team" => to = {}
  /\ \A a \in Announcements : a.audience \in {"all", "users", "roles", "companies", "branches"}
  /\ MaxCommits \in Nat /\ MaxReloads \in Nat /\ MaxMarks \in Nat

VARIABLES notice,   \* the rows: version 0 is no row
          unsent,  \* messages of committed transactions, not yet sent
          channel,  \* messages on their way to the portal of each user
          bell,     \* what that portal shows: nothing, unread or read
          reloads,  \* lists it has asked for: unanswered, and answers on their way
          marking,  \* the rows a read request has found, with their versions
          marked,   \* the version a user's last mark was meant for (history)
          slipped,  \* marks put on a version the request had not found (history)
          astray,   \* rows a portal was not told of, or told of out of order (history)
          commits, asked, requests  \* bound counters

inboxVars == <<notice, unsent, channel, bell, reloads, marking, marked, slipped, astray,
               commits, asked, requests>>
portals == <<channel, bell, reloads, asked>>
reading == <<marking, marked, slipped, requests>>

NoNotice == [version |-> 0, open |-> FALSE, to |-> {}, read |-> {}]

\* scoped_notifications.
Shows(u, k) ==
  /\ notice[k].version > 0 /\ notice[k].open
  /\ IF u \in Superusers THEN CategoryOf[k] # "custom" \/ u \in notice[k].to
     ELSE u \in notice[k].to

\* A message about a row is on its way to the portal of a user, or the portal shows it.
Coming(u, k) == \E i \in DOMAIN channel[u] : channel[u][i].about = k
Has(u, k) == bell[u][k] # "none" \/ Coming(u, k)

\* A transaction on a row: what it leaves, and the message it sends once committed.  The
\* message goes to those the row then has: whoever it was taken from is not told.
Commit(k, row, type) ==
  /\ commits < MaxCommits /\ commits' = commits + 1
  /\ notice' = [notice EXCEPT ![k] = row]
  /\ unsent' = unsent \cup {[about |-> k, type |-> type, n |-> commits]}
  /\ astray' = astray \cup {<<u, k>> : u \in {v \in notice[k].to \ row.to : Has(v, k)}}
  /\ UNCHANGED <<portals, reading>>

\* Mutant: the reader of an earlier version stays among the readers.
RequeueUnread(k, to) ==
  [version |-> notice[k].version + 1, open |-> TRUE, to |-> to,
   read |-> IF CategoryOf[k] = "report" THEN notice[k].read ELSE {}]

\* queue_review_report_notification takes the leader the call's team has now out of the
\* readers, queue_missing_preset_notification and queue_unknown_team_notification everybody.
Requeued(k, to) ==
  [version |-> notice[k].version + 1, open |-> TRUE, to |-> to,
   read |-> IF CategoryOf[k] = "report" THEN notice[k].read \ to ELSE {}]

Queue(k) ==
  /\ CategoryOf[k] # "custom"
  /\ \E to \in RecipientsOf[k] : Commit(k, Requeued(k, to), "updated")

\* resolve_unknown_team_notifications, resolve_missing_preset_notification.
Resolve(k) ==
  /\ CategoryOf[k] \in {"missing_preset", "unknown_team"} /\ notice[k].open
  /\ Commit(k, [notice[k] EXCEPT !.open = FALSE], "resolved")

\* resolve_review_report_notification, of a leader the row is addressed to: it is marked
\* as read, and resolved, again if it was, unless the report stays pending.
Close(k) ==
  \E u \in notice[k].to :
    /\ CategoryOf[k] = "report"
    /\ Commit(k, [notice[k] EXCEPT !.open = FALSE, !.read = @ \cup {u}], "resolved")

Act(k) ==
  \E u \in notice[k].to :
    /\ CategoryOf[k] = "report"
    /\ notice' = [notice EXCEPT ![k].read = @ \cup {u}]
    /\ marked' = [marked EXCEPT ![u][k] = notice[k].version]
    /\ UNCHANGED <<unsent, portals, marking, slipped, astray, commits, requests>>

----------------------------------------------------------------------------
(* Announcements: CustomNotificationAdminView.                             *)

\* _resolve_recipients: active users only, and never a superuser.
Reached(a) ==
  LET base == {u \in People : StaffOf[u].active /\ ~StaffOf[u].superuser} IN
  CASE a.audience = "all" -> base
    [] a.audience = "users" -> base \cap a.targets
    [] a.audience = "roles" -> {u \in base : StaffOf[u].role \in a.targets}
    [] a.audience = "companies" -> {u \in base : StaffOf[u].firm \in a.targets}
    [] a.audience = "branches" -> {u \in base : StaffOf[u].branch \in a.targets}

\* The input serializer, and a selected user who is not there.
Acceptable(a) ==
  /\ (a.audience = "all") = (a.targets = {})
  /\ a.audience = "users" => a.targets \subseteq Reached(a)
  /\ Reached(a) # {}

Announce(k) ==
  /\ CategoryOf[k] = "custom" /\ notice[k].version = 0
  /\ \E a \in Announcements :
       /\ Acceptable(a)
       /\ Commit(k, [version |-> 1, open |-> TRUE, to |-> Reached(a), read |-> {}], "updated")

----------------------------------------------------------------------------
(* Live messages.                                                          *)

\* Mutant: a message of a row with recipients goes to the administrators.
SentToAdmins(k) == Superusers

Addressed(k) == IF notice[k].to = {} THEN Superusers ELSE notice[k].to

\* _broadcast_notification reads the recipients when it sends, not when the row changed,
\* and announces an update even of a row that has been resolved since.
Broadcast ==
  \E m \in unsent :
    /\ unsent' = unsent \ {m}
    /\ channel' = [u \in People |-> IF u \in Addressed(m.about)
                                    THEN Append(channel[u], [about |-> m.about, type |-> m.type])
                                    ELSE channel[u]]
    /\ astray' = IF (m.type = "updated") = notice[m.about].open
                 THEN astray \ (Addressed(m.about) \X {m.about})
                 ELSE astray \cup (Addressed(m.about) \X {m.about})
    /\ UNCHANGED <<notice, bell, reloads, asked, reading, commits>>

\* The process dies, or the channel layer fails, between the commit and the message.
Lose ==
  \E m \in unsent :
    /\ unsent' = unsent \ {m}
    /\ astray' = astray \cup (Addressed(m.about) \X {m.about})
    /\ UNCHANGED <<notice, portals, reading, commits>>

\* The portal: an update is shown unread and on top; a resolved row goes, and the list
\* is asked for again.
Hear(u) ==
  /\ channel[u] # <<>>
  /\ LET m == Head(channel[u]) IN
     /\ bell' = [bell EXCEPT ![u][m.about] = IF m.type = "updated" THEN "unread" ELSE "none"]
     /\ reloads' = IF m.type = "updated" THEN reloads
                   ELSE [reloads EXCEPT ![u].asked = TRUE]
  /\ channel' = [channel EXCEPT ![u] = Tail(@)]
  /\ UNCHANGED <<notice, unsent, reading, astray, commits, asked>>

\* The page is opened, or its connection comes back: groups first, then the list.
Reconnect(u) ==
  /\ asked < MaxReloads /\ asked' = asked + 1
  /\ channel' = [channel EXCEPT ![u] = <<>>]
  /\ reloads' = [reloads EXCEPT ![u].asked = TRUE]
  /\ UNCHANGED <<notice, unsent, bell, reading, astray, commits>>

\* NotificationListView, and the rows as they were when it read them.
List(u) ==
  /\ reloads[u].asked
  /\ reloads' = [reloads EXCEPT ![u].asked = FALSE, ![u].answers = @ \cup {notice}]
  /\ UNCHANGED <<notice, unsent, channel, bell, reading, astray, commits, asked>>

ShownIn(rows, u, k) ==
  IF rows[k].open /\ (u \in rows[k].to \/ (u \in Superusers /\ CategoryOf[k] # "custom"))
  THEN IF u \in rows[k].read THEN "read" ELSE "unread"
  ELSE "none"

\* A message about a row has not reached the portal yet.
Underway(u, k) == Coming(u, k) \/ (u \in Addressed(k) /\ \E m \in unsent : m.about = k)

\* A list was read before a row was resolved, opened again or given to somebody else.
Outdated(rows, k) == rows[k].open # notice[k].open \/ rows[k].to # notice[k].to

\* The answer replaces what the portal shows, news that came after it was read included.
Load(u) ==
  \E rows \in reloads[u].answers :
    /\ reloads' = [reloads EXCEPT ![u].answers = @ \ {rows}]
    /\ bell' = [bell EXCEPT ![u] = [k \in Notices |-> ShownIn(rows, u, k)]]
    /\ astray' = {x \in astray : x[1] = u => Underway(u, x[2])} \cup
                 {<<u, k>> : k \in {j \in Notices : Outdated(rows, j) /\ ~Underway(u, j)}}
    /\ UNCHANGED <<notice, unsent, channel, reading, commits, asked>>

----------------------------------------------------------------------------
(* Reading: NotificationReadView and NotificationReadAllView.              *)
NothingFound == [k \in {} |-> 0]

\* The rows are found first and marked later, one by one, without a lock.
FindRows(u) ==
  /\ requests < MaxMarks /\ requests' = requests + 1 /\ marking[u] = NothingFound
  /\ \E found \in {{k} : k \in Notices} \cup {Notices} :
       LET rows == {k \in found : Shows(u, k)} IN
       /\ rows # {}
       /\ marking' = [marking EXCEPT ![u] = [k \in rows |-> notice[k].version]]
       /\ bell' = [bell EXCEPT ![u] =
                     [k \in Notices |-> IF k \in found /\ @[k] = "unread" THEN "read" ELSE @[k]]]
  /\ UNCHANGED <<notice, unsent, channel, reloads, marked, slipped, astray, commits, asked>>

Mark(u) ==
  \E k \in DOMAIN marking[u] :
    /\ notice' = [notice EXCEPT ![k].read = @ \cup {u}]
    /\ marked' = [marked EXCEPT ![u][k] = marking[u][k]]
    /\ slipped' = IF marking[u][k] = notice[k].version THEN slipped
                  ELSE slipped \cup {<<u, k, notice[k].version>>}
    /\ marking' = [marking EXCEPT ![u] = [j \in DOMAIN marking[u] \ {k} |-> marking[u][j]]]
    /\ UNCHANGED <<unsent, portals, astray, commits, requests>>

InboxInit ==
  /\ notice = [k \in Notices |-> NoNotice] /\ unsent = {}
  /\ channel = [u \in People |-> <<>>] /\ bell = [u \in People |-> [k \in Notices |-> "none"]]
  /\ reloads = [u \in People |-> [asked |-> FALSE, answers |-> {}]]
  /\ marking = [u \in People |-> NothingFound] /\ marked = [u \in People |-> [k \in Notices |-> 0]]
  /\ slipped = {} /\ astray = {} /\ commits = 0
  /\ asked \in 0..MaxReloads /\ requests \in 0..MaxMarks  \* what is used of these bounds

InboxNext ==
  \/ \E k \in Notices : Queue(k) \/ Resolve(k) \/ Close(k) \/ Act(k) \/ Announce(k)
  \/ Broadcast \/ Lose
  \/ \E u \in People : Hear(u) \/ Reconnect(u) \/ List(u) \/ Load(u) \/ FindRows(u) \/ Mark(u)

InboxSpec == InboxInit /\ [][InboxNext]_inboxVars

----------------------------------------------------------------------------
(* Properties.                                                             *)

\* A notification that is queued again asks for attention again (services.py:125-126,
\* :246): a recipient counts as a reader of an open row only if a request of his found
\* the row as it is now, or he acted on the report; a mark that was on its way while the
\* row changed is the exception.  An announcement is read only by those it was sent to,
\* so that its counts agree (admin_views.py:154-172).
AttentionKept ==
  \A k \in Notices :
    LET row == notice[k] IN
    /\ row.open => \A u \in row.to \cap row.read :
         marked[u][k] = row.version \/ <<u, k, row.version>> \in slipped
    /\ CategoryOf[k] = "custom" => row.read \subseteq row.to

Quiet(u) == unsent = {} /\ channel[u] = <<>> /\ reloads[u] = [asked |-> FALSE, answers |-> {}]

\* When no message and no list is on its way to a portal, its bell shows the rows the
\* database has for the user, read or unread (consumers.py:69-91, services.py:65-82,
\* AppShell.tsx:101-186), with four exceptions that last until news or a list of the row
\* as it is arrives: its update was sent when it had been resolved, a list was loaded that
\* had been read before it changed, the row was given to others while the portal had it
\* (services.py:125, :355 replace the recipients and tell only the new ones), or the
\* process died between its commit and its message.  Administrators hear of rows without
\* recipients only.
BellIsRight ==
  \A u \in People, k \in Notices :
    Quiet(u) /\ <<u, k>> \notin astray /\ (u \in Superusers => notice[k].to = {}) =>
      (bell[u][k] # "none") = Shows(u, k)
=============================================================================
