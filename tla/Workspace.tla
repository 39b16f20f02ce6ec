----------------------------- MODULE Workspace -----------------------------
(***************************************************************************)
(* The analysis workspaces open on one call (AnalysisWorkspaceModal.tsx):  *)
(* the list of who else looks at the call, which the connections of        *)
(* AnalysisPresenceConsumer keep (notifications/consumers.py), and who has *)
(* reserved it, which the reserve and release views announce               *)
(* (calls/views.py).  What reaches the members of a group reaches them in  *)
(* the order it was sent: here, when it is sent.                           *)
(***************************************************************************)
EXTENDS Naturals, FiniteSets

CONSTANTS Tabs, AnalystOf,     \* browser tabs, and who sits in front of each
          MaxChannels,         \* names of connections; none is used twice while its row lives
          NoAnalyst, Unknown,
          MaxOpened, MaxPosts, \* bounds: tabs opened, reservations and releases
          MaxBreaks            \* bound: connections lost, late heartbeats, changes of the recording

Analysts == {AnalystOf[t] : t \in Tabs}
Channels == 1..MaxChannels

ASSUME WorkspaceAssumption ==
  /\ NoAnalyst \notin Analysts /\ Unknown \notin Analysts \cup {NoAnalyst}
  /\ {MaxChannels, MaxOpened, MaxPosts, MaxBreaks} \subseteq Nat

VARIABLES playable, \* the recording is downloaded: what _can_analyze and _analysis_call ask
          holder,   \* the analyst whose review the call has
          post,     \* for each tab, the reservation its request committed and has yet to announce
          tab,      \* what each tab does and shows
          conn,     \* for each connection, its tab and where its handler is
          group,    \* the connections that get what is sent about the call
          presence, \* the rows of AnalysisPresence, by connection: the analyst
          aged,     \* those not touched for 45 seconds
          astray,   \* tabs the latest news missed, or reached out of order (history)
          opened, posts, breaks \* bound counters

page == <<tab, opened>>
server == <<conn, group, presence, aged>>
claims == <<holder, post, astray, posts>>
workspaceVars == <<playable, page, server, claims, breaks>>

Closed == [pc |-> "closed", others |-> {}, shown |-> Unknown, request |-> "none", reply |-> Unknown]
Free == [pc |-> "free", tab |-> CHOOSE t \in Tabs : TRUE, gone |-> FALSE, roster |-> {}]

\* Nobody has the call open; an analyst may have reserved it.
WorkspaceInit ==
  /\ playable = TRUE /\ holder \in Analysts \cup {NoAnalyst} /\ post = [t \in Tabs |-> Unknown]
  /\ tab = [t \in Tabs |-> Closed]
  /\ conn = [c \in Channels |-> Free] /\ group = {}
  /\ presence = [c \in Channels |-> NoAnalyst] /\ aged = {}
  /\ astray = {} /\ opened = 0 /\ posts \in {0, MaxPosts} /\ breaks \in {0, MaxBreaks}

\* The connection a tab has, unless the server has yet to notice that it is gone.
Serves(c, t) == conn[c].pc # "free" /\ conn[c].tab = t /\ ~conn[c].gone
Reached(t) == \E c \in group : Serves(c, t)
Break == breaks < MaxBreaks /\ breaks' = breaks + 1

----------------------------------------------------------------------------
(* The tab.                                                                *)

\* The workspace asks for the call and for a connection at once.
OpenWorkspace(t) ==
  /\ tab[t].pc = "closed" /\ opened < MaxOpened /\ opened' = opened + 1
  /\ tab' = [tab EXCEPT ![t] = [Closed EXCEPT !.pc = "dialling", !.request = "asked"]]
  /\ UNCHANGED <<playable, server, claims, breaks>>

\* CallAnalysisView.get; a refusal leaves the workspace empty.
Analysis(t) ==
  /\ tab[t].request = "asked"
  /\ tab' = [tab EXCEPT ![t] = IF playable THEN [@ EXCEPT !.request = "answered", !.reply = holder]
                               ELSE [@ EXCEPT !.request = "none"]]
  /\ UNCHANGED <<playable, opened, server, claims, breaks>>

\* An answer replaces what the tab shows, whatever arrived before it.
Apply(t) ==
  /\ tab[t].request = "answered"
  /\ tab' = [tab EXCEPT ![t].request = "none", ![t].shown = tab[t].reply, ![t].reply = Unknown]
  /\ astray' = IF tab[t].reply = holder THEN astray \ {t} ELSE astray \cup {t}
  /\ UNCHANGED <<playable, opened, server, holder, post, posts, breaks>>

\* connect: the tab is admitted, joins the group and touches its row; otherwise it is
\* closed with 4403 and dials again after three seconds.
Connect(t) ==
  /\ tab[t].pc = "dialling" /\ playable
  /\ \E c \in Channels :
       /\ conn[c].pc = "free" /\ presence[c] = NoAnalyst
       /\ \A d \in 1..(c - 1) : conn[d].pc # "free" \/ presence[d] # NoAnalyst
       /\ conn' = [conn EXCEPT ![c] = [Free EXCEPT !.pc = "announce", !.tab = t]]
       /\ group' = group \cup {c}
       /\ presence' = [presence EXCEPT ![c] = AnalystOf[t]]
  /\ tab' = [tab EXCEPT ![t].pc = "open"]
  /\ UNCHANGED <<playable, opened, aged, claims, breaks>>

\* The socket closes: the user closes the workspace, or the network does.
Hangs(t) == [c \in Channels |-> IF Serves(c, t) THEN [conn[c] EXCEPT !.gone = TRUE] ELSE conn[c]]

CloseWorkspace(t) ==
  /\ tab[t].pc # "closed" /\ tab' = [tab EXCEPT ![t] = Closed]
  /\ conn' = Hangs(t)
  /\ UNCHANGED <<playable, opened, group, presence, aged, claims, breaks>>

LoseConnection(t) ==
  /\ tab[t].pc = "open" /\ Break
  /\ tab' = [tab EXCEPT ![t].pc = "dialling"] /\ conn' = Hangs(t)
  /\ UNCHANGED <<playable, opened, group, presence, aged, claims>>

----------------------------------------------------------------------------
(* AnalysisPresenceConsumer: one handler after another, of each connection.*)

Touch(c, analyst) == presence' = [presence EXCEPT ![c] = analyst] /\ aged' = aged \ {c}

Heartbeat(c) ==
  /\ conn[c].pc = "idle" /\ ~conn[c].gone
  /\ Touch(c, AnalystOf[conn[c].tab]) /\ conn' = [conn EXCEPT ![c].pc = "announce"]
  /\ UNCHANGED <<playable, page, group, claims, breaks>>

Disconnect(c) ==
  /\ conn[c].pc = "idle" /\ conn[c].gone
  /\ Touch(c, NoAnalyst) /\ group' = group \ {c}
  /\ conn' = [conn EXCEPT ![c].pc = "announce"]
  /\ UNCHANGED <<playable, page, claims, breaks>>

\* Mutant: rows count whatever their age.
RosterOfAll(c) ==
  /\ conn[c].pc = "announce"
  /\ conn' = [conn EXCEPT ![c].pc = "send",
                          ![c].roster = {presence[d] : d \in Channels} \ {NoAnalyst}]
  /\ UNCHANGED <<playable, page, group, presence, aged, claims, breaks>>

\* _presence_roster deletes the rows that were not touched in time.
Roster(c) ==
  /\ conn[c].pc = "announce"
  /\ presence' = [d \in Channels |-> IF d \in aged THEN NoAnalyst ELSE presence[d]]
  /\ aged' = {}
  /\ conn' = [conn EXCEPT ![c].pc = "send",
                          ![c].roster = {presence[d] : d \in Channels \ aged} \ {NoAnalyst}]
  /\ UNCHANGED <<playable, page, group, claims, breaks>>

\* _broadcast_presence: another connection may send between the two.  A tab leaves out
\* its own analyst.
Send(c) ==
  /\ conn[c].pc = "send"
  /\ tab' = [t \in Tabs |-> IF Reached(t)
                            THEN [tab[t] EXCEPT !.others = conn[c].roster \ {AnalystOf[t]}]
                            ELSE tab[t]]
  /\ conn' = [conn EXCEPT ![c] = IF c \in group THEN [@ EXCEPT !.pc = "idle", !.roster = {}] ELSE Free]
  /\ UNCHANGED <<playable, opened, group, presence, aged, claims, breaks>>

\* The process of a connection dies: nobody removes its row.
Die(c) ==
  /\ conn[c].pc # "free" /\ Break
  /\ conn' = [conn EXCEPT ![c] = Free] /\ group' = group \ {c}
  /\ tab' = IF conn[c].gone THEN tab ELSE [tab EXCEPT ![conn[c].tab].pc = "dialling"]
  /\ UNCHANGED <<playable, opened, presence, aged, claims>>

\* Forty-five seconds go by without a heartbeat.
Age(c) ==
  /\ presence[c] # NoAnalyst /\ c \notin aged
  /\ aged' = aged \cup {c}
  /\ IF conn[c].pc = "free" THEN UNCHANGED breaks ELSE Break
  /\ UNCHANGED <<playable, page, conn, group, presence, claims>>

----------------------------------------------------------------------------
(* Reservations.                                                           *)

Posts(t, claimed) ==
  /\ holder' = claimed /\ post' = [post EXCEPT ![t] = claimed]
  /\ tab' = [tab EXCEPT ![t].request = "posted"]
Answers(t, claimed) ==
  /\ tab' = [tab EXCEPT ![t].request = "answered", ![t].reply = claimed]
  /\ UNCHANGED <<holder, post>>

\* One request of a tab at a time; a second analyst gets a conflict, which changes nothing.
Ready(t, shown) ==
  /\ tab[t].request = "none" /\ tab[t].shown = shown /\ playable /\ post[t] = Unknown
  /\ posts < MaxPosts /\ posts' = posts + 1
  /\ UNCHANGED <<playable, opened, server, astray, breaks>>

ReserveCall(t) ==
  /\ Ready(t, NoAnalyst)
  /\ \/ holder = NoAnalyst /\ Posts(t, AnalystOf[t])
     \/ holder = AnalystOf[t] /\ Answers(t, holder)

ReleaseCall(t) ==
  /\ Ready(t, AnalystOf[t])
  /\ \/ holder = AnalystOf[t] /\ Posts(t, NoAnalyst)
     \/ holder = NoAnalyst /\ Answers(t, NoAnalyst)

\* What the request of tab t says once it has committed; its answer follows.  An outage
\* of Redis is only logged.
Announced(t, reached) ==
  /\ tab' = [u \in Tabs |->
       LET heard == IF u \in reached /\ tab[u].shown # Unknown
                    THEN [tab[u] EXCEPT !.shown = post[t]] ELSE tab[u] IN
       IF u = t /\ tab[t].request = "posted"
       THEN [heard EXCEPT !.request = "answered", !.reply = post[t]] ELSE heard]
  /\ astray' = {u \in Tabs : tab[u].pc # "closed" /\ (u \notin reached \/ post[t] # holder)}
  /\ post' = [post EXCEPT ![t] = Unknown]
  /\ UNCHANGED <<playable, opened, server, holder, posts, breaks>>

BroadcastReservation(t) ==
  post[t] # Unknown /\ (Announced(t, {u \in Tabs : Reached(u)}) \/ Announced(t, {}))

\* A callback takes the recording back, or the pipeline delivers it.
RecordingChanges ==
  /\ Break /\ playable' = ~playable /\ UNCHANGED <<page, server, claims>>

----------------------------------------------------------------------------
WorkspaceNext ==
  \/ \E t \in Tabs :
       \/ OpenWorkspace(t) \/ Analysis(t) \/ Apply(t) \/ Connect(t)
       \/ CloseWorkspace(t) \/ LoseConnection(t)
       \/ ReserveCall(t) \/ ReleaseCall(t) \/ BroadcastReservation(t)
  \/ \E c \in Channels :
       \/ Heartbeat(c) \/ Disconnect(c) \/ Roster(c) \/ Send(c) \/ Die(c) \/ Age(c)
  \/ RecordingChanges

\* A workspace dials until it is connected and then beats every twenty seconds, handlers
\* and requests end, and time passes; users and faults are never obliged.
WorkspaceFairness ==
  /\ \A t \in Tabs : /\ WF_workspaceVars(Connect(t)) /\ WF_workspaceVars(Analysis(t))
                     /\ WF_workspaceVars(Apply(t)) /\ WF_workspaceVars(BroadcastReservation(t))
  /\ \A c \in Channels :
       /\ WF_workspaceVars(Heartbeat(c)) /\ WF_workspaceVars(Disconnect(c))
       /\ WF_workspaceVars(Roster(c)) /\ WF_workspaceVars(Send(c))
       /\ WF_workspaceVars(conn[c].pc = "free" /\ Age(c))

----------------------------------------------------------------------------
(* Properties.                                                             *)

\* Every variable has its type.
WorkspaceTypeOK ==
  /\ playable \in BOOLEAN /\ holder \in Analysts \cup {NoAnalyst}
  /\ post \in [Tabs -> Analysts \cup {NoAnalyst, Unknown}]
  /\ tab \in [Tabs -> [pc : {"closed", "dialling", "open"}, others : SUBSET Analysts,
                       shown : Analysts \cup {NoAnalyst, Unknown},
                       request : {"none", "asked", "posted", "answered"},
                       reply : Analysts \cup {NoAnalyst, Unknown}]]
  /\ conn \in [Channels -> [pc : {"free", "announce", "send", "idle"}, tab : Tabs,
                            gone : BOOLEAN, roster : SUBSET Analysts]]
  /\ group \subseteq Channels /\ aged \subseteq Channels /\ astray \subseteq Tabs
  /\ presence \in [Channels -> Analysts \cup {NoAnalyst}]
  /\ opened \in Nat /\ posts \in Nat /\ breaks \in Nat

Present == {AnalystOf[t] : t \in {u \in Tabs : tab[u].pc = "open"}}

TellsTheTruth(t) ==
  /\ tab[t].pc = "open" => tab[t].others = Present \ {AnalystOf[t]}
  /\ tab[t].shown \in {Unknown, holder} \/ t \in astray

(* Once users and faults rest, every connected workspace lists exactly the   *)
(* others who look at the call (consumers.py:45-66), although lists cross on *)
(* their way, connections die without a word and only the next heartbeat     *)
(* notices; and a workspace shows who holds the call, unless the last news   *)
(* did not reach it or had been overtaken (calls/views.py:170-193).          *)
WorkspacesAgree == <>[](\A t \in Tabs : TellsTheTruth(t))
=============================================================================
