----------------------------- MODULE MCServices -----------------------------
(***************************************************************************)
(* The services around the calls, one bounded instance of each.  They      *)
(* share no variable, so that a behaviour of all of them together is a     *)
(* shuffle of one behaviour of each: every behaviour here runs one, chosen *)
(* at the start, while the others rest in their initial state.             *)
(***************************************************************************)
EXTENDS Conversation, GrafanaViewer, Investigation, Inbox, Account, TLC

CONSTANTS d1, s1, v1, p1, e1, e2, y1, y2, o1, lea, dep, boss, report, teams, news

VARIABLE part

vars == <<part, chatVars, viewerVars, askVars, inboxVars, accountVars>>

\* A question about all teams; one about "our project"; its follow-up within a dialer;
\* the backlog of a leader; the volume of a dialer; the calls received for "our project";
\* and an open question.
Ranked == [primary |-> "ranking", leader |-> Nothing, dialer |-> Nothing, place |-> Nothing,
           inherits |-> FALSE, ours |-> FALSE, ofDialer |-> FALSE, direct |-> TRUE, fast |-> FALSE]
MCContracts ==
  {Ranked,
   [Ranked EXCEPT !.place = o1, !.ours = TRUE],
   [Ranked EXCEPT !.dialer = y1, !.inherits = TRUE, !.fast = TRUE],
   [Ranked EXCEPT !.primary = "backlog", !.leader = e1],
   [Ranked EXCEPT !.primary = "overview", !.dialer = y1, !.ofDialer = TRUE],
   [Ranked EXCEPT !.primary = "library", !.place = o1, !.ours = TRUE],
   [Ranked EXCEPT !.primary = Nothing, !.direct = FALSE, !.place = o1]}

\* Two team leaders of two branches and a superuser; a report that goes to either leader,
\* one after the other, unknown teams, and an announcement.
Staff(role, branch, superuser) ==
  [role |-> role, firm |-> 1, branch |-> branch, active |-> TRUE, superuser |-> superuser]
MCStaffOf == lea :> Staff("team_leader", 1, FALSE) @@ dep :> Staff("team_leader", 2, FALSE)
             @@ boss :> Staff("administrator", 1, TRUE)
MCCategoryOf == report :> "report" @@ teams :> "unknown_team" @@ news :> "custom"
MCRecipientsOf == report :> {{lea}, {dep}} @@ teams :> {{}} @@ news :> {}
MCAnnouncements == {[audience |-> "users", targets |-> {lea}],
                    [audience |-> "users", targets |-> {boss}],
                    [audience |-> "branches", targets |-> {1}]}

\* An account is followed through changes of its password, or of its picture.
Words == passwords = 0 /\ pictures = MaxPictures /\ link = NoLink
Picture == passwords = MaxPasswords /\ pictures = 0 /\ link # NoLink

\* Model values are interchangeable; the initial states are one of each kind.
Init ==
  /\ part \in {"chat", "viewer", "question", "inbox", "words", "picture"}
  /\ AskInit /\ (part # "question" => contract = Ranked)
  /\ ChatInit /\ scope = s1 /\ talk[d1].there
  /\ ViewerInit /\ company.login = v1 /\ company.password = p1
  /\ InboxInit /\ (part = "inbox" => asked + requests = 1) /\ (part # "inbox" => asked + requests = 0)
  /\ AccountInit /\ adminSaves = 0 /\ IF part = "picture" THEN Picture ELSE Words

Next ==
  \/ part = "chat" /\ ChatNext /\ UNCHANGED <<part, viewerVars, askVars, inboxVars, accountVars>>
  \/ part = "viewer" /\ ViewerNext /\ UNCHANGED <<part, chatVars, askVars, inboxVars, accountVars>>
  \/ part = "question" /\ AskNext /\ UNCHANGED <<part, chatVars, viewerVars, inboxVars, accountVars>>
  \/ part = "inbox" /\ InboxNext /\ UNCHANGED <<part, chatVars, viewerVars, askVars, accountVars>>
  \/ /\ part \in {"words", "picture"} /\ AccountNext
     /\ UNCHANGED <<part, chatVars, viewerVars, askVars, inboxVars>>

Spec == Init /\ [][Next]_vars /\ ViewerFairness
=============================================================================
