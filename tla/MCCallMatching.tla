--------------------------- MODULE MCCallMatching ---------------------------
(***************************************************************************)
(* What a callback finds on arrival, the row of its call and its agent's   *)
(* team, and what a reader finds later, the list and the recording.  These *)
(* models share no variable, so that a behaviour of all is a shuffle of    *)
(* one behaviour of each: every behaviour here runs one, chosen at the     *)
(* start, while the others rest in their initial state.                    *)
(***************************************************************************)
EXTENDS CallMatching, TeamAssignment, CallLibrary, DialerReports, TLC
CONSTANTS c1, c2, c3, m1, m2, m3, t1, t2, l1, q1, q2

\* Two calls of one agent and lead, one of another, and two request threads.  Any two
\* callbacks of the first share one of the three stable identifiers, but not always the
\* one the key is made of; those of the others may have nothing in common but the lead.
MCCalls == {c1, c2, c3}
MCLeads == [c \in MCCalls |-> IF c = c3 THEN "other" ELSE "lead"]
MCCarried ==
  c1 :> {{"call_id", "agent_log_id"}, {"agent_log_id", "unique_id", "lead"},
         {"call_id", "unique_id", "lead"}} @@
  c2 :> {{"call_id", "lead"}, {"lead"}} @@ c3 :> {{"lead"}}
MCOneKey == [c \in MCCalls |-> {{"call_id"}}]

\* Two teams that may share a leader; the agent of one call is named by the first
\* team, those of two others by that leader.
MCAgentCalls == {m1, m2, m3}
MCTeams == {t1, t2}
MCLeaders == {l1}
MCAgentPrefix == m1 :> t1 @@ m2 :> l1 @@ m3 :> l1

\* The two calls of that leader, and the two threads that take callbacks.
Interchangeable == Permutations({m2, m3}) \cup Permutations({q1, q2})

\* Nothing; a word with a blank before it; and the word itself in two spellings.
MCWords == 0..3
MCFold == <<1, 2, 2>> @@ 0 :> 0
MCStrip == <<3, 2, 3>> @@ 0 :> 0
Plain == [agent_user |-> 0, agent_name |-> 0, team |-> NoTeamRow, team_name |-> 0,
          plain |-> [d \in Exact \cup Folded |-> 0],
          received |-> 1, finalized |-> NotFinal, talk_time |-> 1]
MCThemes == {"agent", "team", "campaign", "project", "times"}
MCRowsOf ==
  [agent |-> {[Plain EXCEPT !.agent_user = u, !.agent_name = n] : u, n \in MCWords},
   team |-> {[Plain EXCEPT !.team = t, !.team_name = n] :
               t \in {2, 3, NoTeamRow}, n \in MCWords},
   campaign |-> {[Plain EXCEPT !.plain["campaign"] = w] : w \in MCWords},
   project |-> {[Plain EXCEPT !.plain["project"] = w] : w \in MCWords},
   times |-> {[Plain EXCEPT !.plain["disposition"] = 1, !.received = r, !.finalized = f,
                            !.talk_time = t] :
                r, t \in {0, 1}, f \in {NotFinal, 2}}]

\* A call of up to three units, in which an hour is five, and one or two rows of a report.
MCInstants == -7..17
MCShifts == {0, 5, -5}
MCTransfer == [transfer |-> TRUE, lead |-> TRUE, preset |-> TRUE, at |-> 6]
MCTransfers ==
  {[MCTransfer EXCEPT !.at = t] : t \in 1..9} \cup
  {[MCTransfer EXCEPT !.transfer = FALSE], [MCTransfer EXCEPT !.lead = FALSE],
   [MCTransfer EXCEPT !.preset = FALSE]}
MCSale(start, length, h, d, t) ==
  [start |-> start, finalized |-> start + length, heard |-> h, dated |-> d,
   talk_time |-> IF t THEN length ELSE 0, received |-> start + length, recording |-> 0]
MCStarts == {1, 2, 5, 6, 7}
MCSales ==
  {MCSale(start, length, h, d, t) : start \in MCStarts, length \in {0, 2, 3}, h, d, t \in BOOLEAN}
MCRecorded ==
  {[MCSale(start, 2, FALSE, d, TRUE) EXCEPT !.received = start + r, !.recording = id] :
     start \in MCStarts, r \in {0, 3}, id \in 0..1, d \in BOOLEAN}
MCFirst == [id : {1}, agent : BOOLEAN, url : BOOLEAN, start : MCStarts]
MCSecond == [id : {2}, agent : BOOLEAN, url : {TRUE}, start : MCStarts]
MCSituations ==
  [event : MCSales, recordings : {<<>>},
   transfers : {<<r>> : r \in MCTransfers} \cup (MCTransfers \X MCTransfers)] \cup
  [event : MCRecorded, transfers : {<<>>},
   recordings : {<<r>> : r \in MCFirst} \cup (MCFirst \X MCSecond) \cup (MCSecond \X MCFirst)]

VARIABLE part

ArrivalInit ==
  /\ part \in {"row", "team", "list", "playback", "report"}
  /\ Init /\ TeamInit /\ LibraryInit
  /\ IF part = "report" THEN ReportsStart ELSE ReportsRest
  /\ part # "list" => theme = "agent"
  /\ part # "playback" => file.size = 0

ArrivalNext ==
  \/ part = "row" /\ Next /\ UNCHANGED <<part, teamVars, libraryVars, reportVars>>
  \/ part = "team" /\ TeamNext /\ UNCHANGED <<part, vars, libraryVars, reportVars>>
  \/ part = "list" /\ LibraryNext /\ UNCHANGED <<part, vars, teamVars, reportVars>>
  \/ part = "playback" /\ PlaybackNext /\ UNCHANGED <<part, vars, teamVars, reportVars>>
  \/ part = "report" /\ LookupNext /\ UNCHANGED <<part, vars, teamVars, libraryVars>>

ArrivalSpec == ArrivalInit /\ [][ArrivalNext]_<<part, vars, teamVars, libraryVars, reportVars>>
=============================================================================
