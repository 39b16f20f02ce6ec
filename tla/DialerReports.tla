---------------------------- MODULE DialerReports ----------------------------
(***************************************************************************)
(* What the portal reads out of a dialer's reports for one call: the date  *)
(* of the call itself (services.py, localize_wall_time), the recording     *)
(* among those of its lead (choose_recording) and the preset of the last   *)
(* transfer of its agent (preset_lookup.py).  A dialer writes wall times   *)
(* without an offset, so that each of them depends on the hour being       *)
(* repeated or skipped when the clock is changed.                          *)
(***************************************************************************)
EXTENDS Integers, Sequences

CONSTANTS Instants,           \* of the day the clock may be changed
          Change, Shifts,     \* when, and by how much
          Skew,               \* five minutes
          Situations,         \* the calls and reports explored
          NoTime, NoRow

Event ==
  [start : Instants, finalized : Int, heard : BOOLEAN, dated : BOOLEAN, talk_time : Nat,
   received : Int, recording : {0, 1}]
Transfer == [transfer : BOOLEAN, lead : BOOLEAN, preset : BOOLEAN, at : Int]
Recording == [id : Nat \ {0}, agent : BOOLEAN, url : BOOLEAN, start : Int]

\* A call talks no longer than it lasts.  Recordings have their numbers; the call's own
\* is number 1, and 0 is none.
ASSUME ReportsAssumption ==
  /\ Instants \subseteq Int /\ Change \in Instants /\ Shifts \subseteq Int /\ Skew \in Nat
  /\ NoTime \notin Int /\ NoRow \notin Transfer
  /\ Situations \subseteq [event : Event, transfers : Seq(Transfer), recordings : Seq(Recording)]
  /\ \A s \in Situations : /\ s.event.talk_time <= s.event.finalized - s.event.start
                           /\ \A i, j \in DOMAIN s.recordings :
                                s.recordings[i].id = s.recordings[j].id => i = j

VARIABLES shift, event, report, found

reportVars == <<shift, event, report, found>>

\* The clock on the wall.
Wall(t) == IF t < Change THEN t ELSE t + shift
Apart(t, u) == IF t < u THEN u - t ELSE t - u
Least(t, u) == IF t < u THEN t ELSE u

----------------------------------------------------------------------------
(* services.py.                                                            *)

\* The instant closest to the reference; none in the hour that is skipped.
LocalizeWallTime(value, reference) ==
  LET candidates == {t \in Instants : Wall(t) = value}
      closer(t, u) == \/ Apart(t, reference) < Apart(u, reference)
                      \/ Apart(t, reference) = Apart(u, reference) /\ t <= u IN
  IF candidates = {} THEN NoTime ELSE CHOOSE t \in candidates : \A u \in candidates : closer(t, u)

\* parse_call_date, of the callback; a call may come without its date.
CallDate == IF event.dated THEN LocalizeWallTime(Wall(event.start), event.received) ELSE NoTime

\* parse_recordings drops lines that do not end in the address of a recording.
Recordings == {i \in DOMAIN report.recordings : report.recordings[i].url}

\* The line that no other is better than; ties go to the first or to the last.
FirstBest(lines, better(_, _)) ==
  CHOOSE i \in lines : \A j \in lines : IF j < i THEN better(i, j) ELSE ~better(j, i)
LastBest(lines, better(_, _)) ==
  CHOOSE i \in lines : \A j \in lines : IF j > i THEN better(i, j) ELSE ~better(j, i)

ChooseRecording ==
  LET rows == report.recordings
      named == {i \in Recordings : rows[i].id = event.recording}
      agents == {i \in Recordings : rows[i].agent}
      candidates == IF agents = {} THEN Recordings ELSE agents
      start == [i \in candidates |-> LocalizeWallTime(rows[i].start, CallDate)]
      earlier(i, j) == i < j
      later(i, j) == rows[i].start > rows[j].start
      nearer(i, j) == /\ start[i] # NoTime
                      /\ start[j] = NoTime \/ Apart(start[i], CallDate) < Apart(start[j], CallDate) IN
  IF named # {} THEN rows[FirstBest(named, earlier)]
  ELSE IF candidates = {} THEN NoRow
  ELSE IF CallDate = NoTime THEN rows[LastBest(candidates, later)]
  ELSE rows[FirstBest(candidates, nearer)]

----------------------------------------------------------------------------
(* preset_lookup.py.                                                       *)

\* Mutant: a call without a Start Call is looked for around its end only.
StartUnknown ==
  IF event.heard THEN event.start ELSE event.finalized

\* lookup_sale_preset: the receipt of the Start Call, or the earliest sensible bound.
WindowStart ==
  IF event.heard THEN event.start
  ELSE LET talked == event.finalized - event.talk_time IN
       IF CallDate = NoTime THEN talked ELSE Least(CallDate, talked)

\* parse_latest_preset: both ends and the rows are compared as they stand on the wall.
LatestPreset ==
  LET rows == report.transfers
      candidates == {i \in DOMAIN rows :
                       /\ rows[i].transfer /\ rows[i].lead /\ rows[i].preset
                       /\ rows[i].at >= Wall(WindowStart) - Skew
                       /\ rows[i].at <= Wall(event.finalized) + Skew}
      later(i, j) == rows[i].at > rows[j].at IN
  IF candidates = {} THEN NoRow ELSE rows[FirstBest(candidates, later)]

----------------------------------------------------------------------------
NotLooked == [of |-> "nothing", row |-> NoRow]

LookupRecording ==
  /\ found = NotLooked /\ report.recordings # <<>>
  /\ found' = [of |-> "recording", row |-> ChooseRecording]
  /\ UNCHANGED <<shift, event, report>>

LookupPreset ==
  /\ found = NotLooked /\ report.transfers # <<>>
  /\ found' = [of |-> "preset", row |-> LatestPreset]
  /\ UNCHANGED <<shift, event, report>>

\* The reports show the time on the wall of what happened.
Dated(rows) == [i \in DOMAIN rows |-> [rows[i] EXCEPT !.at = Wall(@)]]
Started(rows) == [i \in DOMAIN rows |-> [rows[i] EXCEPT !.start = Wall(@)]]

\* No report is read.
ReportsRest == shift = 0 /\ event = NoRow /\ report = NoRow /\ found = NotLooked

ReportsStart ==
  /\ shift \in Shifts
  /\ \E s \in Situations :
       /\ event = s.event
       /\ report = [happened |-> s.transfers, transfers |-> Dated(s.transfers),
                    recordings |-> Started(s.recordings)]
  /\ found = NotLooked

LookupNext == LookupRecording \/ LookupPreset
ReportsSpec == ReportsStart /\ [][LookupNext]_reportVars

----------------------------------------------------------------------------
(* Properties.                                                             *)

During(from, to) == shift # 0 /\ from < Change /\ Change <= to
SetBack == shift < 0 /\ During(event.start - Skew, event.finalized + Skew)

\* The transfers of this call, by when they happened.
Own == {i \in DOMAIN report.happened :
          /\ report.happened[i].transfer /\ report.happened[i].lead /\ report.happened[i].preset
          /\ report.happened[i].at \in event.start..event.finalized}
StartKnown ==
  \/ event.heard \/ event.talk_time = event.finalized - event.start
  \/ event.dated /\ CallDate = event.start

\* What is read out of a report is about the call.  The preset of a transfer during the
\* call is found, whenever its start can be known, and is the last one unless another
\* transfer of the lead lies within five minutes of the call on the wall (preset_lookup.py:99-201);
\* only a clock that is set back near the call takes this away.  (The start is not known of
\* a call that is dated in the repeated hour and reported closer to the other one.)
\* A recording of the agent that is named, or that starts with a dated call, is chosen
\* even in an hour that is repeated, unless another one shows the same time on the wall
\* (services.py:166-190, :91-122).
ReportedOfThisCall ==
  /\ found.of = "preset" /\ Own # {} /\ StartKnown /\ ~SetBack =>
       /\ found.row # NoRow
       /\ \E i \in DOMAIN report.happened :
            LET at == report.happened[i].at IN
            /\ report.transfers[i] = found.row
            /\ IF i \in Own THEN \A j \in Own : report.happened[j].at <= at
               ELSE found.row.at \in (Wall(event.start) - Skew)..(Wall(event.finalized) + Skew)
  /\ found.of = "recording" =>
       \A i \in Recordings :
         LET row == report.recordings[i] IN
         \/ row.id # 1 \/ found.row = row
         \/ event.recording # 1
            /\ \/ ~row.agent \/ ~event.dated \/ row.start # Wall(event.start)
               \/ \E j \in Recordings \ {i} : report.recordings[j].start = row.start
=============================================================================
