--------------------------- MODULE ReviewWorkflow ---------------------------
(***************************************************************************)
(* The QA review of one call, from the reservation to the team leader's    *)
(* last word: reserve, release, draft and submit of calls/views.py, the    *)
(* report actions of ReviewReportActionView, and the two notifications     *)
(* that tie them together (notifications/services.py).                     *)
(*                                                                         *)
(* The QA's handlers lock the call row; draft and submit lock the review   *)
(* row as well, and are one step each.  Release locks only the call, and   *)
(* reads the review, deletes its workflow events and deletes the review in *)
(* three steps.  A report action locks only the review: it is one step,    *)
(* and may come between the steps of a release.                            *)
(***************************************************************************)
EXTENDS Naturals

CONSTANTS QAs, Leaders,   \* the QA analysts and team leaders in scope of the call
          Superuser,      \* a system administrator, who sees every report
          NoReview, Nobody,
          MaxReserved,    \* bound: reservations of the call
          MaxActions      \* bound: report actions on one review

LeaderStatus == {"pending", "acknowledged", "coaching_planned", "coaching_completed",
                 "escalated", "returned_to_qa", "closed"}
EvaluationType == {"scored", "zero_defect"}

ReviewRow == [reviewer : QAs, status : {"in_progress", "revision_required", "completed"},
              eval : EvaluationType, team_leader : Leaders \cup {Nobody},
              leader_status : LeaderStatus, completed : BOOLEAN, reviewed : BOOLEAN,
              closed : BOOLEAN, due : BOOLEAN, events : Nat]

\* An account has one role.
ASSUME ReviewAssumption ==
  /\ NoReview \notin ReviewRow
  /\ Nobody \notin Leaders \cup QAs /\ Superuser \notin Leaders /\ QAs \cap Leaders = {}
  /\ MaxReserved \in Nat /\ MaxActions \in Nat

VARIABLES ready,     \* the recording is downloaded and the call not stale
          leader,    \* the leader of the call's team; Nobody without a team
          active,    \* the leaders whose account is active
          review,    \* the row of calls_review, or NoReview
          releasing, \* the release that holds the call row, or Idle
          notice,    \* the notification "QA report ready" of this review
          returned,  \* how many "report returned" notifications of it are open
          reserved,  \* bound counter
          overruled  \* the superuser moved the report, not its leader (history)

vars == <<ready, leader, active, review, releasing, notice, returned, reserved, overruled>>
staff == <<ready, leader, active>>

Idle == [by |-> Nobody, pc |-> "idle", events |-> 0]
CallRowFree == releasing = Idle
NoNotice == [to |-> Nobody, open |-> FALSE]

Init ==
  /\ ready \in BOOLEAN /\ leader \in Leaders \cup {Nobody} /\ active = Leaders
  /\ review = NoReview /\ releasing = Idle
  /\ notice = NoNotice /\ returned = 0 /\ reserved = 0 /\ overruled = FALSE

\* _analysis_call: the call row is locked, and the call can be analysed.
Analysable == CallRowFree /\ ready
Owns(q) == Analysable /\ review # NoReview /\ review.reviewer = q

----------------------------------------------------------------------------
Reserve(q) ==
  /\ Analysable /\ review = NoReview
  /\ reserved < MaxReserved /\ reserved' = reserved + 1
  /\ review' = [reviewer |-> q, status |-> "in_progress", eval |-> "scored",
                team_leader |-> Nobody, leader_status |-> "pending", completed |-> FALSE,
                reviewed |-> FALSE, closed |-> FALSE, due |-> FALSE, events |-> 0]
  /\ notice' = NoNotice /\ returned' = 0 /\ overruled' = FALSE
  /\ UNCHANGED <<staff, releasing>>

\* Mutant: a submitted review may be released too.
ReleaseCheckAlways(q) ==
  /\ Owns(q)
  /\ releasing' = [by |-> q, pc |-> "events", events |-> 0]
  /\ UNCHANGED <<staff, review, notice, returned, reserved, overruled>>

ReleaseCheck(q) ==
  /\ Owns(q) /\ review.status = "in_progress"
  /\ releasing' = [by |-> q, pc |-> "events", events |-> 0]
  /\ UNCHANGED <<staff, review, notice, returned, reserved, overruled>>

\* review.delete() first deletes the workflow events it can see,
ReleaseEvents(q) ==
  /\ releasing.by = q /\ releasing.pc = "events"
  /\ releasing' = [by |-> q, pc |-> "delete", events |-> review.events]
  /\ UNCHANGED <<staff, review, notice, returned, reserved, overruled>>

\* then the review; the foreign key of an event that came meanwhile rolls the
\* whole release back.
ReleaseDelete(q) ==
  /\ releasing.by = q /\ releasing.pc = "delete"
  /\ releasing' = Idle
  /\ review' = IF review.events = releasing.events THEN NoReview ELSE review
  /\ UNCHANGED <<staff, notice, returned, reserved, overruled>>

Draft(q, eval) ==
  /\ Owns(q) /\ review.status \in {"in_progress", "revision_required"}
  /\ review' = [review EXCEPT !.eval = eval]
  /\ UNCHANGED <<staff, releasing, notice, returned, reserved, overruled>>

----------------------------------------------------------------------------
\* Mutant: a resubmission resets the leader's decision but not its stamps.
SubmittedKeepsStamps(eval, again) ==
  LET zero == eval = "zero_defect" IN
  [review EXCEPT !.eval = eval, !.team_leader = leader, !.status = "completed",
     !.completed = TRUE,
     !.leader_status = IF zero THEN "closed" ELSE IF again THEN "pending" ELSE @]

\* The review a submission saves; again: it had been returned.
Submitted(eval, again) ==
  LET zero  == eval = "zero_defect"
      fresh == again \/ zero IN
  [review EXCEPT !.eval = eval, !.team_leader = leader, !.status = "completed",
     !.completed = TRUE,
     !.leader_status = IF zero THEN "closed" ELSE IF again THEN "pending" ELSE @,
     !.reviewed = @ /\ ~fresh,
     !.closed   = IF zero THEN TRUE ELSE @ /\ ~again,
     !.due      = @ /\ ~fresh,
     !.events   = IF again THEN @ + 1 ELSE @]

Submit(q, eval) ==
  LET again == review.status = "revision_required" IN
  /\ Owns(q) /\ review.status # "completed"
  /\ eval = "zero_defect" \/ leader \in active
  /\ review' = Submitted(eval, again)
  /\ returned' = IF again THEN 0 ELSE returned
  /\ notice' = IF eval # "zero_defect" THEN [to |-> leader, open |-> TRUE]
               ELSE IF notice.to = leader THEN [notice EXCEPT !.open = FALSE]
               ELSE notice
  /\ overruled' = (overruled /\ ~(again /\ eval # "zero_defect"))
  /\ UNCHANGED <<staff, releasing, reserved>>

----------------------------------------------------------------------------
Transitions == [
  pending            |-> {"acknowledged", "coaching_planned", "escalated", "returned_to_qa"},
  acknowledged       |-> {"coaching_planned", "escalated", "closed", "returned_to_qa"},
  coaching_planned   |-> {"coaching_completed", "escalated", "returned_to_qa"},
  coaching_completed |-> {"coaching_planned", "closed", "returned_to_qa"},
  escalated          |-> {"coaching_planned", "closed", "returned_to_qa"},
  closed             |-> {"acknowledged", "returned_to_qa"},
  returned_to_qa     |-> {}]

\* scoped_reports: what each user sees, zero-defect reports refused to all.
Manages(u) ==
  /\ review # NoReview /\ review.eval # "zero_defect"
  /\ u # Superuser => u \in active /\ review.team_leader = u /\ review.status = "completed"

\* Mutant: only the leader status is written when a report is returned.
ActedKeepsStatus(target) ==
  [review EXCEPT !.events = @ + 1, !.reviewed = TRUE, !.leader_status = target,
     !.closed = target = "closed", !.due = target = "coaching_planned"]

\* The review a report action saves.  A note names the present status, or none.
Acted(target) ==
  LET acted == [review EXCEPT !.events = @ + 1, !.reviewed = TRUE] IN
  IF target = review.leader_status THEN acted
  ELSE [acted EXCEPT
     !.leader_status = target,
     !.closed = target = "closed",
     !.due    = (@ \/ target = "coaching_planned") /\ target # "returned_to_qa",
     !.status = IF target = "returned_to_qa" THEN "revision_required" ELSE @]

\* Mutant: reading or annotating a pending report settles its notification.
SettlesOnNote(u, target) == notice.to = u

\* resolve_review_report_notification, called with the new leader status.
Settles(u, target) == notice.to = u /\ target # "pending"

ReportAction(u, target) ==
  /\ Manages(u) /\ review.events < MaxActions
  /\ target = review.leader_status \/ target \in Transitions[review.leader_status]
  /\ review' = Acted(target)
  /\ notice' = IF Settles(u, target) THEN [notice EXCEPT !.open = FALSE] ELSE notice
  /\ returned' = IF target = "returned_to_qa" THEN returned + 1 ELSE returned
  /\ overruled' = IF target = review.leader_status THEN overruled
                  ELSE u = Superuser \/ (overruled /\ notice.to # u)
  /\ UNCHANGED <<staff, releasing, reserved>>

----------------------------------------------------------------------------
\* The rest of the portal: the recording is reset or downloaded, the call's team
\* is assigned or gets another leader, an account is switched on or off.
RecordingChanges ==
  /\ CallRowFree /\ ready' = ~ready
  /\ UNCHANGED <<leader, active, review, releasing, notice, returned, reserved, overruled>>

TeamChanges(l) ==
  /\ l # leader /\ leader' = l
  /\ UNCHANGED <<ready, active, review, releasing, notice, returned, reserved, overruled>>

AccountChanges(l) ==
  /\ active' = IF l \in active THEN active \ {l} ELSE active \cup {l}
  /\ UNCHANGED <<ready, leader, review, releasing, notice, returned, reserved, overruled>>

Next ==
  \/ \E q \in QAs : Reserve(q)
  \/ \E q \in QAs : ReleaseCheck(q) \/ ReleaseEvents(q) \/ ReleaseDelete(q)
  \/ \E q \in QAs, eval \in EvaluationType : Draft(q, eval)
  \/ \E q \in QAs, eval \in EvaluationType : Submit(q, eval)
  \/ \E u \in Leaders \cup {Superuser}, target \in LeaderStatus : ReportAction(u, target)
  \/ RecordingChanges
  \/ \E l \in Leaders : TeamChanges(l)
  \/ \E l \in Leaders : AccountChanges(l)

Spec == Init /\ [][Next]_vars

----------------------------------------------------------------------------
TypeOK ==
  /\ ready \in BOOLEAN /\ leader \in Leaders \cup {Nobody} /\ active \in SUBSET Leaders
  /\ review \in ReviewRow \cup {NoReview}
  /\ releasing \in [by : QAs \cup {Nobody}, pc : {"idle", "events", "delete"}, events : Nat]
  /\ notice \in [to : Leaders \cup {Nobody}, open : BOOLEAN]
  /\ returned \in Nat /\ reserved \in Nat /\ overruled \in BOOLEAN

Exists == review # NoReview

(* The two halves of the workflow agree on whose turn it is: the QA has to  *)
(* revise exactly the reviews a leader status calls returned, and is told,  *)
(* by at least one open notification; nobody is told otherwise.             *)
ReturnedTogether == Exists =>
  /\ review.status = "revision_required" <=> review.leader_status = "returned_to_qa"
  /\ review.status = "revision_required" <=> returned > 0

(* The stamps of a review belong to its present state: the closing time to  *)
(* a closed report, a deadline to planned coaching and never to a returned  *)
(* or resubmitted report, and no submitted report has left pending unread.  *)
StampsAgree == Exists =>
  /\ review.closed <=> review.leader_status = "closed"
  /\ review.leader_status = "coaching_planned" => review.due
  /\ review.leader_status \in {"pending", "returned_to_qa"} => ~review.due
  /\ review.status = "completed" /\ review.eval = "scored" /\ ~review.reviewed
       => review.leader_status = "pending"

Awaiting == /\ Exists /\ review.status = "completed" /\ review.eval = "scored"
            /\ review.leader_status = "pending"

(* A submitted report waiting for its leader is in the leader's             *)
(* notifications, after any number of returns and changes of leader.        *)
LeaderIsTold == Awaiting => notice = [to |-> review.team_leader, open |-> TRUE]

(* A leader is not kept notified of a report that needs nothing from him,   *)
(* unless the superuser moved it over his head.                             *)
NoticeHasWork == notice.open => Awaiting \/ overruled

(* The notifications of a leader are the reports that wait for him, through *)
(* returns, resubmissions and changes of leader (views.py:426-460,          *)
(* :1067-1110, notifications/services.py:209-275).                          *)
LeaderNoticeFits == LeaderIsTold /\ NoticeHasWork

(* A review that was ever submitted is never deleted.                       *)
SubmittedKept == [][Exists /\ review.completed => review' # NoReview]_review

(* What the handler answers a QA who tries: "A submitted or returned review *)
(* cannot be released."                                                     *)
ReturnedNeverReleased ==
  [][Exists /\ review.status # "in_progress" => review' # NoReview]_review
=============================================================================
