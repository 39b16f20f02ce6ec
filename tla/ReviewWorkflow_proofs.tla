----------------------- MODULE ReviewWorkflow_proofs -----------------------
(***************************************************************************)
(* The review of a call and the library of reports over it, who sees what, *)
(* and the scorecard, proved for any analysts, leaders, administrators,    *)
(* tables, headings, criteria and bounds.                                  *)
(*                                                                         *)
(* ReviewWorkflow: the report actions of a superuser reach a review that   *)
(* was never submitted, and may come between the steps of a release; the   *)
(* two facts UnsubmittedReview and ReleasedReview say what remains true    *)
(* then, and make the invariants inductive.                                *)
(***************************************************************************)
EXTENDS ReportLibrary, Visibility, Scorecard, FiniteSetTheorems, WellFoundedInduction, TLAPS

(* A review in progress was never submitted; only the superuser can have    *)
(* moved its leader status.                                                 *)
UnsubmittedReview == Exists /\ review.status = "in_progress" =>
  /\ ~review.completed
  /\ ~review.reviewed => review.leader_status = "pending"
  /\ review.leader_status # "pending" => overruled

(* A review that is being released is there, and was never submitted.       *)
ReleasedReview == releasing # Idle =>
  Exists /\ ~review.completed /\ review.status # "completed"

IInv == /\ TypeOK /\ ReturnedTogether /\ StampsAgree /\ LeaderIsTold /\ NoticeHasWork
        /\ UnsubmittedReview /\ ReleasedReview

----------------------------------------------------------------------------
(* A row stays a row when one field gets a value of its type.               *)
LEMMA RowUpdate ==
  ASSUME NEW row \in ReviewRow
  PROVE  /\ \A v \in EvaluationType : [row EXCEPT !.eval = v] \in ReviewRow
         /\ \A v \in Leaders \cup {Nobody} : [row EXCEPT !.team_leader = v] \in ReviewRow
         /\ \A v \in {"in_progress", "revision_required", "completed"} :
              [row EXCEPT !.status = v] \in ReviewRow
         /\ \A v \in LeaderStatus : [row EXCEPT !.leader_status = v] \in ReviewRow
         /\ \A v \in BOOLEAN : [row EXCEPT !.completed = v] \in ReviewRow
         /\ \A v \in BOOLEAN : [row EXCEPT !.reviewed = v] \in ReviewRow
         /\ \A v \in BOOLEAN : [row EXCEPT !.closed = v] \in ReviewRow
         /\ \A v \in BOOLEAN : [row EXCEPT !.due = v] \in ReviewRow
         /\ \A v \in Nat : [row EXCEPT !.events = v] \in ReviewRow
BY DEF ReviewRow

(* What a submission writes.                                                *)
LEMMA SubmittedFacts ==
  ASSUME review \in ReviewRow, NEW eval \in EvaluationType, NEW again \in BOOLEAN,
         leader \in Leaders \cup {Nobody}
  PROVE  LET new == Submitted(eval, again) IN
         /\ new \in ReviewRow
         /\ new.reviewer = review.reviewer /\ new.eval = eval
         /\ new.status = "completed" /\ new.completed
         /\ new.team_leader = leader
         /\ new.leader_status = IF eval = "zero_defect" THEN "closed"
                                ELSE IF again THEN "pending" ELSE review.leader_status
         /\ new.reviewed <=> review.reviewed /\ ~again /\ eval # "zero_defect"
         /\ new.closed <=> eval = "zero_defect" \/ (review.closed /\ ~again)
         /\ new.due <=> review.due /\ ~again /\ eval # "zero_defect"
<1> DEFINE new == Submitted(eval, again)
<1>1. new \in ReviewRow
  <2> DEFINE reviewed == review.reviewed /\ ~(again \/ eval = "zero_defect")
             closed   == IF eval = "zero_defect" THEN TRUE ELSE review.closed /\ ~again
             due      == review.due /\ ~(again \/ eval = "zero_defect")
             ls       == IF eval = "zero_defect" THEN "closed"
                         ELSE IF again THEN "pending" ELSE review.leader_status
             events   == IF again THEN review.events + 1 ELSE review.events
  <2>1. reviewed \in BOOLEAN /\ due \in BOOLEAN
    OBVIOUS
  <2>2. closed \in BOOLEAN
    BY DEF ReviewRow
  <2>3. ls \in LeaderStatus /\ events \in Nat
    BY DEF ReviewRow, LeaderStatus
  <2>4. "completed" \in {"in_progress", "revision_required", "completed"} /\ TRUE \in BOOLEAN
    OBVIOUS
  <2> DEFINE r1 == [review EXCEPT !.eval = eval]
             r2 == [r1 EXCEPT !.team_leader = leader]
             r3 == [r2 EXCEPT !.status = "completed"]
             r4 == [r3 EXCEPT !.completed = TRUE]
             r5 == [r4 EXCEPT !.leader_status = ls]
             r6 == [r5 EXCEPT !.reviewed = reviewed]
             r7 == [r6 EXCEPT !.closed = closed]
             r8 == [r7 EXCEPT !.due = due]
  <2>5. new = [r8 EXCEPT !.events = events]
    BY Zenon DEF Submitted
  <2> HIDE DEF reviewed, closed, due, ls, events, new
  <2>6. r4 \in ReviewRow
    <3>1. r1 \in ReviewRow
      BY RowUpdate, Zenon
    <3>2. r2 \in ReviewRow
      BY <3>1, RowUpdate, Zenon
    <3>3. r3 \in ReviewRow
      BY <3>2, <2>4, RowUpdate, Zenon
    <3> QED BY <3>3, <2>4, RowUpdate, Zenon
  <2> HIDE DEF r4
  <2>7. r6 \in ReviewRow
    <3>1. r5 \in ReviewRow
      BY <2>3, <2>6, RowUpdate, Zenon
    <3> QED BY <3>1, <2>1, RowUpdate, Zenon
  <2> HIDE DEF r6
  <2>8. r8 \in ReviewRow
    <3>1. r7 \in ReviewRow
      BY <2>2, <2>7, RowUpdate, Zenon
    <3> QED BY <3>1, <2>1, RowUpdate, Zenon
  <2> HIDE DEF r8
  <2> QED BY <2>3, <2>5, <2>8, RowUpdate, Zenon
<1>2. /\ new.reviewer = review.reviewer /\ new.eval = eval
      /\ new.status = "completed" /\ new.team_leader = leader
      /\ new.leader_status = IF eval = "zero_defect" THEN "closed"
                             ELSE IF again THEN "pending" ELSE review.leader_status
  BY DEF Submitted, ReviewRow
<1>3. new.completed
  BY DEF Submitted, ReviewRow
<1>4. new.reviewed <=> review.reviewed /\ ~again /\ eval # "zero_defect"
  BY DEF Submitted, ReviewRow
<1>5. new.closed <=> eval = "zero_defect" \/ (review.closed /\ ~again)
  BY DEF Submitted, ReviewRow
<1>6. new.due <=> review.due /\ ~again /\ eval # "zero_defect"
  BY DEF Submitted, ReviewRow
<1> QED BY <1>1, <1>2, <1>3, <1>4, <1>5, <1>6

(* What a report action writes.                                             *)
LEMMA ActedFacts ==
  ASSUME review \in ReviewRow, NEW target \in LeaderStatus
  PROVE  LET new == Acted(target)
             moved == target # review.leader_status IN
         /\ new \in ReviewRow
         /\ new.reviewer = review.reviewer /\ new.eval = review.eval
         /\ new.team_leader = review.team_leader /\ (new.completed <=> review.completed)
         /\ new.reviewed
         /\ new.leader_status = target
         /\ new.status = IF moved /\ target = "returned_to_qa" THEN "revision_required"
                         ELSE review.status
         /\ new.closed <=> IF moved THEN target = "closed" ELSE review.closed
         /\ new.due <=> IF moved THEN (review.due \/ target = "coaching_planned")
                                       /\ target # "returned_to_qa"
                         ELSE review.due
<1> DEFINE new   == Acted(target)
           moved == target # review.leader_status
<1>1. new \in ReviewRow
  <2> DEFINE noted  == [review EXCEPT !.events = review.events + 1]
             acted  == [noted EXCEPT !.reviewed = TRUE]
             closed == target = "closed"
             due    == (acted.due \/ target = "coaching_planned") /\ target # "returned_to_qa"
             next   == IF target = "returned_to_qa" THEN "revision_required"
                       ELSE acted.status
             r1 == [acted EXCEPT !.leader_status = target]
             r2 == [r1 EXCEPT !.closed = closed]
             r3 == [r2 EXCEPT !.due = due]
  <2>1. new = IF ~moved THEN acted ELSE [r3 EXCEPT !.status = next]
    BY Zenon DEF Acted
  <2>2. review.events + 1 \in Nat
    BY DEF ReviewRow
  <2>3. acted \in ReviewRow
    <3>1. noted \in ReviewRow
      BY <2>2, RowUpdate, Zenon
    <3>2. TRUE \in BOOLEAN
      OBVIOUS
    <3> QED BY <3>1, <3>2, RowUpdate, Zenon
  <2> HIDE DEF acted
  <2>4. closed \in BOOLEAN /\ due \in BOOLEAN
    OBVIOUS
  <2>5. next \in {"in_progress", "revision_required", "completed"}
    BY <2>3 DEF ReviewRow
  <2> HIDE DEF closed, due, next, new
  <2>6. r1 \in ReviewRow
    BY <2>3, RowUpdate, Zenon
  <2>7. r2 \in ReviewRow
    BY <2>4, <2>6, RowUpdate, Zenon
  <2> HIDE DEF r2
  <2>8. r3 \in ReviewRow
    BY <2>4, <2>7, RowUpdate, Zenon
  <2> HIDE DEF r3
  <2>9. [r3 EXCEPT !.status = next] \in ReviewRow
    BY <2>5, <2>8, RowUpdate, Zenon
  <2> QED BY <2>1, <2>3, <2>9
<1>2. /\ new.reviewer = review.reviewer /\ new.eval = review.eval
      /\ new.team_leader = review.team_leader /\ new.leader_status = target
      /\ new.status = IF moved /\ target = "returned_to_qa" THEN "revision_required"
                      ELSE review.status
  BY DEF Acted, ReviewRow
<1>3. new.completed <=> review.completed
  BY DEF Acted, ReviewRow
<1>4. new.reviewed
  BY DEF Acted, ReviewRow
<1>5. new.closed <=> IF moved THEN target = "closed" ELSE review.closed
  BY DEF Acted, ReviewRow
<1>6. new.due <=> IF moved THEN (review.due \/ target = "coaching_planned")
                                /\ target # "returned_to_qa"
                  ELSE review.due
  BY DEF Acted, ReviewRow
<1> QED BY <1>1, <1>2, <1>3, <1>4, <1>5, <1>6

(* No action leads to "pending", and none leads out of "returned_to_qa".    *)
LEMMA TransitionFacts ==
  ASSUME NEW from \in LeaderStatus, NEW target \in Transitions[from]
  PROVE  target \in LeaderStatus /\ target # "pending" /\ from # "returned_to_qa"
BY DEF Transitions, LeaderStatus

----------------------------------------------------------------------------
LEMMA InitIInv == Init => IInv
<1> SUFFICES ASSUME Init PROVE IInv
  OBVIOUS
<1>1. TypeOK
  <2>1. /\ releasing \in [by : QAs \cup {Nobody}, pc : {"idle", "events", "delete"}, events : Nat]
        /\ notice \in [to : Leaders \cup {Nobody}, open : BOOLEAN]
    BY DEF Init, Idle, NoNotice
  <2> QED BY <2>1 DEF Init, TypeOK
<1>2. ~Exists /\ releasing = Idle
  BY DEF Init, Exists
<1>3. ~notice.open
  BY DEF Init, NoNotice
<1> QED
  BY <1>1, <1>2, <1>3 DEF IInv, ReturnedTogether, StampsAgree, LeaderIsTold, NoticeHasWork,
     UnsubmittedReview, ReleasedReview, Awaiting

(* A reservation starts from nothing.                                       *)
LEMMA ReserveStep ==
  ASSUME IInv, NEW q \in QAs, Reserve(q)
  PROVE  IInv'
<1> DEFINE new == review'
<1>1. /\ new \in ReviewRow /\ new.status = "in_progress" /\ new.leader_status = "pending"
      /\ new.eval = "scored" /\ ~new.completed /\ ~new.reviewed /\ ~new.closed /\ ~new.due
  BY DEF Reserve, ReviewRow, LeaderStatus, EvaluationType
<1>2. TypeOK'
  <2>1. notice' \in [to : Leaders \cup {Nobody}, open : BOOLEAN]
    BY DEF Reserve, NoNotice
  <2>2. UNCHANGED <<ready, leader, active, releasing>> /\ reserved' = reserved + 1
    BY DEF Reserve, staff
  <2>3. returned' \in Nat /\ overruled' \in BOOLEAN
    BY DEF Reserve
  <2> QED BY <1>1, <2>1, <2>2, <2>3 DEF IInv, TypeOK
<1>3. releasing' = Idle /\ returned' = 0 /\ notice' = NoNotice
  BY DEF Reserve, Analysable, CallRowFree
<1> QED
  BY <1>1, <1>2, <1>3 DEF IInv, ReturnedTogether, StampsAgree, LeaderIsTold, NoticeHasWork,
     UnsubmittedReview, ReleasedReview, Exists, Awaiting, NoNotice

(* The steps of a release touch the review only to delete it.               *)
LEMMA ReleaseCheckStep ==
  ASSUME IInv, NEW q \in QAs, ReleaseCheck(q)
  PROVE  IInv'
<1>1. TypeOK'
  BY DEF IInv, TypeOK, ReleaseCheck, staff
<1>2. UNCHANGED <<review, notice, returned, overruled>>
  BY DEF ReleaseCheck
<1>3. ReleasedReview'
  BY <1>2 DEF IInv, ReleasedReview, ReleaseCheck, Owns, Exists, UnsubmittedReview
<1> QED
  BY <1>1, <1>2, <1>3 DEF IInv, ReturnedTogether, StampsAgree, LeaderIsTold, NoticeHasWork,
     UnsubmittedReview, Exists, Awaiting

LEMMA ReleaseEventsStep ==
  ASSUME IInv, NEW q \in QAs, ReleaseEvents(q)
  PROVE  IInv'
<1>1. releasing # Idle
  BY DEF ReleaseEvents, Idle
<1>2. review # NoReview
  BY <1>1 DEF IInv, ReleasedReview, Exists
<1>3. TypeOK'
  BY <1>2 DEF IInv, TypeOK, ReleaseEvents, ReviewRow, staff
<1>4. UNCHANGED <<review, notice, returned, overruled>>
  BY DEF ReleaseEvents
<1> QED
  BY <1>1, <1>3, <1>4 DEF IInv, ReturnedTogether, StampsAgree, LeaderIsTold, NoticeHasWork,
     UnsubmittedReview, ReleasedReview, Exists, Awaiting

LEMMA ReleaseDeleteStep ==
  ASSUME IInv, NEW q \in QAs, ReleaseDelete(q)
  PROVE  IInv'
<1>1. releasing # Idle /\ releasing' = Idle
  BY DEF ReleaseDelete, Idle
<1>2. UNCHANGED <<notice, returned, overruled>> /\ (review' = review \/ review' = NoReview)
  BY DEF ReleaseDelete
<1>3. TypeOK'
  BY <1>2 DEF IInv, TypeOK, ReleaseDelete, Idle, staff
<1>4. ~Awaiting
  BY <1>1 DEF IInv, ReleasedReview, Awaiting
<1> QED
  BY <1>1, <1>2, <1>3, <1>4 DEF IInv, ReturnedTogether, StampsAgree, LeaderIsTold, NoticeHasWork,
     UnsubmittedReview, ReleasedReview, Exists, Awaiting

(* A draft is saved only on a review that is not submitted.                 *)
LEMMA DraftStep ==
  ASSUME IInv, NEW q \in QAs, NEW eval \in EvaluationType, Draft(q, eval)
  PROVE  IInv'
<1>1. review \in ReviewRow /\ review # NoReview /\ review.status # "completed"
  BY DEF IInv, TypeOK, Draft, Owns
<1>2. /\ review' \in ReviewRow /\ review'.status = review.status
      /\ review'.leader_status = review.leader_status /\ review'.completed = review.completed
      /\ review'.reviewed = review.reviewed /\ review'.closed = review.closed
      /\ review'.due = review.due
  BY <1>1 DEF Draft, ReviewRow
<1>3. UNCHANGED <<releasing, notice, returned, overruled>>
  BY DEF Draft
<1>4. releasing = Idle
  BY DEF Draft, Owns, Analysable, CallRowFree
<1>5. TypeOK'
  BY <1>2, <1>3 DEF IInv, TypeOK, Draft, staff
<1>6. ReturnedTogether' /\ StampsAgree'
  BY <1>1, <1>2, <1>3 DEF IInv, ReturnedTogether, StampsAgree, Exists
<1>7. LeaderIsTold' /\ NoticeHasWork'
  BY <1>1, <1>2, <1>3 DEF IInv, LeaderIsTold, NoticeHasWork, Awaiting
<1> QED
  BY <1>1, <1>2, <1>3, <1>4, <1>5, <1>6, <1>7
  DEF IInv, UnsubmittedReview, ReleasedReview, Exists

(* A submission: the first one, or one after a return.                      *)
LEMMA SubmitStep ==
  ASSUME IInv, NEW q \in QAs, NEW eval \in EvaluationType, Submit(q, eval)
  PROVE  IInv'
<1> DEFINE again == review.status = "revision_required"
           zero  == eval = "zero_defect"
           new   == review'
<1>1. /\ review \in ReviewRow /\ review # NoReview /\ review.status # "completed"
      /\ releasing = Idle /\ leader \in Leaders \cup {Nobody}
  BY DEF IInv, TypeOK, Submit, Owns, Analysable, CallRowFree
<1>2. /\ new \in ReviewRow /\ new.eval = eval /\ new.status = "completed" /\ new.completed
      /\ new.team_leader = leader
      /\ new.leader_status = IF zero THEN "closed"
                             ELSE IF again THEN "pending" ELSE review.leader_status
      /\ new.reviewed <=> review.reviewed /\ ~again /\ ~zero
      /\ new.closed <=> zero \/ (review.closed /\ ~again)
      /\ new.due <=> review.due /\ ~again /\ ~zero
  <2>1. review' = Submitted(eval, again)
    BY DEF Submit
  <2>2. again \in BOOLEAN
    OBVIOUS
  <2> HIDE DEF again
  <2> QED BY <1>1, <2>1, <2>2, SubmittedFacts
<1>3. /\ returned' = IF again THEN 0 ELSE returned
      /\ releasing' = releasing
      /\ notice' = IF ~zero THEN [to |-> leader, open |-> TRUE]
                   ELSE IF notice.to = leader THEN [notice EXCEPT !.open = FALSE] ELSE notice
      /\ overruled' = (overruled /\ ~(again /\ ~zero))
  BY DEF Submit
<1>4. again \/ review.status = "in_progress"
  BY <1>1 DEF ReviewRow
<1>5. TypeOK'
  <2>1. notice' \in [to : Leaders \cup {Nobody}, open : BOOLEAN]
    BY <1>1, <1>3 DEF IInv, TypeOK
  <2>2. returned' \in Nat /\ overruled' \in BOOLEAN
    BY <1>3 DEF IInv, TypeOK
  <2>3. UNCHANGED <<ready, leader, active, reserved>>
    BY DEF Submit, staff
  <2> QED BY <1>2, <1>3, <2>1, <2>2, <2>3 DEF IInv, TypeOK
<1>6. ReturnedTogether'
  BY <1>1, <1>2, <1>3, <1>4 DEF IInv, TypeOK, ReturnedTogether, Exists
<1>7. StampsAgree'
  BY <1>1, <1>2, <1>4 DEF IInv, ReturnedTogether, StampsAgree, UnsubmittedReview, Exists,
     EvaluationType
<1>8. LeaderIsTold'
  BY <1>2, <1>3 DEF LeaderIsTold, Awaiting
<1>9. NoticeHasWork'
  <2>1. CASE zero
    BY <1>1, <1>2, <1>3, <2>1 DEF IInv, TypeOK, NoticeHasWork, Awaiting
  <2>2. CASE ~zero
    BY <1>1, <1>2, <1>3, <1>4, <2>2, ReviewAssumption
    DEF IInv, NoticeHasWork, Awaiting, UnsubmittedReview, Exists, EvaluationType
  <2> QED BY <2>1, <2>2
<1> QED
  BY <1>1, <1>2, <1>3, <1>5, <1>6, <1>7, <1>8, <1>9
  DEF IInv, UnsubmittedReview, ReleasedReview

(* A report action, by the leader of a submitted report or the superuser.   *)
LEMMA ReportActionStep ==
  ASSUME IInv, NEW u \in Leaders \cup {Superuser}, NEW target \in LeaderStatus,
         ReportAction(u, target)
  PROVE  IInv'
<1> DEFINE new == review'
           moved == target # review.leader_status
<1>1. /\ review \in ReviewRow /\ review # NoReview /\ review.eval # "zero_defect"
      /\ review.leader_status \in LeaderStatus
      /\ u # Superuser => review.team_leader = u /\ review.status = "completed"
  BY DEF IInv, TypeOK, ReportAction, Manages, ReviewRow
<1>2. /\ new \in ReviewRow /\ new.eval = review.eval /\ new.team_leader = review.team_leader
      /\ (new.completed <=> review.completed) /\ new.reviewed
      /\ new.leader_status = target
      /\ new.status = IF moved /\ target = "returned_to_qa" THEN "revision_required"
                      ELSE review.status
      /\ new.closed <=> IF moved THEN target = "closed" ELSE review.closed
      /\ new.due <=> IF moved THEN (review.due \/ target = "coaching_planned")
                                       /\ target # "returned_to_qa"
                         ELSE review.due
  <2>1. review' = Acted(target)
    BY DEF ReportAction
  <2> QED BY <1>1, <2>1, ActedFacts
<1>3. moved => target # "pending" /\ review.leader_status # "returned_to_qa"
  BY <1>1, TransitionFacts DEF ReportAction
<1>4. /\ notice' = IF notice.to = u /\ target # "pending" THEN [notice EXCEPT !.open = FALSE]
                   ELSE notice
      /\ returned' = IF target = "returned_to_qa" THEN returned + 1 ELSE returned
      /\ overruled' = IF moved THEN u = Superuser \/ (overruled /\ notice.to # u)
                      ELSE overruled
      /\ releasing' = releasing
  BY DEF ReportAction, Settles
<1>5. new # NoReview
  BY <1>2, ReviewAssumption
<1>6. TypeOK'
  <2>1. notice' \in [to : Leaders \cup {Nobody}, open : BOOLEAN]
    BY <1>4 DEF IInv, TypeOK
  <2>2. returned' \in Nat
    BY <1>4 DEF IInv, TypeOK
  <2>3. overruled' \in BOOLEAN
    BY <1>4 DEF IInv, TypeOK
  <2>4. UNCHANGED <<ready, leader, active, reserved>>
    BY DEF ReportAction, staff
  <2> QED BY <1>2, <1>4, <2>1, <2>2, <2>3, <2>4 DEF IInv, TypeOK
<1>7. ReturnedTogether'
  BY <1>1, <1>2, <1>3, <1>4 DEF IInv, TypeOK, ReturnedTogether, Exists
<1>8. StampsAgree'
  BY <1>1, <1>2, <1>3 DEF IInv, StampsAgree, Exists
<1>9. LeaderIsTold'
  BY <1>1, <1>2, <1>3, <1>4 DEF IInv, LeaderIsTold, Awaiting, Exists
<1>10. NoticeHasWork'
  BY <1>1, <1>2, <1>3, <1>4, <1>5 DEF IInv, TypeOK, LeaderIsTold, NoticeHasWork, Awaiting, Exists
<1>11. UnsubmittedReview'
  BY <1>1, <1>2, <1>3, <1>4 DEF IInv, UnsubmittedReview, Exists
<1>12. ReleasedReview'
  BY <1>1, <1>2, <1>4, <1>5 DEF IInv, ReleasedReview, Exists
<1> QED
  BY <1>6, <1>7, <1>8, <1>9, <1>10, <1>11, <1>12 DEF IInv

(* The rest of the portal changes nothing of the review.                    *)
LEMMA OtherStep ==
  ASSUME IInv, UNCHANGED <<review, releasing, notice, returned, reserved, overruled>>,
         ready' \in BOOLEAN, leader' \in Leaders \cup {Nobody}, active' \in SUBSET Leaders
  PROVE  IInv'
BY DEF IInv, TypeOK, ReturnedTogether, StampsAgree, LeaderIsTold, NoticeHasWork,
       UnsubmittedReview, ReleasedReview, Exists, Awaiting, Idle

----------------------------------------------------------------------------
LEMMA NextIInv == IInv /\ [Next]_vars => IInv'
<1> SUFFICES ASSUME IInv, [Next]_vars PROVE IInv'
  OBVIOUS
<1> USE DEF Next
<1>1. CASE \E q \in QAs : Reserve(q)
  BY <1>1, ReserveStep
<1>2. CASE \E q \in QAs : ReleaseCheck(q) \/ ReleaseEvents(q) \/ ReleaseDelete(q)
  BY <1>2, ReleaseCheckStep, ReleaseEventsStep, ReleaseDeleteStep
<1>3. CASE \E q \in QAs, eval \in EvaluationType : Draft(q, eval)
  BY <1>3, DraftStep
<1>4. CASE \E q \in QAs, eval \in EvaluationType : Submit(q, eval)
  BY <1>4, SubmitStep
<1>5. CASE \E u \in Leaders \cup {Superuser}, target \in LeaderStatus : ReportAction(u, target)
  BY <1>5, ReportActionStep
<1>6. CASE RecordingChanges
  BY <1>6, OtherStep DEF RecordingChanges, IInv, TypeOK
<1>7. CASE \E l \in Leaders : TeamChanges(l)
  BY <1>7, OtherStep DEF TeamChanges, IInv, TypeOK
<1>8. CASE \E l \in Leaders : AccountChanges(l)
  BY <1>8, OtherStep DEF AccountChanges, IInv, TypeOK
<1>9. CASE UNCHANGED vars
  BY <1>9, OtherStep DEF vars, IInv, TypeOK
<1> QED
  BY <1>1, <1>2, <1>3, <1>4, <1>5, <1>6, <1>7, <1>8, <1>9

LEMMA AlwaysIInv == Spec => []IInv
BY InitIInv, NextIInv, PTL DEF Spec

(* Every variable of the review workflow keeps its type.                    *)
THEOREM TypeCorrect == Spec => []TypeOK
BY AlwaysIInv, PTL DEF IInv

(* The QA's half and the leader's half of the workflow always agree on      *)
(* whose turn it is, and the QA is told exactly of what he has to revise    *)
(* (submit and ReviewReportActionView).                                     *)
THEOREM TurnsAgree == Spec => []ReturnedTogether
BY AlwaysIInv, PTL DEF IInv

(* The stamps of a report belong to its present leader status, after any    *)
(* number of returns and resubmissions.                                     *)
THEOREM StampsKept == Spec => []StampsAgree
BY AlwaysIInv, PTL DEF IInv

(* The leader of a submitted report that nobody has touched is notified.    *)
THEOREM LeadersTold == Spec => []LeaderIsTold
BY AlwaysIInv, PTL DEF IInv

(* An open notification has work behind it, or the superuser moved the      *)
(* report.                                                                  *)
THEOREM NoticesHaveWork == Spec => []NoticeHasWork
BY AlwaysIInv, PTL DEF IInv

(* Both: the notifications of a leader are the reports that wait for him.   *)
THEOREM NoticesFit == Spec => []LeaderNoticeFits
<1>1. IInv => LeaderNoticeFits
  BY DEF IInv, LeaderNoticeFits
<1> QED BY <1>1, AlwaysIInv, PTL

(* A review that was ever submitted is never deleted, whatever comes        *)
(* between the steps of a release.                                          *)
THEOREM SubmittedStays == Spec => SubmittedKept
<1>1. IInv /\ [Next]_vars => [Exists /\ review.completed => review' # NoReview]_review
  <2> SUFFICES ASSUME IInv, [Next]_vars, review' # review, Exists, review.completed
               PROVE  review' # NoReview
    OBVIOUS
  <2>1. releasing = Idle
    BY DEF IInv, ReleasedReview
  <2>2. ASSUME NEW q \in QAs, ReleaseDelete(q) PROVE FALSE
    BY <2>1, <2>2 DEF ReleaseDelete, Idle
  <2>3. ASSUME NEW q \in QAs, Reserve(q) PROVE FALSE
    BY <2>3 DEF Reserve, Exists
  <2>4. ASSUME NEW q \in QAs, NEW eval \in EvaluationType, Draft(q, eval)
        PROVE  review' \in ReviewRow
    BY <2>4 DEF IInv, TypeOK, Draft, Owns, ReviewRow
  <2>5. ASSUME NEW q \in QAs, NEW eval \in EvaluationType, Submit(q, eval)
        PROVE  review' \in ReviewRow
    BY <2>5, SubmittedFacts DEF IInv, TypeOK, Submit, Exists
  <2>6. ASSUME NEW u \in Leaders \cup {Superuser}, NEW target \in LeaderStatus,
               ReportAction(u, target)
        PROVE  review' \in ReviewRow
    BY <2>6, ActedFacts DEF IInv, TypeOK, ReportAction, Exists
  <2>7. CASE UNCHANGED vars
    BY <2>7 DEF vars
  <2> QED
    BY <2>2, <2>3, <2>4, <2>5, <2>6, <2>7, ReviewAssumption
    DEF Next, ReleaseCheck, ReleaseEvents, RecordingChanges, TeamChanges, AccountChanges
<1> QED
  BY <1>1, AlwaysIInv, PTL DEF Spec, SubmittedKept

----------------------------------------------------------------------------
(* The report library reads the review only; what its list shows depends on *)
(* the one filter that is set.                                              *)
LEMMA OnlySegment ==
  ASSUME NEW f, NEW s
  PROVE  /\ Listed(Unfiltered, f)
         /\ Listed(List(s), f) <=> Segment(s, f)
         /\ Listed([Unfiltered EXCEPT !.overdue = "true"], f) <=> Overdue(f)
<1>1. \A x : Chosen({}, x)
  BY DEF Chosen
<1>2. \A x : Wanted("any", x)
  BY DEF Wanted
<1>3. Wanted("true", Overdue(f)) <=> Overdue(f)
  BY Zenon DEF Wanted
<1>4. \A p : p.rules = {} => ScoreRules(p, f)
  BY Zenon DEF ScoreRules
<1> DEFINE Plain(p) == /\ p.workflow = {} /\ p.qa = {} /\ p.evaluation = {} /\ p.leaders = {}
                       /\ p.critical = "any" /\ p.scored = "any" /\ p.activity = "any"
                       /\ p.rules = {} /\ \A a \in Attributes : p.attribute[a] = {}
<1>5. ASSUME NEW p, Plain(p)
      PROVE  Listed(p, f) <=> Segment(p.segment, f) /\ Wanted(p.overdue, Overdue(f))
  BY <1>1, <1>2, <1>4, <1>5, Zenon DEF Listed
<1>6. Segment("all", f)
  BY Zenon DEF Segment
<1>7. Listed(Unfiltered, f)
  <2>1. Plain(Unfiltered) /\ Unfiltered.segment = "all" /\ Unfiltered.overdue = "any"
    BY DEF Unfiltered
  <2> QED BY <1>2, <1>5, <1>6, <2>1
<1>8. Listed(List(s), f) <=> Segment(s, f)
  <2>1. Plain(List(s)) /\ List(s).segment = s /\ List(s).overdue = "any"
    BY DEF Unfiltered, List
  <2> QED BY <1>2, <1>5, <2>1
<1>9. Listed([Unfiltered EXCEPT !.overdue = "true"], f) <=> Overdue(f)
  <2> DEFINE late == [Unfiltered EXCEPT !.overdue = "true"]
  <2>1. Plain(late) /\ late.segment = "all" /\ late.overdue = "true"
    BY DEF Unfiltered
  <2> QED BY <1>3, <1>5, <1>6, <2>1, Zenon
<1> QED BY <1>7, <1>8, <1>9

LEMMA SegmentFacts ==
  ASSUME NEW f
  PROVE  /\ Segment("qa_active", f) <=> QAActive
         /\ Segment("submitted", f) <=> Completed
         /\ Segment("revision", f) <=> review.status = "revision_required"
         /\ Segment("attention", f) <=> Completed /\ review.leader_status = "pending"
         /\ Segment("critical", f) <=> Completed /\ f.critical /\ Open
         /\ Segment("coaching", f) <=> Completed /\ review.leader_status = "coaching_planned"
         /\ Segment("closed", f) <=> Completed /\ review.leader_status = "closed"
<1>1. Segment("qa_active", f) <=> QAActive
  BY Zenon DEF Segment
<1>2. Segment("submitted", f) <=> Completed
  BY Zenon DEF Segment
<1>3. Segment("revision", f) <=> review.status = "revision_required"
  BY Zenon DEF Segment
<1>4. Segment("attention", f) <=> Completed /\ review.leader_status = "pending"
  BY Zenon DEF Segment
<1>5. Segment("critical", f) <=> Completed /\ f.critical /\ Open
  BY Zenon DEF Segment
<1>6. Segment("coaching", f) <=> Completed /\ review.leader_status = "coaching_planned"
  BY Zenon DEF Segment
<1>7. Segment("closed", f) <=> Completed /\ review.leader_status = "closed"
  BY Zenon DEF Segment
<1> QED BY <1>1, <1>2, <1>3, <1>4, <1>5, <1>6, <1>7

(* "Below 85" in points or percent, as a bound or as a range either way     *)
(* round, selects the scores below 85.                                      *)
LEMMA BenchmarkRules ==
  ASSUME NEW f \in Facts, NEW rule \in BelowBenchmark
  PROVE  RuleHolds(rule, f) <=> f.total # Unscored /\ f.total < 85
<1>1. f.total \in {Unscored, 0, 84, 85, 100}
  BY DEF Facts
<1>2. FieldMaximum["total"] = 100
  BY DEF FieldMaximum
<1> DEFINE r == ParsedRule(rule)
<1>3. \/ r.field = "total" /\ r.operator = "lt" /\ r.value = 8500
      \/ r.field = "total" /\ r.operator = "outside" /\ r.value = 8500 /\ r.to = 10000
  <2>1. CASE \E unit \in {"points", "percent"} :
               rule = [field |-> "total", operator |-> "lt", unit |-> unit, value |-> 85, to |-> NoBound]
    <3>1. rule.field = "total" /\ rule.operator = "lt" /\ rule.value = 85
      BY <2>1
    <3> QED BY <1>2, <3>1 DEF ParsedRule
  <2>2. CASE \E unit \in {"points", "percent"}, v \in {85, 100} :
               rule = [field |-> "total", operator |-> "outside", unit |-> unit, value |-> v, to |-> 185 - v]
    <3>1. /\ rule.field = "total" /\ rule.operator = "outside"
          /\ (rule.value = 85 /\ rule.to = 100) \/ (rule.value = 100 /\ rule.to = 85)
      BY <2>2
    <3> QED BY <1>2, <3>1 DEF ParsedRule
  <2> QED BY <2>1, <2>2 DEF BelowBenchmark
<1> HIDE DEF r
<1>4. CASE r.field = "total" /\ r.operator = "lt" /\ r.value = 8500
  <2>1. RuleHolds(rule, f) <=> f[r.field] # Unscored /\ f[r.field] * 100 < r.value
    BY <1>4 DEF RuleHolds, r
  <2>2. f[r.field] = f.total
    BY <1>4
  <2> QED BY <1>1, <1>4, <2>1, <2>2
<1>5. CASE r.field = "total" /\ r.operator = "outside" /\ r.value = 8500 /\ r.to = 10000
  <2>1. RuleHolds(rule, f) <=>
          f[r.field] # Unscored /\ (f[r.field] * 100 < r.value \/ f[r.field] * 100 > r.to)
    BY <1>5 DEF RuleHolds, r
  <2>2. f[r.field] = f.total
    BY <1>5
  <2> QED BY <1>1, <1>5, <2>1, <2>2
<1> QED BY <1>3, <1>4, <1>5

LEMMA BenchmarkList ==
  ASSUME NEW f, NEW rule,
         NEW p, p = [List("submitted") EXCEPT !.workflow = LeaderStatus \ {"closed"},
                                              !.rules = {rule}],
         review \in ReviewRow
  PROVE  Listed(p, f) <=> Completed /\ Open /\ RuleHolds(rule, f)
<1>1. /\ p.workflow = LeaderStatus \ {"closed"} /\ p.qa = {} /\ p.evaluation = {}
      /\ p.leaders = {} /\ p.critical = "any" /\ p.scored = "any" /\ p.activity = "any"
      /\ p.overdue = "any" /\ p.match = "all" /\ p.rules = {rule} /\ p.segment = "submitted"
      /\ \A a \in Attributes : p.attribute[a] = {}
  BY DEF List, Unfiltered
<1>2. \A x : Chosen({}, x) /\ Wanted("any", x)
  BY DEF Chosen, Wanted
<1>3. Chosen(p.workflow, review.leader_status) <=> Open
  <2>1. review.leader_status \in LeaderStatus /\ "pending" \in p.workflow
    BY <1>1 DEF ReviewRow, LeaderStatus
  <2> QED BY <1>1, <2>1 DEF Chosen, Open
<1>4. ScoreRules(p, f) <=> RuleHolds(rule, f)
  BY <1>1, Zenon DEF ScoreRules
<1>5. Segment(p.segment, f) <=> Completed
  BY <1>1, SegmentFacts
<1> QED BY <1>1, <1>2, <1>3, <1>4, <1>5, Zenon DEF Listed

(* What a reader in scope may find, by his role.                            *)
LEMMA ReaderFacts ==
  ASSUME IInv, Exists, NEW u \in QAs \cup Leaders \cup {Superuser, Nobody}, InScope(u),
         u # Superuser
  PROVE  PersonalOrOversight(u) \/ Completed
<1>1. CASE u \in Leaders
  BY <1>1, ReviewAssumption DEF InScope, Completed
<1>2. CASE u \notin Leaders
  BY <1>2 DEF PersonalOrOversight
<1> QED BY <1>1, <1>2

LEMMA CardsFromIInv == IInv => CardsMatchLists
<1> SUFFICES ASSUME IInv, Exists,
                    NEW u \in QAs \cup Leaders \cup {Superuser, Nobody}, InScope(u),
                    NEW f \in Facts, Possible(f)
             PROVE  LET card == Cards(u, f) IN
      /\ u # Superuser => (card.total <=> Listed(Unfiltered, f))
      /\ u # Superuser => (card.total /\ ~card.qa_active <=> Listed(List("submitted"), f))
      /\ card.qa_active <=> Listed(List("qa_active"), f)
      /\ card.revision_required <=> Listed(List("revision"), f)
      /\ card.pending <=> Listed(List("attention"), f)
      /\ card.critical_open <=> Listed(List("critical"), f)
      /\ card.coaching_open <=> Listed(List("coaching"), f)
      /\ card.closed <=> Listed(List("closed"), f)
      /\ overruled \/ (card.overdue <=> Listed([Unfiltered EXCEPT !.overdue = "true"], f))
      /\ \A rule \in BelowBenchmark :
           card.below_benchmark_open <=>
             Listed([List("submitted") EXCEPT !.workflow = LeaderStatus \ {"closed"},
                                              !.rules = {rule}], f)
  BY Zenon DEF CardsMatchLists
<1> DEFINE card == Cards(u, f)
<1>1. review \in ReviewRow
  BY DEF IInv, TypeOK, Exists
<1>2. /\ card.total <=> PersonalOrOversight(u) \/ Completed
      /\ card.qa_active <=> QAActive
      /\ card.revision_required <=> review.status = "revision_required"
      /\ card.pending <=> Completed /\ review.leader_status = "pending"
      /\ card.critical_open <=> Completed /\ Open /\ f.critical
      /\ card.coaching_open <=> Completed /\ review.leader_status = "coaching_planned"
      /\ card.overdue <=> Completed /\ review.leader_status = "coaching_planned" /\ f.late
      /\ card.below_benchmark_open <=> Completed /\ Open /\ f.total # Unscored /\ f.total < 85
      /\ card.closed <=> Completed /\ review.leader_status = "closed"
  BY DEF Cards
<1> HIDE DEF card
<1>3. Completed <=> ~QAActive
  BY <1>1 DEF Completed, QAActive, ReviewRow
<1>4. u # Superuser => (card.total <=> Listed(Unfiltered, f))
  BY <1>2, ReaderFacts, OnlySegment
<1>5. u # Superuser => (card.total /\ ~card.qa_active <=> Listed(List("submitted"), f))
  BY <1>2, <1>3, ReaderFacts, OnlySegment, SegmentFacts
<1>6. /\ card.qa_active <=> Listed(List("qa_active"), f)
      /\ card.revision_required <=> Listed(List("revision"), f)
      /\ card.pending <=> Listed(List("attention"), f)
      /\ card.critical_open <=> Listed(List("critical"), f)
      /\ card.coaching_open <=> Listed(List("coaching"), f)
      /\ card.closed <=> Listed(List("closed"), f)
  BY <1>2, OnlySegment, SegmentFacts
<1>7. overruled \/ (card.overdue <=> Listed([Unfiltered EXCEPT !.overdue = "true"], f))
  <2>1. review.leader_status = "coaching_planned" /\ ~overruled => Completed
    BY <1>1 DEF IInv, ReturnedTogether, UnsubmittedReview, Exists, Completed, ReviewRow
  <2> QED BY <1>2, <2>1, OnlySegment DEF Overdue
<1>8. ASSUME NEW rule \in BelowBenchmark
      PROVE  card.below_benchmark_open <=>
               Listed([List("submitted") EXCEPT !.workflow = LeaderStatus \ {"closed"},
                                                !.rules = {rule}], f)
  BY <1>1, <1>2, BenchmarkRules, BenchmarkList
<1> QED BY <1>4, <1>5, <1>6, <1>7, <1>8, Zenon DEF card

(* Every card of the report page counts the reports its list shows, for     *)
(* every reader in every state of the workflow (views.py:813-905 against    *)
(* views.py:494-743).                                                       *)
THEOREM CardsCount == Spec => []CardsMatchLists
BY CardsFromIInv, AlwaysIInv, PTL

----------------------------------------------------------------------------
(***************************************************************************)
(* The administration.  A request was valid when it was checked, and every *)
(* save marks the requests that were checked before it; so a request that  *)
(* is not marked is valid in the present tables, which is what makes       *)
(* OrganisationCoherent inductive.                                         *)
(***************************************************************************)
UserRequest == [kind : {"user"}, on : Users, new : Account,
                given : (SUBSET Projects) \cup {Kept}, late : BOOLEAN]
TeamRequest == [kind : {"team"}, on : Teams, new : [branch : Branches, leader : Users],
                given : {Kept}, late : BOOLEAN]

RequestsTyped == request \in [Admins -> UserRequest \cup TeamRequest \cup {NoRequest}]

(* A request that nothing was saved over is valid as it stands.             *)
RequestsFit == \A a \in Admins : request[a] # NoRequest =>
  /\ request[a] \in UserRequest /\ ~request[a].late
       => ValidUser(request[a].on, request[a].new, request[a].given)
  /\ request[a] \in TeamRequest /\ ~request[a].late
       => ValidTeam(request[a].on, request[a].new)

OrgIInv == OrgTypeOK /\ RequestsTyped /\ RequestsFit /\ OrganisationCoherent

(* What is checked depends on the tables alone.                             *)
LEMMA ValidityIsOfTables ==
  ASSUME UNCHANGED tables
  PROVE  /\ \A u, new, given : ValidUser(u, new, given) => ValidUser(u, new, given)'
         /\ \A t, new : ValidTeam(t, new) => ValidTeam(t, new)'
<1>1. ASSUME NEW u PROVE ProjectsOf(u)' = ProjectsOf(u) /\ LedBranches(u)' = LedBranches(u)
  BY DEF tables, ProjectsOf, LedBranches
<1>2. ASSUME NEW p PROVE Located(p)' = Located(p)
  BY DEF tables, Located
<1>3. ASSUME NEW u, NEW new, NEW given, ValidUser(u, new, given)
      PROVE  ValidUser(u, new, given)'
  <2>1. firm' = firm
    BY DEF tables
  <2> QED BY <1>1, <1>2, <1>3, <2>1, Zenon DEF ValidUser
<1>4. ASSUME NEW t, NEW new, ValidTeam(t, new) PROVE ValidTeam(t, new)'
  BY <1>4 DEF ValidTeam, tables
<1> QED BY <1>3, <1>4

(* A save leaves no request that it did not mark.                           *)
LEMMA SavedMarks ==
  ASSUME RequestsTyped, NEW a \in Admins, Saved(a)
  PROVE  /\ RequestsTyped' /\ RequestsFit'
<1>1. ASSUME NEW b \in Admins
      PROVE  \/ request'[b] = NoRequest
             \/ request'[b] \in UserRequest /\ request'[b].late
             \/ request'[b] \in TeamRequest /\ request'[b].late
  <2>1. CASE b = a \/ request[b] = NoRequest
    BY <2>1 DEF Saved
  <2>2. CASE ~(b = a \/ request[b] = NoRequest)
    <3>1. request'[b] = [request[b] EXCEPT !.late = TRUE]
      BY <2>2 DEF Saved
    <3>2. PICK r \in UserRequest \cup TeamRequest : r = request[b]
      BY <2>2 DEF RequestsTyped
    <3>3. PICK n : n = [r EXCEPT !.late = TRUE]
      OBVIOUS
    <3>4. request'[b] = n
      BY <3>1, <3>2, <3>3
    <3>5. CASE r \in UserRequest
      BY <3>3, <3>4, <3>5 DEF UserRequest
    <3>6. CASE r \in TeamRequest
      BY <3>3, <3>4, <3>6 DEF TeamRequest
    <3> QED BY <3>2, <3>5, <3>6
  <2> QED BY <2>1, <2>2
<1>2. RequestsTyped'
  <2>1. request' = [b \in Admins |-> request'[b]]
    BY DEF Saved
  <2> QED BY <1>1, <2>1 DEF RequestsTyped
<1>3. RequestsFit'
  <2>1. \A b \in Admins : request'[b] # NoRequest => request'[b].late
    BY <1>1
  <2> QED BY <2>1 DEF RequestsFit
<1> QED BY <1>2, <1>3

LEMMA OrgInitIInv == OrgInit => OrgIInv
<1> SUFFICES ASSUME OrgInit PROVE OrgIInv
  OBVIOUS
<1>1. OrgTypeOK
  BY OrganisationAssumption DEF OrgInit, OrgTypeOK
<1>2. RequestsTyped /\ RequestsFit
  BY DEF OrgInit, RequestsTyped, RequestsFit
<1>3. LeadersInPlace
  BY FirstAssumption, OrganisationAssumption DEF OrgInit, LeadersInPlace
<1>4. ASSUME NEW u \in Users
      PROVE  ProjectsOf(u) = {p \in Projects : <<u, p>> \in FirstAssigned}
  BY DEF OrgInit, ProjectsOf
<1>5. ProjectsInBranch
  <2> SUFFICES ASSUME NEW u \in Users
               PROVE  /\ \A p \in ProjectsOf(u) : Located(p) = account[u].branch
                      /\ ProjectsOf(u) # {} => account[u].role \in ProjectRoles
                      /\ account[u].role \in {"qa", "project_manager"} => ProjectsOf(u) # {}
    BY Zenon DEF ProjectsInBranch
  <2>1. account[u] = FirstAccount[u] /\ dialer = FirstDialer
    BY DEF OrgInit
  <2>2. /\ \A p \in ProjectsOf(u) : FirstDialer[DialerOf[p]] = FirstAccount[u].branch
        /\ IF FirstAccount[u].role \in ProjectRoles
           THEN FirstAccount[u].role # "team_leader" => ProjectsOf(u) # {}
           ELSE ProjectsOf(u) = {}
    <3> DEFINE held == {p \in Projects : <<u, p>> \in FirstAssigned}
    <3>1. /\ \A p \in held : FirstDialer[DialerOf[p]] = FirstAccount[u].branch
          /\ IF FirstAccount[u].role \in ProjectRoles
             THEN FirstAccount[u].role # "team_leader" => held # {}
             ELSE held = {}
      BY FirstAssumption, Zenon
    <3>2. ProjectsOf(u) = held
      BY <1>4
    <3> HIDE DEF held
    <3> QED BY <3>1, <3>2
  <2> QED BY <2>1, <2>2 DEF Located, ProjectRoles
<1>6. \A u \in Users : /\ account[u].editor => account[u].role = "project_manager"
                       /\ firm[account[u].branch] = account[u].firm
  <2> TAKE u \in Users
  <2>1. account[u] = FirstAccount[u] /\ firm = FirstFirm
    BY DEF OrgInit
  <2> QED BY <2>1, FirstAssumption, Zenon
<1> QED BY <1>1, <1>2, <1>3, <1>5, <1>6 DEF OrgIInv, OrganisationCoherent

(* A validation writes a request that fits, and nothing else.               *)
LEMMA ValidatedStep ==
  ASSUME OrgIInv, NEW a \in Admins, NEW r \in UserRequest \cup TeamRequest, Validated(a, r),
         r \in UserRequest => ValidUser(r.on, r.new, r.given),
         r \in TeamRequest => ValidTeam(r.on, r.new)
  PROVE  OrgIInv'
<1>1. UNCHANGED tables /\ UNCHANGED histories
  BY DEF Validated
<1>2. request' = [request EXCEPT ![a] = r]
  BY DEF Validated
<1>3. OrgTypeOK'
  BY <1>1 DEF OrgIInv, OrgTypeOK, tables
<1>4. RequestsTyped'
  BY <1>2 DEF OrgIInv, RequestsTyped
<1>5. ASSUME NEW b \in Admins
      PROVE  request'[b] = IF b = a THEN r ELSE request[b]
  BY <1>2 DEF OrgIInv, RequestsTyped
<1>6. RequestsFit'
  <2> SUFFICES ASSUME NEW b \in Admins, request'[b] # NoRequest
               PROVE  /\ request'[b] \in UserRequest /\ ~request'[b].late
                           => ValidUser(request[b].on, request[b].new, request[b].given)'
                      /\ request'[b] \in TeamRequest /\ ~request'[b].late
                           => ValidTeam(request[b].on, request[b].new)'
    BY Zenon DEF RequestsFit
  <2>1. CASE b = a
    BY <1>1, <1>5, <2>1, ValidityIsOfTables, Zenon
  <2>2. CASE b # a
    BY <1>1, <1>5, <2>2, ValidityIsOfTables, Zenon DEF OrgIInv, RequestsFit
  <2> QED BY <2>1, <2>2
<1>7. OrganisationCoherent'
  BY <1>1 DEF OrgIInv, OrganisationCoherent, LeadersInPlace, ProjectsInBranch, ProjectsOf,
     Located, tables, histories
<1> QED BY <1>3, <1>4, <1>6, <1>7 DEF OrgIInv

LEMMA ValidateUserStep ==
  ASSUME OrgIInv, NEW a \in Admins, NEW u \in Users, ValidateUser(a, u)
  PROVE  OrgIInv'
<1>1. PICK new \in Account, given \in (SUBSET offered) \cup {Kept} :
        /\ ValidUser(u, new, given)
        /\ Validated(a, [kind |-> "user", on |-> u, new |-> new, given |-> given, late |-> FALSE])
  BY Zenon DEF ValidateUser
<1>2. given \in (SUBSET Projects) \cup {Kept}
  BY DEF OrgIInv, OrgTypeOK
<1>3. PICK r : r = [kind |-> "user", on |-> u, new |-> new, given |-> given, late |-> FALSE]
  OBVIOUS
<1>4. r \in UserRequest /\ r \notin TeamRequest
  BY <1>2, <1>3 DEF UserRequest, TeamRequest
<1>5. r.on = u /\ r.new = new /\ r.given = given
  BY <1>3
<1> QED BY <1>1, <1>3, <1>4, <1>5, ValidatedStep

LEMMA ValidateTeamStep ==
  ASSUME OrgIInv, NEW a \in Admins, NEW t \in Teams, ValidateTeam(a, t)
  PROVE  OrgIInv'
<1>1. PICK b \in Branches, l \in Users :
        /\ ValidTeam(t, [branch |-> b, leader |-> l])
        /\ Validated(a, [kind |-> "team", on |-> t, new |-> [branch |-> b, leader |-> l],
                         given |-> Kept, late |-> FALSE])
  BY Zenon DEF ValidateTeam
<1>2. PICK new : new = [branch |-> b, leader |-> l]
  OBVIOUS
<1>3. PICK r : r = [kind |-> "team", on |-> t, new |-> new, given |-> Kept, late |-> FALSE]
  OBVIOUS
<1>4. new \in [branch : Branches, leader : Users]
  BY <1>2
<1>5. r \in TeamRequest /\ r \notin UserRequest
  BY <1>3, <1>4 DEF UserRequest, TeamRequest
<1>6. r.on = t /\ r.new = new
  BY <1>3
<1> QED BY <1>1, <1>2, <1>3, <1>5, <1>6, ValidatedStep

(* The projects of a user after a save of another user, and after his own.  *)
LEMMA ProjectsSaved ==
  ASSUME OrgTypeOK, NEW r \in UserRequest,
         assigned' = LET others == {x \in assigned : x[1] # r.on} IN
                     IF r.new.role \notin ProjectRoles THEN others
                     ELSE IF r.given = Kept THEN assigned
                     ELSE others \cup ({r.on} \X r.given)
  PROVE  /\ assigned' \in SUBSET (Users \X Projects)
         /\ \A u \in Users \ {r.on} : ProjectsOf(u)' = ProjectsOf(u)
         /\ ProjectsOf(r.on)' = IF r.new.role \notin ProjectRoles THEN {}
                                ELSE IF r.given = Kept THEN ProjectsOf(r.on) ELSE r.given
<1> DEFINE others == {x \in assigned : x[1] # r.on}
<1>1. r.on \in Users /\ r.given \in (SUBSET Projects) \cup {Kept}
  BY DEF UserRequest
<1>2. others \subseteq Users \X Projects
  BY DEF OrgTypeOK
<1>3. \A u, p : <<u, p>> \in others <=> <<u, p>> \in assigned /\ u # r.on
  OBVIOUS
<1>4. CASE r.new.role \notin ProjectRoles
  <2>1. assigned' = others
    BY <1>4
  <2> HIDE DEF others
  <2> QED BY <1>1, <1>2, <1>3, <1>4, <2>1 DEF ProjectsOf
<1>5. CASE r.new.role \in ProjectRoles /\ r.given = Kept
  <2>1. assigned' = assigned
    BY <1>5
  <2>2. \A u : ProjectsOf(u)' = ProjectsOf(u)
    BY <2>1 DEF ProjectsOf
  <2>3. assigned' \in SUBSET (Users \X Projects)
    BY <2>1, Zenon DEF OrgTypeOK
  <2>4. r.new.role \in ProjectRoles /\ r.given = Kept
    BY <1>5
  <2> QED BY <2>2, <2>3, <2>4, Zenon
<1>6. CASE r.new.role \in ProjectRoles /\ r.given # Kept
  <2>1. assigned' = others \cup ({r.on} \X r.given)
    BY <1>6, Zenon
  <2>2. r.given \in SUBSET Projects
    BY <1>1, <1>6
  <2> HIDE DEF others
  <2>6. \A u, p : <<u, p>> \in assigned' <=> <<u, p>> \in others \/ (u = r.on /\ p \in r.given)
    BY <2>1, <2>2
  <2>3. assigned' \in SUBSET (Users \X Projects)
    BY <1>1, <1>2, <2>1, <2>2
  <2>4. ASSUME NEW u \in Users \ {r.on} PROVE ProjectsOf(u)' = ProjectsOf(u)
    BY <1>3, <2>6, <2>4 DEF ProjectsOf
  <2>5. ProjectsOf(r.on)' = r.given
    BY <1>3, <2>2, <2>6 DEF ProjectsOf
  <2> QED BY <1>6, <2>3, <2>4, <2>5
<1> QED BY <1>4, <1>5, <1>6

LEMMA SaveUserStep ==
  ASSUME OrgIInv, NEW a \in Admins, SaveUser(a)
  PROVE  OrgIInv'
<1>1. PICK r \in UserRequest : r = request[a]
  <2>1. request[a] # NoRequest /\ request[a].kind = "user"
    BY DEF SaveUser
  <2> QED BY <2>1 DEF OrgIInv, RequestsTyped, TeamRequest
<1>2. /\ r.on \in Users /\ r.new \in Account /\ r.given \in (SUBSET Projects) \cup {Kept}
      /\ r.late \in BOOLEAN
  BY DEF UserRequest
<1>3. ~r.late => ValidUser(r.on, r.new, r.given)
  <2>1. request[a] # NoRequest
    BY DEF SaveUser
  <2> QED BY <1>1, <2>1, Zenon DEF OrgIInv, RequestsFit
<1>4. /\ account' = [account EXCEPT ![r.on] = r.new]
      /\ overtaken' = IF r.late THEN overtaken \cup {r.on} ELSE overtaken \ {r.on}
      /\ displaced' = IF r.given = Kept /\ r.late THEN displaced
                      ELSE {x \in displaced : x[1] # r.on}
      /\ stripped' = IF r.given = Kept /\ r.late THEN stripped ELSE stripped \ {r.on}
      /\ UNCHANGED <<firm, team, dialer, offered, rebranded>>
  BY <1>1 DEF SaveUser
<1>5. assigned' = LET others == {x \in assigned : x[1] # r.on} IN
                  IF r.new.role \notin ProjectRoles THEN others
                  ELSE IF r.given = Kept THEN assigned
                  ELSE others \cup ({r.on} \X r.given)
  BY <1>1 DEF SaveUser
<1>6. RequestsTyped' /\ RequestsFit'
  BY SavedMarks DEF OrgIInv, SaveUser
<1>7. /\ assigned' \in SUBSET (Users \X Projects)
      /\ \A u \in Users \ {r.on} : ProjectsOf(u)' = ProjectsOf(u)
      /\ ProjectsOf(r.on)' = IF r.new.role \notin ProjectRoles THEN {}
                             ELSE IF r.given = Kept THEN ProjectsOf(r.on) ELSE r.given
  BY <1>5, ProjectsSaved DEF OrgIInv
<1>8. OrgTypeOK'
  BY <1>2, <1>4, <1>7 DEF OrgIInv, OrgTypeOK
<1>9. /\ account'[r.on] = r.new
      /\ \A u \in Users \ {r.on} : account'[u] = account[u]
  BY <1>2, <1>4 DEF OrgIInv, OrgTypeOK
<1>10. ASSUME NEW u \in Users \ {r.on}
       PROVE  /\ u \in overtaken' <=> u \in overtaken
              /\ u \in stripped' <=> u \in stripped
              /\ \A p : <<u, p>> \in displaced => <<u, p>> \in displaced'
  BY <1>4
<1>11. \A p \in Projects : Located(p)' = Located(p)
  BY <1>4 DEF Located
<1>12. ASSUME ~r.late
       PROVE  /\ r.on \notin overtaken'
              /\ r.new.editor => r.new.role = "project_manager"
              /\ firm[r.new.branch] = r.new.firm
              /\ \A p \in ProjectsOf(r.on)' : Located(p) = r.new.branch
              /\ ProjectsOf(r.on)' # {} => r.new.role \in ProjectRoles
              /\ r.new.role \in {"qa", "project_manager"} => ProjectsOf(r.on)' # {}
              /\ LedBranches(r.on) # {} =>
                   r.new.role = "team_leader" /\ LedBranches(r.on) = {r.new.branch}
  <2>1. r.on \notin overtaken'
    BY <1>4, <1>12
  <2>2. /\ firm[r.new.branch] = r.new.firm
        /\ r.new.editor => r.new.role = "project_manager"
        /\ LedBranches(r.on) # {} =>
             r.new.role = "team_leader" /\ LedBranches(r.on) = {r.new.branch}
    BY <1>3, <1>12, Zenon DEF ValidUser
  <2>3. r.new.role \in ProjectRoles =>
          /\ r.new.role # "team_leader" => ProjectsOf(r.on)' # {}
          /\ \A p \in ProjectsOf(r.on)' : Located(p) = r.new.branch
    BY <1>3, <1>7, <1>12 DEF ValidUser
  <2>4. r.new.role \notin ProjectRoles => ProjectsOf(r.on)' = {}
    BY <1>7
  <2> QED BY <2>1, <2>2, <2>3, <2>4 DEF ProjectRoles
<1>13. r.late => r.on \in overtaken'
  BY <1>4
<1>14. LeadersInPlace'
  <2> SUFFICES ASSUME NEW t \in Teams, t \notin overtaken', team[t].leader \notin overtaken'
               PROVE  /\ account'[team[t].leader].role = "team_leader"
                      /\ account'[team[t].leader].branch = team[t].branch
    BY <1>4 DEF LeadersInPlace
  <2>1. t \notin overtaken /\ team[t].leader \in Users
    BY <1>2, <1>4, OrganisationAssumption DEF OrgIInv, OrgTypeOK
  <2>2. CASE team[t].leader = r.on
    <3>1. ~r.late
      BY <1>13, <2>2
    <3>2. team[t].branch \in LedBranches(r.on)
      BY <2>2 DEF LedBranches
    <3> QED BY <1>9, <1>12, <2>2, <3>1, <3>2
  <2>3. CASE team[t].leader # r.on
    <3>1. team[t].leader \notin overtaken
      BY <1>10, <2>1, <2>3
    <3>2. account'[team[t].leader] = account[team[t].leader]
      BY <1>9, <2>1, <2>3
    <3> QED BY <2>1, <3>1, <3>2 DEF OrgIInv, OrganisationCoherent, LeadersInPlace
  <2> QED BY <2>2, <2>3
<1>15. ProjectsInBranch'
  <2> SUFFICES ASSUME NEW u \in Users, u \notin overtaken'
               PROVE  /\ \A p \in ProjectsOf(u)' : <<u, p>> \in displaced'
                                                    \/ Located(p)' = account'[u].branch
                      /\ ProjectsOf(u)' # {} => account'[u].role \in ProjectRoles
                      /\ account'[u].role \in {"qa", "project_manager"} =>
                           ProjectsOf(u)' # {} \/ u \in stripped'
    BY Zenon DEF ProjectsInBranch
  <2>1. \A p \in ProjectsOf(u)' : p \in Projects
    BY DEF ProjectsOf
  <2>2. CASE u = r.on
    BY <1>9, <1>11, <1>12, <1>13, <2>1, <2>2
  <2>3. CASE u # r.on
    <3>1. u \notin overtaken /\ ProjectsOf(u)' = ProjectsOf(u) /\ account'[u] = account[u]
      BY <1>7, <1>9, <1>10, <2>3
    <3>2. /\ \A p \in ProjectsOf(u) : <<u, p>> \in displaced \/ Located(p) = account[u].branch
          /\ ProjectsOf(u) # {} => account[u].role \in ProjectRoles
          /\ account[u].role \in {"qa", "project_manager"} =>
                ProjectsOf(u) # {} \/ u \in stripped
      BY <3>1, Zenon DEF OrgIInv, OrganisationCoherent, ProjectsInBranch
    <3> QED BY <1>10, <1>11, <2>1, <2>3, <3>1, <3>2
  <2> QED BY <2>2, <2>3
<1>16. ASSUME NEW u \in Users, u \notin overtaken'
       PROVE  /\ account'[u].editor => account'[u].role = "project_manager"
              /\ account'[u].branch \in rebranded \/ firm[account'[u].branch] = account'[u].firm
  <2>1. CASE u = r.on
    BY <1>9, <1>12, <1>13, <1>16, <2>1
  <2>2. CASE u # r.on
    BY <1>9, <1>10, <1>16, <2>2 DEF OrgIInv, OrganisationCoherent
  <2> QED BY <2>1, <2>2
<1>17. OrganisationCoherent'
  BY <1>4, <1>14, <1>15, <1>16 DEF OrganisationCoherent
<1> QED BY <1>6, <1>8, <1>17 DEF OrgIInv

LEMMA RefuseUserStep ==
  ASSUME OrgIInv, NEW a \in Admins, RefuseUser(a)
  PROVE  OrgIInv'
<1>1. UNCHANGED tables /\ UNCHANGED histories
  BY DEF RefuseUser
<1>2. /\ request' = [request EXCEPT ![a] = NoRequest]
      /\ RequestsTyped'
      /\ \A b \in Admins : request'[b] = NoRequest \/ request'[b] = request[b]
  BY DEF RefuseUser, OrgIInv, RequestsTyped
<1>3. OrgTypeOK'
  BY <1>1 DEF OrgIInv, OrgTypeOK, tables
<1>4. RequestsFit'
  <2> SUFFICES ASSUME NEW b \in Admins, request'[b] # NoRequest
               PROVE  /\ request'[b] \in UserRequest /\ ~request'[b].late
                           => ValidUser(request[b].on, request[b].new, request[b].given)'
                      /\ request'[b] \in TeamRequest /\ ~request'[b].late
                           => ValidTeam(request[b].on, request[b].new)'
    BY Zenon DEF RequestsFit
  <2> QED BY <1>1, <1>2, ValidityIsOfTables, Zenon DEF OrgIInv, RequestsFit
<1>5. OrganisationCoherent'
  BY <1>1 DEF OrgIInv, OrganisationCoherent, LeadersInPlace, ProjectsInBranch, ProjectsOf,
     Located, tables, histories
<1> QED BY <1>2, <1>3, <1>4, <1>5 DEF OrgIInv

(* A team gets the leader that its request was checked with.                *)
LEMMA SaveTeamStep ==
  ASSUME OrgIInv, NEW a \in Admins, SaveTeam(a)
  PROVE  OrgIInv'
<1>1. PICK r \in TeamRequest : r = request[a]
  <2>1. request[a] # NoRequest /\ request[a].kind = "team"
    BY DEF SaveTeam
  <2> QED BY <2>1 DEF OrgIInv, RequestsTyped, UserRequest
<1>2. r.on \in Teams /\ r.new \in [branch : Branches, leader : Users] /\ r.late \in BOOLEAN
  BY DEF TeamRequest
<1>3. ~r.late => ValidTeam(r.on, r.new)
  <2>1. request[a] # NoRequest
    BY DEF SaveTeam
  <2> QED BY <1>1, <2>1, Zenon DEF OrgIInv, RequestsFit
<1>4. /\ team' = [team EXCEPT ![r.on] = r.new]
      /\ overtaken' = IF r.late THEN overtaken \cup {r.on} ELSE overtaken
      /\ UNCHANGED <<firm, account, assigned, dialer, offered, displaced, stripped, rebranded>>
  BY <1>1 DEF SaveTeam
<1>5. RequestsTyped' /\ RequestsFit'
  BY SavedMarks DEF OrgIInv, SaveTeam
<1>6. OrgTypeOK'
  BY <1>2, <1>4 DEF OrgIInv, OrgTypeOK
<1>7. LeadersInPlace'
  <2> SUFFICES ASSUME NEW t \in Teams, t \notin overtaken', team'[t].leader \notin overtaken'
               PROVE  /\ account[team'[t].leader].role = "team_leader"
                      /\ account[team'[t].leader].branch = team'[t].branch
    BY <1>4 DEF LeadersInPlace
  <2>1. t \notin overtaken /\ team'[t].leader \notin overtaken
    BY <1>4
  <2>2. CASE t = r.on
    <3>1. ~r.late /\ team'[t] = r.new
      BY <1>2, <1>4, <2>2 DEF OrgIInv, OrgTypeOK
    <3> QED BY <1>3, <3>1 DEF ValidTeam
  <2>3. CASE t # r.on
    <3>1. team'[t] = team[t]
      BY <1>2, <1>4, <2>3 DEF OrgIInv, OrgTypeOK
    <3> QED BY <2>1, <3>1 DEF OrgIInv, OrganisationCoherent, LeadersInPlace
  <2> QED BY <2>2, <2>3
<1>8. \A u \in Users : u \notin overtaken' => u \notin overtaken
  BY <1>4
<1>9. \A u : ProjectsOf(u)' = ProjectsOf(u)
  BY <1>4 DEF ProjectsOf
<1>10. \A p : Located(p)' = Located(p)
  BY <1>4 DEF Located
<1>11. ProjectsInBranch'
  <2> SUFFICES ASSUME NEW u \in Users, u \notin overtaken'
               PROVE  /\ \A p \in ProjectsOf(u)' : <<u, p>> \in displaced'
                                                    \/ Located(p)' = account'[u].branch
                      /\ ProjectsOf(u)' # {} => account'[u].role \in ProjectRoles
                      /\ account'[u].role \in {"qa", "project_manager"} =>
                           ProjectsOf(u)' # {} \/ u \in stripped'
    BY Zenon DEF ProjectsInBranch
  <2>1. /\ \A p \in ProjectsOf(u) : <<u, p>> \in displaced \/ Located(p) = account[u].branch
        /\ ProjectsOf(u) # {} => account[u].role \in ProjectRoles
        /\ account[u].role \in {"qa", "project_manager"} =>
              ProjectsOf(u) # {} \/ u \in stripped
    BY <1>8, Zenon DEF OrgIInv, OrganisationCoherent, ProjectsInBranch
  <2> QED BY <1>4, <1>9, <1>10, <2>1
<1> QED BY <1>4, <1>5, <1>6, <1>7, <1>8, <1>11 DEF OrgIInv, OrganisationCoherent

(* A branch changes company: its users are excepted.                        *)
LEMMA SaveBranchStep ==
  ASSUME OrgIInv, NEW a \in Admins, NEW b \in Branches, SaveBranch(a, b)
  PROVE  OrgIInv'
<1>1. PICK f \in Firms : firm' = [firm EXCEPT ![b] = f]
  BY DEF SaveBranch
<1>2. /\ rebranded' = rebranded \cup {b}
      /\ UNCHANGED <<account, assigned, team, dialer, offered, overtaken, displaced, stripped>>
  BY DEF SaveBranch
<1>3. RequestsTyped' /\ RequestsFit'
  BY SavedMarks DEF OrgIInv, SaveBranch
<1>4. OrgTypeOK'
  BY <1>1, <1>2 DEF OrgIInv, OrgTypeOK
<1>5. LeadersInPlace' /\ ProjectsInBranch'
  BY <1>2 DEF OrgIInv, OrganisationCoherent, LeadersInPlace, ProjectsInBranch, ProjectsOf,
     Located
<1>6. \A c \in Branches : c \in rebranded' \/ (c \notin rebranded /\ firm'[c] = firm[c])
  BY <1>1, <1>2 DEF OrgIInv, OrgTypeOK
<1>7. \A u \in Users : account[u].branch \in Branches
  BY DEF OrgIInv, OrgTypeOK, Account
<1>8. ASSUME NEW u \in Users, u \notin overtaken'
      PROVE  /\ account'[u].editor => account'[u].role = "project_manager"
             /\ account'[u].branch \in rebranded' \/ firm'[account'[u].branch] = account'[u].firm
  BY <1>2, <1>6, <1>7, <1>8 DEF OrgIInv, OrganisationCoherent
<1> QED BY <1>3, <1>4, <1>5, <1>8 DEF OrgIInv, OrganisationCoherent

(* A dialer moves, or loses campaigns and the assignments to them: the      *)
(* assignments that moved and the users who lost one are excepted.          *)
LEMMA SaveDialerStep ==
  ASSUME OrgIInv, NEW a \in Admins, NEW d \in Dialers, SaveDialer(a, d)
  PROVE  OrgIInv'
<1>1. PICK b \in Branches, listed \in SUBSET {p \in Projects : DialerOf[p] = d} :
        LET gone == {p \in offered \ listed : DialerOf[p] = d} IN
        /\ dialer' = [dialer EXCEPT ![d] = b]
        /\ offered' = (offered \ gone) \cup listed
        /\ assigned' = Cascade(gone)
        /\ stripped' = stripped \cup {u \in Users : ProjectsOf(u) \cap gone # {}}
        /\ displaced' = {x \in displaced \cup {y \in assigned : DialerOf[y[2]] = d /\ b # dialer[d]} :
                           x[2] \notin gone}
  BY Zenon DEF SaveDialer
<1>2. PICK gone : gone = {p \in offered \ listed : DialerOf[p] = d}
  OBVIOUS
<1>3. /\ dialer' = [dialer EXCEPT ![d] = b]
      /\ offered' = (offered \ gone) \cup listed
      /\ assigned' = Cascade(gone)
      /\ stripped' = stripped \cup {u \in Users : ProjectsOf(u) \cap gone # {}}
      /\ displaced' = {x \in displaced \cup {y \in assigned : DialerOf[y[2]] = d /\ b # dialer[d]} :
                         x[2] \notin gone}
  BY <1>1, <1>2, Zenon
<1>4. UNCHANGED <<firm, account, team, overtaken, rebranded>>
  BY DEF SaveDialer
<1>5. RequestsTyped' /\ RequestsFit'
  BY SavedMarks DEF OrgIInv, SaveDialer
<1>6. OrgTypeOK'
  <2>1. assigned' \in SUBSET (Users \X Projects)
    BY <1>3 DEF OrgIInv, OrgTypeOK, Cascade
  <2>2. offered' \in SUBSET Projects
    BY <1>3 DEF OrgIInv, OrgTypeOK
  <2>3. dialer' \in [Dialers -> Branches]
    BY <1>3 DEF OrgIInv, OrgTypeOK
  <2> QED BY <1>4, <2>1, <2>2, <2>3 DEF OrgIInv, OrgTypeOK
<1>7. \A u : ProjectsOf(u)' = ProjectsOf(u) \ gone
  BY <1>3 DEF ProjectsOf, Cascade
<1>8. LeadersInPlace'
  BY <1>4 DEF OrgIInv, OrganisationCoherent, LeadersInPlace
<1>9. ASSUME NEW u \in Users, NEW p \in ProjectsOf(u) \ gone,
             <<u, p>> \in displaced \/ Located(p) = account[u].branch
      PROVE  <<u, p>> \in displaced' \/ Located(p)' = account[u].branch
  <2>1. p \in Projects /\ <<u, p>> \in assigned /\ p \notin gone
    BY <1>9 DEF ProjectsOf
  <2>2. PICK x : x = <<u, p>>
    OBVIOUS
  <2>3. x[2] = p /\ x \in assigned
    BY <2>1, <2>2
  <2>4. CASE <<u, p>> \in displaced
    BY <1>3, <2>1, <2>2, <2>3, <2>4
  <2>5. CASE Located(p) = account[u].branch /\ DialerOf[p] = d /\ b # dialer[d]
    BY <1>3, <2>1, <2>2, <2>3, <2>5
  <2>6. CASE Located(p) = account[u].branch /\ ~(DialerOf[p] = d /\ b # dialer[d])
    <3>1. DialerOf[p] \in Dialers
      BY <2>1, OrganisationAssumption
    <3>2. dialer'[DialerOf[p]] = dialer[DialerOf[p]]
      BY <1>3, <2>6, <3>1 DEF OrgIInv, OrgTypeOK
    <3> QED BY <2>6, <3>2 DEF Located
  <2> QED BY <1>9, <2>4, <2>5, <2>6
<1>10. ProjectsInBranch'
  <2> SUFFICES ASSUME NEW u \in Users, u \notin overtaken'
               PROVE  /\ \A p \in ProjectsOf(u)' : <<u, p>> \in displaced'
                                                    \/ Located(p)' = account'[u].branch
                      /\ ProjectsOf(u)' # {} => account'[u].role \in ProjectRoles
                      /\ account'[u].role \in {"qa", "project_manager"} =>
                           ProjectsOf(u)' # {} \/ u \in stripped'
    BY Zenon DEF ProjectsInBranch
  <2>1. u \notin overtaken /\ account'[u] = account[u]
    BY <1>4
  <2>2. /\ \A p \in ProjectsOf(u) : <<u, p>> \in displaced \/ Located(p) = account[u].branch
        /\ ProjectsOf(u) # {} => account[u].role \in ProjectRoles
        /\ account[u].role \in {"qa", "project_manager"} =>
              ProjectsOf(u) # {} \/ u \in stripped
    BY <2>1, Zenon DEF OrgIInv, OrganisationCoherent, ProjectsInBranch
  <2>3. \A p \in ProjectsOf(u)' : <<u, p>> \in displaced' \/ Located(p)' = account'[u].branch
    <3> TAKE p \in ProjectsOf(u)'
    <3>1. p \in ProjectsOf(u) \ gone
      BY <1>7
    <3> QED BY <1>9, <2>1, <2>2, <3>1
  <2>4. ProjectsOf(u)' = {} /\ ProjectsOf(u) # {} => u \in stripped'
    BY <1>3, <1>7
  <2>5. u \in stripped => u \in stripped'
    BY <1>3
  <2> QED BY <1>7, <2>1, <2>2, <2>3, <2>4, <2>5
<1> QED BY <1>4, <1>5, <1>6, <1>8, <1>10 DEF OrgIInv, OrganisationCoherent

LEMMA OrgNextIInv == OrgIInv /\ [OrgNext]_orgVars => OrgIInv'
<1> SUFFICES ASSUME OrgIInv, [OrgNext]_orgVars PROVE OrgIInv'
  OBVIOUS
<1>1. ASSUME NEW a \in Admins, \E u \in Users : ValidateUser(a, u) PROVE OrgIInv'
  BY <1>1, ValidateUserStep
<1>2. ASSUME NEW a \in Admins, \E t \in Teams : ValidateTeam(a, t) PROVE OrgIInv'
  BY <1>2, ValidateTeamStep
<1>3. ASSUME NEW a \in Admins, SaveUser(a) PROVE OrgIInv'
  BY <1>3, SaveUserStep
<1>4. ASSUME NEW a \in Admins, RefuseUser(a) PROVE OrgIInv'
  BY <1>4, RefuseUserStep
<1>5. ASSUME NEW a \in Admins, SaveTeam(a) PROVE OrgIInv'
  BY <1>5, SaveTeamStep
<1>6. ASSUME NEW a \in Admins, \E b \in Branches : SaveBranch(a, b) PROVE OrgIInv'
  BY <1>6, SaveBranchStep
<1>7. ASSUME NEW a \in Admins, \E d \in Dialers : SaveDialer(a, d) PROVE OrgIInv'
  BY <1>7, SaveDialerStep
<1>8. CASE UNCHANGED orgVars
  <2>1. UNCHANGED tables /\ UNCHANGED histories /\ request' = request
    BY <1>8 DEF orgVars, tables, histories
  <2>2. OrgTypeOK' /\ RequestsTyped'
    BY <2>1 DEF OrgIInv, OrgTypeOK, RequestsTyped, tables
  <2>3. RequestsFit'
    <3> SUFFICES ASSUME NEW b \in Admins, request[b] # NoRequest
                 PROVE  /\ request[b] \in UserRequest /\ ~request[b].late
                             => ValidUser(request[b].on, request[b].new, request[b].given)'
                        /\ request[b] \in TeamRequest /\ ~request[b].late
                             => ValidTeam(request[b].on, request[b].new)'
      BY <2>1, Zenon DEF RequestsFit
    <3> QED BY <2>1, ValidityIsOfTables, Zenon DEF OrgIInv, RequestsFit
  <2>4. OrganisationCoherent'
    BY <2>1 DEF OrgIInv, OrganisationCoherent, LeadersInPlace, ProjectsInBranch, ProjectsOf,
       Located, tables, histories
  <2> QED BY <2>2, <2>3, <2>4 DEF OrgIInv
<1> QED BY <1>1, <1>2, <1>3, <1>4, <1>5, <1>6, <1>7, <1>8, Zenon DEF OrgNext

LEMMA AlwaysOrgIInv == OrgSpec => []OrgIInv
BY OrgInitIInv, OrgNextIInv, PTL DEF OrgSpec

(* The tables of the administration fit together after any sequence of      *)
(* requests of any number of administrators, but for the four gaps the      *)
(* histories name (api_serializers.py, UserAdminSerializer and the team,    *)
(* branch and dialer serializers).                                          *)
THEOREM TablesFit == OrgSpec => []OrganisationCoherent
BY AlwaysOrgIInv, PTL DEF OrgIInv

(* What the tables say of a user who was not overtaken: his branch is of    *)
(* his company, or changed it since.                                        *)
LEMMA OwnBranch ==
  ASSUME OrganisationCoherent, NEW u \in Users \ overtaken, NEW c,
         c.branch = account[u].branch
  PROVE  OwnCompany(u, c)
BY DEF OrganisationCoherent, OwnCompany

LEMMA CoherentScopes == OrgTypeOK /\ OrganisationCoherent => ScopesAgree
<1> SUFFICES ASSUME OrgTypeOK, OrganisationCoherent PROVE ScopesAgree
  OBVIOUS
<1>1. \A u \in Users : account[u].role \in Roles
  BY DEF OrgTypeOK, Account
<1>2. NobodySeesOtherCompany
  <2> SUFFICES ASSUME NEW u \in Users \ overtaken
               PROVE  LET foreign == {c \in Calls : ~OwnCompany(u, c)} IN
                      /\ \A c \in foreign : ~SeesCall(u, c)
                      /\ \A r \in ReportsOf(foreign) : SeesReport(u, r) =>
                           \/ r.author = u /\ account[u].role = "qa"
                           \/ r.leader = u /\ account[u].role = "team_leader"
    BY Zenon DEF NobodySeesOtherCompany
  <2>1. ASSUME NEW c, Supervises(u, c) PROVE OwnCompany(u, c)
    BY <2>1 DEF Supervises, OwnCompany
  <2>2. ASSUME NEW c, SeesCall(u, c) PROVE OwnCompany(u, c)
    BY <2>1, <2>2, OwnBranch DEF SeesCall
  <2>3. ASSUME NEW r, SeesReport(u, r)
        PROVE  \/ OwnCompany(u, r.call)
               \/ r.author = u /\ account[u].role = "qa"
               \/ r.leader = u /\ account[u].role = "team_leader"
    <3>1. CASE account[u].role = "qa"
      BY <2>3, <3>1 DEF SeesReport
    <3>2. CASE account[u].role = "supervisor"
      BY <2>1, <2>3, <3>2 DEF SeesReport
    <3>3. CASE account[u].role = "team_leader"
      BY <2>3, <3>3 DEF SeesReport
    <3>4. CASE account[u].role = "project_manager"
      <4>1. r.call.branch = account[u].branch
        BY <2>3, <3>4 DEF SeesReport
      <4> QED BY <4>1, OwnBranch
    <3> QED BY <1>1, <3>1, <3>2, <3>3, <3>4 DEF Roles
  <2>4. \A foreign : \A r \in ReportsOf(foreign) : r.call \in foreign
    BY DEF ReportsOf
  <2> DEFINE foreign == {c \in Calls : ~OwnCompany(u, c)}
  <2>5. \A c \in foreign : ~OwnCompany(u, c)
    OBVIOUS
  <2> HIDE DEF foreign
  <2>6. /\ \A c \in foreign : ~SeesCall(u, c)
        /\ \A r \in ReportsOf(foreign) : SeesReport(u, r) =>
             \/ r.author = u /\ account[u].role = "qa"
             \/ r.leader = u /\ account[u].role = "team_leader"
    BY <2>2, <2>3, <2>4, <2>5, Zenon
  <2> QED BY <2>6, Zenon DEF foreign
<1>3. PagesAgree
  <2> SUFFICES ASSUME NEW u \in Users, NEW c \in Calls
               PROVE  /\ FindsInEditor(u, c) <=> OpensInEditor(u, c)
                      /\ ChoosesProject(u, c.project) /\ c.branch = account[u].branch =>
                           \A r \in ReportsOf({c}) : SeesReport(u, r)
    BY Zenon DEF PagesAgree
  <2>1. FindsInEditor(u, c) <=> OpensInEditor(u, c)
    BY DEF FindsInEditor, OpensInEditor, Edits, SeesCall
  <2>2. ASSUME ChoosesProject(u, c.project), c.branch = account[u].branch,
               NEW r \in ReportsOf({c})
        PROVE  SeesReport(u, r)
    <3>1. r.call = c
      BY DEF ReportsOf
    <3>2. CASE account[u].role = "supervisor"
      <4>1. Supervises(u, r.call)
        BY <2>2, <3>1 DEF ChoosesProject, Supervises
      <4> QED BY <3>2, <4>1 DEF SeesReport
    <3>3. CASE account[u].role = "project_manager"
      <4>1. r.call.branch = account[u].branch /\ Allowed(u, r.call)
        BY <2>2, <3>1, <3>3 DEF ChoosesProject, Allowed
      <4> QED BY <3>3, <4>1 DEF SeesReport
    <3> QED BY <2>2, <3>2, <3>3 DEF ChoosesProject
  <2> QED BY <2>1, <2>2
<1> QED BY <1>2, <1>3 DEF ScopesAgree

(* Nobody sees a call of another company, and nobody but its author and its *)
(* leader a report of one, after any sequence of moves; and the pages that  *)
(* ask for the same scope apart find the same rows (views.py:66-106,        *)
(* access/report_scope.py:26-64).                                           *)
THEOREM ScopesHold == OrgSpec => []ScopesAgree
<1>1. OrgIInv => ScopesAgree
  BY CoherentScopes DEF OrgIInv
<1> QED BY <1>1, AlwaysOrgIInv, PTL

----------------------------------------------------------------------------
(***************************************************************************)
(* Scorecard.  What a save stores is settled and normalised: evaluating it *)
(* again changes nothing.  That is a fact of calculate_evaluation alone;   *)
(* the invariant carries it through drafts, submissions and returns.  What *)
(* the points add up to matters to the rating only, further below.         *)
(***************************************************************************)
SettledSheet ==
  {s \in Sheet : /\ s.heading \in [Headings -> HeadingStates]
                 /\ s.criterion \in [Criteria -> CriterionStates]}

LEMMA HeadingsTyped == HeadingOf \in [Criteria -> Headings]
BY ScorecardAssumption

LEMMA UnsetApart == Unset \notin HeadingStates \cup CriterionStates
BY ScorecardAssumption DEF HeadingStates, CriterionStates

LEMMA SettledTyped ==
  ASSUME NEW s \in Sheet
  PROVE  LET t == Settled(s) IN
         /\ t \in SettledSheet /\ t.type = s.type /\ t.critical = s.critical /\ t.mark = s.mark
<1> DEFINE heading == [h \in Headings |-> IF s.heading[h] # Unset THEN s.heading[h]
                         ELSE IF s.type \in {"partial", "not_evaluable"} THEN "not_reached"
                         ELSE "applicable"]
           criterion == [c \in Criteria |-> IF s.criterion[c] # Unset THEN s.criterion[c]
                                            ELSE "applicable"]
           t == [s EXCEPT !.heading = heading, !.criterion = criterion]
<1>1. Settled(s) = t
  BY DEF Settled
<1>2. heading \in [Headings -> HeadingStates]
  BY DEF Sheet, HeadingStates
<1>3. criterion \in [Criteria -> CriterionStates]
  BY DEF Sheet, CriterionStates
<1> HIDE DEF heading, criterion
<1>4. t \in Sheet /\ t.type = s.type /\ t.critical = s.critical /\ t.mark = s.mark
  BY <1>2, <1>3 DEF Sheet
<1>5. t.heading = heading /\ t.criterion = criterion
  BY DEF Sheet
<1> QED BY <1>1, <1>2, <1>3, <1>4, <1>5 DEF SettledSheet

LEMMA SettledAgain ==
  ASSUME NEW s \in SettledSheet
  PROVE  Settled(s) = s
<1> DEFINE heading == [h \in Headings |-> IF s.heading[h] # Unset THEN s.heading[h]
                         ELSE IF s.type \in {"partial", "not_evaluable"} THEN "not_reached"
                         ELSE "applicable"]
           criterion == [c \in Criteria |-> IF s.criterion[c] # Unset THEN s.criterion[c]
                                            ELSE "applicable"]
<1>1. Settled(s) = [s EXCEPT !.heading = heading, !.criterion = criterion]
  BY DEF Settled
<1>2. heading = s.heading
  BY UnsetApart DEF SettledSheet
<1>3. criterion = s.criterion
  BY UnsetApart DEF SettledSheet
<1> HIDE DEF heading, criterion
<1> QED BY <1>1, <1>2, <1>3 DEF SettledSheet, Sheet

LEMMA NormalisedTyped ==
  ASSUME NEW t \in SettledSheet
  PROVE  LET n == Normalised(t) IN
         /\ n \in SettledSheet /\ n.type = t.type /\ n.critical = t.critical
         /\ n.heading = t.heading /\ n.criterion = t.criterion
         /\ n.mark = [c \in Criteria |-> IF c \in Missed(t) THEN 0
                                         ELSE IF c \in Reached(t) THEN t.mark[c] ELSE NoMark]
<1> DEFINE mark == [c \in Criteria |-> IF c \in Missed(t) THEN 0
                                       ELSE IF c \in Reached(t) THEN t.mark[c] ELSE NoMark]
           n == [t EXCEPT !.mark = mark]
<1>1. Normalised(t) = n
  BY DEF Normalised
<1>2. t \in Sheet /\ mark \in [Criteria -> Nat \cup {NoMark}]
  BY DEF SettledSheet, Sheet
<1> HIDE DEF mark
<1>3. n \in Sheet /\ n.type = t.type /\ n.critical = t.critical /\ n.mark = mark
  BY <1>2 DEF Sheet
<1>4. n.heading = t.heading /\ n.criterion = t.criterion
  BY <1>2 DEF Sheet
<1> QED BY <1>1, <1>3, <1>4 DEF SettledSheet, mark

LEMMA NormalisedKeeps ==
  ASSUME NEW t \in SettledSheet
  PROVE  LET n == Normalised(t) IN
         /\ Missed(n) = Missed(t) /\ Reached(n) = Reached(t) /\ Counted(n) = Counted(t)
         /\ Normalised(n) = n
         /\ Calculated(n) = Calculated(t)
<1> DEFINE n == Normalised(t)
<1>1. /\ n \in SettledSheet /\ n.type = t.type
      /\ n.heading = t.heading /\ n.criterion = t.criterion
      /\ n.mark = [c \in Criteria |-> IF c \in Missed(t) THEN 0
                                      ELSE IF c \in Reached(t) THEN t.mark[c] ELSE NoMark]
  BY NormalisedTyped
<1> HIDE DEF n
<1>2. Missed(n) = Missed(t) /\ Reached(n) = Reached(t)
  BY <1>1 DEF Missed, Reached
<1>3. Counted(n) = Counted(t)
  BY <1>2 DEF Counted
<1>4. Missed(t) \cap Reached(t) = {} /\ Missed(t) \subseteq Criteria /\ Reached(t) \subseteq Criteria
  BY DEF Missed, Reached
<1>5. \A c \in Reached(t) : n.mark[c] = t.mark[c]
  BY <1>1, <1>4
<1>6. Normalised(n) = n
  <2> DEFINE mark == [c \in Criteria |-> IF c \in Missed(n) THEN 0
                                         ELSE IF c \in Reached(n) THEN n.mark[c] ELSE NoMark]
  <2>1. Normalised(n) = [n EXCEPT !.mark = mark]
    BY DEF Normalised
  <2>2. mark = n.mark
    BY <1>1, <1>2, <1>5
  <2> HIDE DEF mark
  <2> QED BY <1>1, <2>1, <2>2 DEF SettledSheet, Sheet
<1>7. Calculated(n) = Calculated(t)
  <2> DEFINE marked(s) == {d \in Reached(s) : s.mark[d] # NoMark}
  <2>1. [c \in Counted(n) |-> Maximum[c]] = [c \in Counted(t) |-> Maximum[c]]
    BY <1>3
  <2>2. marked(n) = marked(t)
    BY <1>2, <1>5
  <2>3. [c \in marked(n) |-> n.mark[c]] = [c \in marked(t) |-> t.mark[c]]
    BY <1>5, <2>2
  <2> DEFINE applicable(s) == Total([c \in Counted(s) |-> Maximum[c]])
             earned(s) == Total([c \in marked(s) |-> s.mark[c]])
             of(type, all, got) ==
               IF type = "zero_defect"
               THEN [earned |-> NoScore, applicable |-> NoScore, tier |-> "", score |-> NoScore]
               ELSE [earned |-> got, applicable |-> all, tier |-> Tier(all),
                     score |-> IF all < 2000 THEN NoScore ELSE Percent(got, all)]
  <2>4. applicable(n) = applicable(t) /\ earned(n) = earned(t)
    BY <2>1, <2>3
  <2>5. /\ Calculated(n) = of(n.type, applicable(n), earned(n))
        /\ Calculated(t) = of(t.type, applicable(t), earned(t))
    BY Zenon DEF Calculated
  <2> HIDE DEF of, applicable, earned
  <2> QED BY <1>1, <2>4, <2>5
<1> QED BY <1>2, <1>3, <1>6, <1>7 DEF n

(* An accepted sheet is accepted again as it is stored; a whole one has a   *)
(* mark for exactly what was reached.                                       *)
LEMMA NormalisedAccepted ==
  ASSUME NEW t \in SettledSheet, NEW complete \in BOOLEAN, NEW reasoned \in BOOLEAN,
         Assessable(t, complete, reasoned)
  PROVE  LET n == Normalised(t) IN
         /\ Assessable(n, complete, TRUE) /\ Assessable(n, FALSE, TRUE)
         /\ complete => \A c \in Criteria : n.mark[c] # NoMark <=> c \in Counted(n)
<1> DEFINE n == Normalised(t)
<1>1. /\ n \in SettledSheet /\ n.type = t.type
      /\ n.heading = t.heading /\ n.criterion = t.criterion
      /\ n.mark = [c \in Criteria |-> IF c \in Missed(t) THEN 0
                                      ELSE IF c \in Reached(t) THEN t.mark[c] ELSE NoMark]
  BY NormalisedTyped
<1>2. Missed(n) = Missed(t) /\ Reached(n) = Reached(t) /\ Counted(n) = Counted(t)
  BY NormalisedKeeps
<1> HIDE DEF n
<1>3. /\ Missed(t) \cap Reached(t) = {} /\ Missed(t) \subseteq Criteria
      /\ Reached(t) \subseteq Criteria /\ Counted(t) = Reached(t) \cup Missed(t)
  BY DEF Missed, Reached, Counted
<1>4. /\ \A c \in Missed(t) : n.mark[c] = 0
      /\ \A c \in Reached(t) : n.mark[c] = t.mark[c]
      /\ \A c \in Criteria \ Counted(t) : n.mark[c] = NoMark
  BY <1>1, <1>3
<1>5. \A c \in Criteria : n.mark[c] # NoMark => n.mark[c] <= Maximum[c]
  <2>1. \A c \in Criteria : 0 <= Maximum[c]
    BY ScorecardAssumption
  <2>2. \A c \in Criteria : t.mark[c] # NoMark => t.mark[c] <= Maximum[c]
    BY DEF Assessable
  <2> QED BY <1>3, <1>4, <2>1, <2>2
<1>6. complete => \A c \in Reached(t) : t.mark[c] # NoMark
  BY DEF Assessable
<1>7. NoMark # 0
  BY ScorecardAssumption
<1>8. complete => \A c \in Criteria : n.mark[c] # NoMark <=> c \in Counted(n)
  BY <1>2, <1>3, <1>4, <1>6, <1>7
<1>9. Assessable(n, complete, TRUE) /\ Assessable(n, FALSE, TRUE)
  BY <1>1, <1>2, <1>4, <1>5, <1>6 DEF Assessable
<1> QED BY <1>8, <1>9 DEF n

(* What a save stores of a request, its evaluation included.                *)
LEMMA StoredFacts ==
  ASSUME NEW new \in Sheet
  PROVE  LET s == Stored(new) IN
         /\ s \in Sheet /\ s.type = new.type /\ s.critical = new.critical /\ Stored(s) = s
         /\ Calculated(Settled(s)) = Calculated(Settled(new))
         /\ \A complete, reasoned \in BOOLEAN : Evaluated(new, complete, reasoned) =>
              /\ Evaluated(s, complete, TRUE) /\ Evaluated(s, FALSE, TRUE)
              /\ complete /\ s.type # "zero_defect" =>
                   \A c \in Criteria : s.mark[c] # NoMark <=> c \in Counted(s)
<1>1. CASE new.type = "zero_defect"
  BY <1>1 DEF Stored, Evaluated
<1>2. CASE new.type # "zero_defect"
  <2> DEFINE t == Settled(new)
             s == Normalised(t)
  <2>1. t \in SettledSheet /\ t.type = new.type /\ t.critical = new.critical
    BY SettledTyped
  <2>2. Stored(new) = s
    BY <1>2 DEF Stored
  <2> HIDE DEF t
  <2>3. s \in SettledSheet /\ s.type = new.type /\ s.critical = new.critical
    BY <2>1, NormalisedTyped
  <2>4. Normalised(s) = s /\ Calculated(s) = Calculated(t)
    BY <2>1, NormalisedKeeps
  <2>5. Settled(s) = s
    BY <2>3, SettledAgain
  <2>6. Stored(s) = s
    BY <1>2, <2>3, <2>4, <2>5 DEF Stored
  <2>7. ASSUME NEW complete \in BOOLEAN, NEW reasoned \in BOOLEAN,
               Evaluated(new, complete, reasoned)
        PROVE  /\ Evaluated(s, complete, TRUE) /\ Evaluated(s, FALSE, TRUE)
               /\ complete => \A c \in Criteria : s.mark[c] # NoMark <=> c \in Counted(s)
    <3>1. Assessable(t, complete, reasoned)
      BY <1>2, <2>7 DEF Evaluated, t
    <3>2. /\ Assessable(s, complete, TRUE) /\ Assessable(s, FALSE, TRUE)
          /\ complete => \A c \in Criteria : s.mark[c] # NoMark <=> c \in Counted(s)
      BY <2>1, <3>1, NormalisedAccepted
    <3> QED BY <2>5, <3>2 DEF Evaluated
  <2>8. s \in Sheet
    BY <2>3 DEF SettledSheet
  <2> HIDE DEF s
  <2> QED BY <2>2, <2>3, <2>4, <2>5, <2>6, <2>7, <2>8 DEF t
<1> QED BY <1>1, <1>2

CardTyped ==
  /\ status \in {"in_progress", "completed", "revision_required"} /\ sheet \in Sheet

CardIInv == CardTyped /\ ResultFollowsSheet /\ CriticalIsEvaluable /\ EvidenceDisjoint

LEMMA ReceivedTyped ==
  ASSUME NEW given \in Sheet
  PROVE  LET new == Received(given) IN
         /\ new \in Sheet /\ new.type = given.type
         /\ new.type = "zero_defect" => ~new.critical
BY DEF Received, EmptySheet, Blank, Sheet, EvaluationTypes

LEMMA RequestedTyped ==
  ASSUME CardTyped
  PROVE  RequestedSheets \subseteq Sheet
<1>1. sheet \in Sheet
  BY DEF CardTyped
<1>2. \A t \in EvaluationTypes : [sheet EXCEPT !.type = t] \in Sheet
  BY <1>1 DEF Sheet
<1>3. \A b \in BOOLEAN : [sheet EXCEPT !.critical = b] \in Sheet
  BY <1>1 DEF Sheet
<1>4. [sheet EXCEPT !.heading = Blank] \in Sheet
  BY <1>1 DEF Sheet, Blank
<1>5. \A h \in Headings, s \in HeadingStates : [sheet EXCEPT !.heading[h] = s] \in Sheet
  BY <1>1 DEF Sheet
<1>6. \A c \in Criteria, s \in CriterionStates : [sheet EXCEPT !.criterion[c] = s] \in Sheet
  BY <1>1 DEF Sheet
<1>7. \A c \in Criteria : \A m \in Marks[c] \cup {NoMark} : [sheet EXCEPT !.mark[c] = m] \in Sheet
  <2> SUFFICES ASSUME NEW c \in Criteria, NEW m \in Marks[c] \cup {NoMark}
               PROVE  [sheet EXCEPT !.mark[c] = m] \in Sheet
    OBVIOUS
  <2>1. m \in Nat \cup {NoMark}
    BY ScorecardAssumption
  <2> QED BY <1>1, <2>1 DEF Sheet
<1> DEFINE types == {[sheet EXCEPT !.type = t] : t \in EvaluationTypes}
           criticals == {[sheet EXCEPT !.critical = b] : b \in BOOLEAN}
           headings == {[sheet EXCEPT !.heading[h] = s] : h \in Headings, s \in HeadingStates}
           criteria == {[sheet EXCEPT !.criterion[c] = s] : c \in Criteria, s \in CriterionStates}
           marks(c) == {[sheet EXCEPT !.mark[c] = m] : m \in Marks[c] \cup {NoMark}}
<1>8. types \subseteq Sheet /\ criticals \subseteq Sheet
  BY <1>2, <1>3
<1>9. headings \subseteq Sheet
  BY <1>5
<1>10. criteria \subseteq Sheet
  BY <1>6
<1>11. ASSUME NEW c \in Criteria PROVE marks(c) \subseteq Sheet
  BY <1>7
<1>12. UNION {marks(c) : c \in Criteria} \subseteq Sheet
  <2> HIDE DEF marks
  <2> QED BY <1>11
<1>13. RequestedSheets = types \cup criticals \cup {[sheet EXCEPT !.heading = Blank]} \cup headings
                        \cup criteria \cup UNION {marks(c) : c \in Criteria}
  BY DEF RequestedSheets
<1> HIDE DEF types, criticals, headings, criteria, marks
<1> QED BY <1>4, <1>8, <1>9, <1>10, <1>12, <1>13

LEMMA CriticalFails == \A score : RatingFor(score, TRUE) = "automatic_fail"
BY DEF RatingFor

LEMMA SaveDraftCardIInv ==
  ASSUME CardIInv, NEW given \in Sheet, SaveDraft(given)
  PROVE  CardIInv'
<1> DEFINE new == Received(given)
           got == Calculated(Settled(new))
<1>1. new \in Sheet /\ Evaluated(new, FALSE, TRUE) /\ Consistent(new)
  BY ReceivedTyped DEF SaveDraft
<1>2. /\ sheet' = Stored(new) /\ status' = status /\ evidence' = evidence
      /\ status \in {"in_progress", "revision_required"}
      /\ result' = [calculated |-> got, score |-> IF new.critical THEN 0 ELSE got.score,
                    quality |-> got.score, rating |-> ""]
  BY DEF SaveDraft
<1> HIDE DEF new
<1>3. /\ sheet' \in Sheet /\ sheet'.type = new.type /\ sheet'.critical = new.critical
      /\ Stored(sheet)' = sheet' /\ Calculated(Settled(sheet))' = got
      /\ Evaluated(sheet', FALSE, TRUE)
  <2>1. /\ Stored(new) \in Sheet /\ Stored(new).type = new.type
        /\ Stored(new).critical = new.critical /\ Stored(Stored(new)) = Stored(new)
        /\ Calculated(Settled(Stored(new))) = got
        /\ Evaluated(Stored(new), FALSE, TRUE)
    BY <1>1, StoredFacts
  <2> QED BY <1>2, <2>1
<1>4. ~HandedIn' /\ (sheet'.critical => sheet'.type # "not_evaluable")
  BY <1>1, <1>2, <1>3 DEF HandedIn, Consistent
<1>5. result'.calculated = got /\ result'.rating = ""
  BY <1>2
<1>6. CardTyped'
  BY <1>2, <1>3 DEF CardTyped
<1>7. ResultFollowsSheet'
  BY <1>3, <1>4, <1>5 DEF ResultFollowsSheet
<1>8. CriticalIsEvaluable'
  BY <1>4, <1>5 DEF CriticalIsEvaluable
<1>9. EvidenceDisjoint'
  BY <1>2 DEF CardIInv, EvidenceDisjoint
<1> QED BY <1>6, <1>7, <1>8, <1>9 DEF CardIInv

LEMMA SubmitReportCardIInv ==
  ASSUME CardIInv, NEW given \in Sheet, NEW reasoned \in BOOLEAN, SubmitReport(given, reasoned)
  PROVE  CardIInv'
<1> DEFINE new == Received(given)
           got == Calculated(Settled(new))
           whole == Evaluated(new, TRUE, reasoned)
           score == IF new.critical THEN 0 ELSE got.score
<1>1. /\ new \in Sheet
      /\ new.type = "zero_defect" => ~new.critical
      /\ Evaluated(new, FALSE, reasoned) /\ Consistent(new) /\ (new.critical \/ whole)
  BY ReceivedTyped DEF SubmitReport
<1>2. /\ sheet' = Stored(new) /\ status' = "completed" /\ evidence' = evidence
      /\ result' = [calculated |-> got, score |-> score,
                    quality |-> IF whole THEN got.score ELSE NoScore,
                    rating |-> IF new.type = "zero_defect" THEN "good"
                               ELSE RatingFor(score, new.critical)]
  BY DEF SubmitReport
<1>3. new.critical \in BOOLEAN
  BY <1>1 DEF Sheet
<1> HIDE DEF new
<1>4. /\ sheet' \in Sheet /\ sheet'.type = new.type /\ sheet'.critical = new.critical
      /\ Stored(sheet)' = sheet' /\ Calculated(Settled(sheet))' = got
      /\ Evaluated(sheet', ~new.critical, TRUE)
      /\ ~new.critical /\ new.type # "zero_defect" =>
           \A c \in Criteria : sheet'.mark[c] # NoMark <=> c \in Counted(sheet')
  <2>1. /\ Stored(new) \in Sheet /\ Stored(new).type = new.type
        /\ Stored(new).critical = new.critical /\ Stored(Stored(new)) = Stored(new)
        /\ Calculated(Settled(Stored(new))) = got
    BY <1>1, StoredFacts
  <2>2. Evaluated(Stored(new), FALSE, TRUE)
    BY <1>1, StoredFacts
  <2>3. whole => /\ Evaluated(Stored(new), TRUE, TRUE)
                 /\ new.type # "zero_defect" =>
                      \A c \in Criteria : Stored(new).mark[c] # NoMark <=> c \in Counted(Stored(new))
    BY <1>1, <2>1, StoredFacts
  <2>4. CASE new.critical
    <3>1. (~new.critical) = FALSE
      BY <1>3, <2>4
    <3> QED BY <1>2, <2>1, <2>2, <2>4, <3>1
  <2>5. CASE ~new.critical
    <3>1. (~new.critical) = TRUE /\ whole
      BY <1>1, <1>3, <2>5
    <3> QED BY <1>2, <2>1, <2>3, <3>1
  <2> QED BY <2>4, <2>5
<1>5. /\ result'.calculated = got /\ result'.score = score
      /\ new.critical => result'.rating = "automatic_fail" /\ result'.score = 0
  <2>1. new.critical => new.critical = TRUE
    BY <1>3
  <2> QED BY <1>1, <1>2, <2>1, CriticalFails
<1>6. HandedIn' /\ (sheet'.critical => sheet'.type # "not_evaluable")
  BY <1>1, <1>2, <1>4 DEF HandedIn, Consistent
<1>7. CardTyped'
  BY <1>2, <1>4 DEF CardTyped
<1>8. ResultFollowsSheet'
  <2>1. (HandedIn' /\ ~sheet'.critical) = ~new.critical
    BY <1>4, <1>6
  <2>2. Evaluated(sheet', HandedIn' /\ ~sheet'.critical, TRUE)
    BY <1>4, <2>1
  <2>3. ~sheet'.critical => result'.score = result'.calculated.score
    BY <1>4, <1>5
  <2> QED BY <1>4, <1>5, <1>6, <2>2, <2>3 DEF ResultFollowsSheet
<1>9. CriticalIsEvaluable'
  BY <1>4, <1>5, <1>6 DEF CriticalIsEvaluable
<1>10. EvidenceDisjoint'
  BY <1>2 DEF CardIInv, EvidenceDisjoint
<1> QED BY <1>7, <1>8, <1>9, <1>10 DEF CardIInv

LEMMA ReturnReportCardIInv ==
  ASSUME CardIInv, ReturnReport
  PROVE  CardIInv'
<1>1. /\ sheet' = sheet /\ result' = result /\ evidence' = evidence
      /\ status' = "revision_required"
  BY DEF ReturnReport
<1>2. ~HandedIn' /\ (Scored' <=> Scored)
  BY <1>1 DEF HandedIn, Scored
<1>3. \A b \in BOOLEAN : Evaluated(sheet, b, TRUE) => Evaluated(sheet, FALSE, TRUE)
  BY DEF Evaluated, Assessable
<1>4. Scored => Evaluated(sheet, FALSE, TRUE)
  <2>1. (HandedIn /\ ~sheet.critical) \in BOOLEAN
    OBVIOUS
  <2> QED BY <1>3, <2>1 DEF CardIInv, ResultFollowsSheet
<1>5. ResultFollowsSheet'
  BY <1>1, <1>2, <1>4 DEF CardIInv, ResultFollowsSheet
<1>6. CriticalIsEvaluable'
  BY <1>1, <1>2 DEF CardIInv, CriticalIsEvaluable
<1> QED BY <1>1, <1>5, <1>6 DEF CardIInv, CardTyped, EvidenceDisjoint

(* Patches that end before their successors begin, in a list where each     *)
(* ends after it began, end before all later ones begin.                    *)
LEMMA NeighboursSuffice ==
  ASSUME NEW n \in Nat, NEW p \in [1 .. n -> [start : Nat, end : Nat]],
         \A i \in 1 .. n : p[i].end > p[i].start,
         \A i \in 1 .. n - 1 : p[i + 1].start >= p[i].end
  PROVE  \A i, j \in 1 .. n : i < j => p[i].end <= p[j].start
<1> SUFFICES ASSUME NEW i \in 1 .. n, NEW k \in 1 .. n, i < k, ~(p[i].end <= p[k].start)
             PROVE  FALSE
  OBVIOUS
<1> DEFINE wrong == {j \in 1 .. n : i < j /\ ~(p[i].end <= p[j].start)}
<1>1. wrong \subseteq Nat /\ wrong # {}
  <2>1. k \in wrong /\ wrong \subseteq 1 .. n
    OBVIOUS
  <2> HIDE DEF wrong
  <2> QED BY <2>1
<1>2. PICK j \in wrong : \A m \in wrong : ~(<<m, j>> \in OpToRel(<, Nat))
  BY <1>1, NatLessThanWellFounded, WFMin
<1>3. j \in 1 .. n /\ i < j /\ ~(p[i].end <= p[j].start)
  OBVIOUS
<1>4. \A m \in wrong : ~(m < j)
  <2> HIDE DEF wrong
  <2> QED BY <1>1, <1>2 DEF OpToRel
<1>5. /\ j - 1 \in 1 .. n - 1 /\ j - 1 \in 1 .. n
      /\ p[j].start >= p[j - 1].end
  <2>1. j - 1 \in 1 .. n - 1 /\ j - 1 \in 1 .. n /\ (j - 1) + 1 = j
    BY <1>3
  <2> QED BY <2>1
<1>6. /\ \A m \in 1 .. n : p[m].start \in Nat /\ p[m].end \in Nat
  OBVIOUS
<1>7. CASE i = j - 1
  BY <1>3, <1>5, <1>6, <1>7
<1>8. CASE i # j - 1
  <2>1. i < j - 1 /\ j - 1 \notin wrong
    BY <1>3, <1>4, <1>5, <1>8
  <2>2. p[i].end <= p[j - 1].start
    BY <1>5, <2>1
  <2>3. p[j - 1].end > p[j - 1].start
    BY <1>5
  <2> QED BY <1>3, <1>5, <1>6, <2>2, <2>3
<1> QED BY <1>7, <1>8

LEMMA SaveEvidenceCardIInv ==
  ASSUME CardIInv, SaveEvidence
  PROVE  CardIInv'
<1>0. PICK n \in 0 .. MaxPatches : \E patches \in [1 .. n -> Intervals] :
        \E sorted \in Sorted(patches) :
          /\ ValidPatches(sorted) /\ evidence' = sorted
          /\ status' = status /\ sheet' = sheet /\ result' = result
  BY DEF SaveEvidence
<1> PICK patches \in [1 .. n -> Intervals] :
      \E sorted \in Sorted(patches) :
        /\ ValidPatches(sorted) /\ evidence' = sorted
        /\ status' = status /\ sheet' = sheet /\ result' = result
  BY <1>0
<1>1. PICK sorted \in Sorted(patches) :
        /\ ValidPatches(sorted) /\ evidence' = sorted
        /\ status' = status /\ sheet' = sheet /\ result' = result
  OBVIOUS
<1>2. PICK order \in Maps!Bijection(1 .. n, 1 .. n) : sorted = [i \in 1 .. n |-> patches[order[i]]]
  <2>1. DOMAIN patches = 1 .. n
    OBVIOUS
  <2> QED BY <2>1 DEF Sorted
<1>3. n \in Nat /\ sorted \in [1 .. n -> Intervals]
  <2>1. order \in [1 .. n -> 1 .. n]
    BY DEF Maps!Bijection, Maps!Injection
  <2>2. MaxPatches \in Nat
    BY ScorecardAssumption
  <2> QED BY <1>2, <2>1, <2>2
<1>4. Len(sorted) = n /\ DOMAIN sorted = 1 .. n
  BY <1>3
<1>5. Intervals \subseteq [start : Nat, end : Nat]
  BY ScorecardAssumption
<1>6. sorted \in [1 .. n -> [start : Nat, end : Nat]]
  BY <1>3, <1>5
<1>7. /\ \A i \in 1 .. n : Timed(sorted[i])
      /\ \A i \in 1 .. n - 1 : sorted[i + 1].start >= sorted[i].end
  BY <1>1, <1>4 DEF ValidPatches
<1>8. \A i, j \in 1 .. n : i < j => sorted[i].end <= sorted[j].start
  <2>1. \A i \in 1 .. n : sorted[i].end > sorted[i].start
    BY <1>7 DEF Timed
  <2> QED BY <1>3, <1>6, <1>7, <2>1, NeighboursSuffice
<1>9. EvidenceDisjoint'
  <2>1. /\ \A i, j \in DOMAIN sorted : i < j => sorted[i].end <= sorted[j].start
        /\ \A i \in DOMAIN sorted : sorted[i].end <= LastMoment
             /\ (Duration > 0 => sorted[i].end <= Duration + Tolerance)
    BY <1>4, <1>7, <1>8 DEF Timed
  <2> QED BY <1>1, <2>1 DEF EvidenceDisjoint
<1>10. CardTyped' /\ ResultFollowsSheet' /\ CriticalIsEvaluable'
  BY <1>1 DEF CardIInv, CardTyped, ResultFollowsSheet, CriticalIsEvaluable, Scored, HandedIn
<1> QED BY <1>9, <1>10 DEF CardIInv

LEMMA CardNextIInv == CardIInv /\ [ReportNext \/ SaveEvidence]_cardVars => CardIInv'
<1> SUFFICES ASSUME CardIInv, [ReportNext \/ SaveEvidence]_cardVars PROVE CardIInv'
  OBVIOUS
<1>1. RequestedSheets \subseteq Sheet
  BY RequestedTyped DEF CardIInv
<1>2. CASE \E new \in RequestedSheets : SaveDraft(new)
  BY <1>1, <1>2, SaveDraftCardIInv
<1>3. CASE \E new \in RequestedSheets, reasoned \in BOOLEAN : SubmitReport(new, reasoned)
  BY <1>1, <1>3, SubmitReportCardIInv
<1>4. CASE ReturnReport
  BY <1>4, ReturnReportCardIInv
<1>5. CASE SaveEvidence
  BY <1>5, SaveEvidenceCardIInv
<1>6. CASE UNCHANGED cardVars
  BY <1>6 DEF cardVars, CardIInv, CardTyped, ResultFollowsSheet, CriticalIsEvaluable,
              EvidenceDisjoint, Scored, HandedIn
<1> QED BY <1>2, <1>3, <1>4, <1>5, <1>6 DEF ReportNext

LEMMA CardInitIInv == CardInit => CardIInv
<1> SUFFICES ASSUME CardInit PROVE CardIInv
  OBVIOUS
<1>1. CardTyped
  BY DEF CardInit, CardTyped, EmptySheet, Blank, Sheet, EvaluationTypes
<1>2. ~Scored /\ evidence = <<>>
  BY DEF CardInit, Scored
<1>3. EvidenceDisjoint
  BY <1>2 DEF EvidenceDisjoint
<1>4. ResultFollowsSheet /\ CriticalIsEvaluable
  BY <1>2 DEF ResultFollowsSheet, CriticalIsEvaluable
<1> QED BY <1>1, <1>3, <1>4 DEF CardIInv

(* Whatever fields the requests carried and in which order, the stored      *)
(* columns are the evaluation of the stored sheet, a critical report is     *)
(* evaluable and scores 0, and the patches of a criterion do not overlap    *)
(* (scorecard.py:263-502, 613-664; models.py:639-654).                      *)
THEOREM ReportsWhole == CardSpec => []ReportIsWhole
<1>1. CardIInv => ReportIsWhole
  BY DEF CardIInv, ReportIsWhole
<1> QED BY <1>1, CardInitIInv, CardNextIInv, PTL DEF CardSpec

----------------------------------------------------------------------------
(* Sums.  Total adds the points in the order of some choice; Partial says   *)
(* how, and Sum that the result is the one it should be.                    *)
One(s) == CHOOSE x \in s : TRUE
Partial(sums, f, S) ==
  sums = [s \in SUBSET S |-> IF s = {} THEN 0 ELSE f[One(s)] + sums[s \ {One(s)}]]
Sum(f, S) == (CHOOSE sums : Partial(sums, f, S))[S]

LEMMA TotalIsSum == ASSUME NEW f PROVE Total(f) = Sum(f, DOMAIN f)
BY Zenon DEF Total, Sum, Partial, One, Maps!SumFunction, Maps!SumFunctionOnSet,
             Maps!FoldFunctionOnSet, Maps!MapThenFoldSet

(* A set of natural numbers has a smallest.                                *)
LEMMA FirstExists ==
  ASSUME NEW S, S \subseteq Nat, S # {}
  PROVE  \E i \in S : \A j \in S : i <= j
<1>1. PICK i \in S : \A j \in S : ~(<<j, i>> \in OpToRel(<, Nat))
  BY NatLessThanWellFounded, WFMin
<1>2. \A j \in S : ~(j < i) /\ j \in Nat /\ i \in Nat
  BY <1>1 DEF OpToRel
<1> QED BY <1>2

(* What holds of a finite set when it holds of the set without any one of   *)
(* its elements holds of all its subsets.                                   *)
LEMMA Subsets ==
  ASSUME NEW S, IsFiniteSet(S), NEW Q,
         \A s \in SUBSET S : (\A x \in s : s \ {x} \in Q) => s \in Q
  PROVE  SUBSET S \subseteq Q
<1> DEFINE Sizes == {Cardinality(s) : s \in (SUBSET S) \ Q}
<1>1. \A s \in SUBSET S : IsFiniteSet(s) /\ Cardinality(s) \in Nat
  BY FS_Subset, FS_CardinalityType
<1> SUFFICES ASSUME (SUBSET S) \ Q # {} PROVE FALSE
  OBVIOUS
<1>2. PICK n \in Sizes : \A m \in Sizes : n <= m
  <2>1. Sizes \subseteq Nat /\ Sizes # {}
    BY <1>1
  <2> HIDE DEF Sizes
  <2> QED BY <2>1, FirstExists
<1>3. PICK s \in (SUBSET S) \ Q : n = Cardinality(s)
  BY <1>2
<1>4. ASSUME NEW x \in s PROVE s \ {x} \in Q
  <2>1. Cardinality(s \ {x}) = n - 1 /\ n \in Nat
    BY <1>1, <1>3, FS_RemoveElement
  <2>2. s \ {x} \in SUBSET S /\ ~(n <= n - 1)
    BY <2>1
  <2>3. Cardinality(s \ {x}) \notin Sizes
    BY <1>2, <2>1, <2>2
  <2> QED BY <2>2, <2>3
<1>5. s \in SUBSET S /\ s \notin Q
  BY <1>3
<1> QED BY <1>4, <1>5, Zenon

(* The sum of the points in a set is one of them and the sum of the others. *)
LEMMA PartialSums ==
  ASSUME NEW f, NEW S, NEW g, Partial(g, f, S)
  PROVE  /\ g[{}] = 0
         /\ \A s \in SUBSET S : s # {} => g[s] = f[One(s)] + g[s \ {One(s)}]
BY DEF Partial

LEMMA OneIsIn == \A s : s # {} => One(s) \in s
BY DEF One

LEMMA SumsAgree ==
  ASSUME NEW f, NEW S, NEW T, IsFiniteSet(S), NEW g, NEW h, Partial(g, f, S), Partial(h, f, T)
  PROVE  \A s \in SUBSET (S \cap T) : g[s] = h[s]
<1>1. /\ \A s \in SUBSET S : s # {} => g[s] = f[One(s)] + g[s \ {One(s)}]
      /\ \A s \in SUBSET T : s # {} => h[s] = f[One(s)] + h[s \ {One(s)}]
  BY PartialSums
<1> DEFINE U == S \cap T
           Q == {s \in SUBSET U : g[s] = h[s]}
<1>2. \A s \in SUBSET U : (\A x \in s : s \ {x} \in Q) => s \in Q
  <2> SUFFICES ASSUME NEW s \in SUBSET U, \A x \in s : s \ {x} \in Q
               PROVE  s \in Q
    OBVIOUS
  <2>1. CASE s = {}
    BY <2>1, PartialSums
  <2>2. CASE s # {}
    <3>1. g[s] = f[One(s)] + g[s \ {One(s)}] /\ h[s] = f[One(s)] + h[s \ {One(s)}]
      BY <1>1, <2>2
    <3>2. g[s \ {One(s)}] = h[s \ {One(s)}]
      BY <2>2, OneIsIn
    <3> QED BY <3>1, <3>2
  <2> QED BY <2>1, <2>2
<1>3. IsFiniteSet(U)
  BY FS_Subset
<1> HIDE DEF Q, U
<1>4. SUBSET U \subseteq Q
  BY <1>2, <1>3, Subsets, Zenon
<1> QED BY <1>4 DEF Q, U

LEMMA SumsExist ==
  ASSUME NEW f, NEW S, IsFiniteSet(S)
  PROVE  \E g : Partial(g, f, S)
<1> DEFINE Q == {s \in SUBSET S : \E g : Partial(g, f, s)}
<1>1. ASSUME NEW s \in SUBSET S, \A x \in s : s \ {x} \in Q
      PROVE  s \in Q
  <2> DEFINE H(x) == CHOOSE g : Partial(g, f, s \ {x})
             g == [t \in SUBSET s |-> IF t = {} THEN 0 ELSE f[One(t)] + H(One(t))[t \ {One(t)}]]
  <2>1. \A x \in s : Partial(H(x), f, s \ {x}) /\ IsFiniteSet(s \ {x})
    BY <1>1, FS_Subset
  <2> HIDE DEF H
  <2>2. ASSUME NEW t \in SUBSET s, t # {}
        PROVE  g[t \ {One(t)}] = H(One(t))[t \ {One(t)}]
    <3> DEFINE u == t \ {One(t)}
    <3>1. One(t) \in s /\ u \in SUBSET s /\ u \in SUBSET (s \ {One(t)})
      BY <2>2, OneIsIn
    <3>2. CASE u = {}
      <4>1. H(One(t))[{}] = 0
        BY <2>1, <3>1, PartialSums
      <4>2. g[{}] = 0
        OBVIOUS
      <4> QED BY <3>2, <4>1, <4>2
    <3>3. CASE u # {}
      <4> DEFINE v == u \ {One(u)}
      <4>1. One(u) \in u /\ One(u) \in s
        BY <3>1, <3>3, OneIsIn
      <4>2. g[u] = f[One(u)] + H(One(u))[v]
        BY <3>1, <3>3
      <4>3. H(One(t))[u] = f[One(u)] + H(One(t))[v]
        <5>1. Partial(H(One(t)), f, s \ {One(t)})
          BY <2>1, <3>1
        <5> HIDE DEF u
        <5> QED BY <3>1, <3>3, <5>1, PartialSums
      <4>4. v \in SUBSET ((s \ {One(t)}) \cap (s \ {One(u)}))
        BY <3>1
      <4>5. H(One(u))[v] = H(One(t))[v]
        <5> HIDE DEF v, u
        <5>1. /\ Partial(H(One(t)), f, s \ {One(t)}) /\ Partial(H(One(u)), f, s \ {One(u)})
              /\ IsFiniteSet(s \ {One(t)})
          BY <2>1, <3>1, <4>1
        <5> QED BY <4>4, <5>1, SumsAgree
      <4> QED BY <4>2, <4>3, <4>5
    <3> QED BY <3>2, <3>3
  <2>3. Partial(g, f, s)
    BY <2>2 DEF Partial
  <2> QED BY <2>3
<1> HIDE DEF Q
<1>2. SUBSET S \subseteq Q
  BY <1>1, Subsets
<1> QED BY <1>2 DEF Q

LEMMA SumSteps ==
  ASSUME NEW f, NEW S, IsFiniteSet(S)
  PROVE  /\ Sum(f, {}) = 0
         /\ S # {} => One(S) \in S /\ Sum(f, S) = f[One(S)] + Sum(f, S \ {One(S)})
<1> DEFINE sums(T) == CHOOSE g : Partial(g, f, T)
<1>1. \A T : IsFiniteSet(T) => Partial(sums(T), f, T)
  BY SumsExist
<1>2. \A T : Sum(f, T) = sums(T)[T]
  BY DEF Sum
<1> HIDE DEF sums
<1>3. Sum(f, {}) = 0
  BY <1>1, <1>2, FS_EmptySet, PartialSums
<1>4. ASSUME S # {} PROVE One(S) \in S /\ Sum(f, S) = f[One(S)] + Sum(f, S \ {One(S)})
  <2> DEFINE T == S \ {One(S)}
  <2>1. One(S) \in S /\ IsFiniteSet(T) /\ T \in SUBSET (S \cap T)
    BY <1>4, OneIsIn, FS_Subset
  <2>2. sums(S)[S] = f[One(S)] + sums(S)[T]
    BY <1>1, <1>4, PartialSums
  <2>3. sums(S)[T] = sums(T)[T]
    <3> HIDE DEF T
    <3> QED BY <1>1, <2>1, SumsAgree
  <2> QED BY <1>2, <2>1, <2>2, <2>3
<1> QED BY <1>3, <1>4

(* Natural points have a natural sum, and any one of them can be the first. *)
LEMMA SumNatural ==
  ASSUME NEW f, NEW S, IsFiniteSet(S), \A x \in S : f[x] \in Nat
  PROVE  \A s \in SUBSET S : Sum(f, s) \in Nat
<1> DEFINE Q == {s \in SUBSET S : Sum(f, s) \in Nat}
<1>1. \A s \in SUBSET S : (\A x \in s : s \ {x} \in Q) => s \in Q
  <2> SUFFICES ASSUME NEW s \in SUBSET S, \A x \in s : s \ {x} \in Q
               PROVE  s \in Q
    OBVIOUS
  <2>1. IsFiniteSet(s)
    BY FS_Subset
  <2>2. CASE s = {}
    <3>1. Sum(f, {}) = 0
      BY <2>1, SumSteps
    <3> QED BY <2>2, <3>1
  <2>3. CASE s # {}
    <3>1. One(s) \in s /\ Sum(f, s) = f[One(s)] + Sum(f, s \ {One(s)})
      BY <2>1, <2>3, SumSteps
    <3>2. f[One(s)] \in Nat /\ Sum(f, s \ {One(s)}) \in Nat
      BY <3>1
    <3>3. Sum(f, s) \in Nat
      BY <3>1, <3>2
    <3> QED BY <3>3
  <2> QED BY <2>2, <2>3
<1> HIDE DEF Q
<1>2. SUBSET S \subseteq Q
  BY <1>1, Subsets, Zenon
<1> QED BY <1>2 DEF Q

LEMMA SumOfOne ==
  ASSUME NEW f, NEW S, IsFiniteSet(S), \A x \in S : f[x] \in Nat
  PROVE  \A s \in SUBSET S : \A x \in s : Sum(f, s) = f[x] + Sum(f, s \ {x})
<1> DEFINE Q == {s \in SUBSET S : \A x \in s : Sum(f, s) = f[x] + Sum(f, s \ {x})}
<1>1. \A s \in SUBSET S : (\A x \in s : s \ {x} \in Q) => s \in Q
  <2> SUFFICES ASSUME NEW s \in SUBSET S, \A x \in s : s \ {x} \in Q, NEW x \in s
               PROVE  Sum(f, s) = f[x] + Sum(f, s \ {x})
    OBVIOUS
  <2>1. IsFiniteSet(s) /\ s # {}
    BY FS_Subset
  <2> DEFINE y == One(s)
             rest == s \ {x, y}
  <2>2. y \in s /\ Sum(f, s) = f[y] + Sum(f, s \ {y})
    BY <2>1, SumSteps
  <2>3. CASE x # y
    <3>1. /\ x \in s \ {y} /\ y \in s \ {x} /\ s \ {y} \in Q /\ s \ {x} \in Q
          /\ (s \ {y}) \ {x} = rest /\ (s \ {x}) \ {y} = rest
      BY <2>2, <2>3
    <3>2. Sum(f, s \ {y}) = f[x] + Sum(f, rest) /\ Sum(f, s \ {x}) = f[y] + Sum(f, rest)
      <4> HIDE DEF y, rest
      <4>1. Sum(f, s \ {y}) = f[x] + Sum(f, (s \ {y}) \ {x})
        BY <3>1
      <4>2. Sum(f, s \ {x}) = f[y] + Sum(f, (s \ {x}) \ {y})
        BY <3>1
      <4> QED BY <3>1, <4>1, <4>2
    <3>3. f[x] \in Nat /\ f[y] \in Nat /\ Sum(f, rest) \in Nat
      BY <2>2, SumNatural
    <3> HIDE DEF y, rest
    <3> QED BY <2>2, <3>2, <3>3
  <2> QED BY <2>2, <2>3
<1> HIDE DEF Q
<1>2. SUBSET S \subseteq Q
  BY <1>1, Subsets, Zenon
<1> QED BY <1>2 DEF Q

(* Greater points have a greater sum, and so have more points.              *)
LEMMA SumMonotone ==
  ASSUME NEW f, NEW g, NEW S, IsFiniteSet(S), \A x \in S : f[x] \in Nat /\ g[x] \in Nat,
         \A x \in S : f[x] <= g[x]
  PROVE  \A s \in SUBSET S : Sum(f, s) <= Sum(g, s)
<1> DEFINE Q == {s \in SUBSET S : Sum(f, s) <= Sum(g, s)}
<1>1. \A s \in SUBSET S : (\A x \in s : s \ {x} \in Q) => s \in Q
  <2> SUFFICES ASSUME NEW s \in SUBSET S, \A x \in s : s \ {x} \in Q
               PROVE  s \in Q
    OBVIOUS
  <2>1. IsFiniteSet(s)
    BY FS_Subset
  <2>2. CASE s = {}
    <3>1. Sum(f, {}) = 0 /\ Sum(g, {}) = 0
      BY <2>1, SumSteps
    <3> QED BY <2>2, <3>1
  <2>3. CASE s # {}
    <3> DEFINE x == One(s)
    <3>1. /\ x \in s /\ Sum(f, s) = f[x] + Sum(f, s \ {x}) /\ Sum(g, s) = g[x] + Sum(g, s \ {x})
      BY <2>1, <2>3, SumSteps
    <3>2. /\ Sum(f, s \ {x}) \in Nat /\ Sum(g, s \ {x}) \in Nat
      BY SumNatural
    <3>3. Sum(f, s \ {x}) <= Sum(g, s \ {x}) /\ f[x] \in Nat /\ g[x] \in Nat /\ f[x] <= g[x]
      BY <3>1
    <3> HIDE DEF x
    <3>4. Sum(f, s) <= Sum(g, s)
      BY <3>1, <3>2, <3>3
    <3> QED BY <3>4
  <2> QED BY <2>2, <2>3
<1> HIDE DEF Q
<1>2. SUBSET S \subseteq Q
  BY <1>1, Subsets, Zenon
<1> QED BY <1>2 DEF Q

LEMMA SumOfMore ==
  ASSUME NEW f, NEW S, IsFiniteSet(S), \A x \in S : f[x] \in Nat, NEW T \in SUBSET S
  PROVE  Sum(f, T) <= Sum(f, S)
<1> DEFINE Q == {s \in SUBSET S : T \subseteq s => Sum(f, T) <= Sum(f, s)}
<1>1. \A s \in SUBSET S : (\A x \in s : s \ {x} \in Q) => s \in Q
  <2> SUFFICES ASSUME NEW s \in SUBSET S, \A x \in s : s \ {x} \in Q, T \subseteq s
               PROVE  Sum(f, T) <= Sum(f, s)
    OBVIOUS
  <2>1. \A t \in SUBSET S : Sum(f, t) \in Nat
    BY SumNatural
  <2>2. CASE s = T
    BY <2>1, <2>2
  <2>3. CASE s # T
    <3>1. PICK x \in s : x \notin T
      BY <2>3
    <3>2. s \ {x} \in SUBSET S /\ Sum(f, T) <= Sum(f, s \ {x})
      BY <3>1
    <3>3. Sum(f, s) = f[x] + Sum(f, s \ {x})
      BY SumOfOne
    <3>4. Sum(f, T) \in Nat /\ f[x] \in Nat /\ Sum(f, s \ {x}) \in Nat
      BY <2>1, <3>2
    <3> QED BY <3>2, <3>3, <3>4
  <2> QED BY <2>2, <2>3
<1> HIDE DEF Q
<1>2. SUBSET S \subseteq Q
  BY <1>1, Subsets, Zenon
<1> QED BY <1>2 DEF Q

(* Whole points have whole sums.                                            *)
LEMMA SumOfWhole ==
  ASSUME NEW f, NEW S, IsFiniteSet(S), \A x \in S : f[x] \in Nat /\ f[x] % 100 = 0
  PROVE  \A s \in SUBSET S : Sum(f, s) % 100 = 0
<1> DEFINE Q == {s \in SUBSET S : Sum(f, s) % 100 = 0}
<1>1. \A s \in SUBSET S : (\A x \in s : s \ {x} \in Q) => s \in Q
  <2> SUFFICES ASSUME NEW s \in SUBSET S, \A x \in s : s \ {x} \in Q
               PROVE  s \in Q
    OBVIOUS
  <2>1. IsFiniteSet(s)
    BY FS_Subset
  <2>2. CASE s = {}
    <3>1. Sum(f, {}) = 0
      BY <2>1, SumSteps
    <3> QED BY <2>2, <3>1
  <2>3. CASE s # {}
    <3> DEFINE x == One(s)
    <3>1. /\ x \in s /\ Sum(f, s) = f[x] + Sum(f, s \ {x})
      BY <2>1, <2>3, SumSteps
    <3>2. Sum(f, s \ {x}) \in Nat
      BY SumNatural
    <3>3. Sum(f, s \ {x}) % 100 = 0 /\ f[x] \in Nat /\ f[x] % 100 = 0
      BY <3>1
    <3> HIDE DEF x
    <3>4. Sum(f, s) % 100 = 0
      BY <3>1, <3>2, <3>3
    <3> QED BY <3>4
  <2> QED BY <2>2, <2>3
<1> HIDE DEF Q
<1>2. SUBSET S \subseteq Q
  BY <1>1, Subsets, Zenon
<1> QED BY <1>2 DEF Q

(* Points that are equal where they are counted have one sum.               *)
LEMMA TotalOn ==
  ASSUME NEW f, NEW S, IsFiniteSet(S), \A x \in S : f[x] \in Nat
  PROVE  Total([x \in S |-> f[x]]) = Sum(f, S) /\ Sum(f, S) \in Nat
<1> DEFINE g == [x \in S |-> f[x]]
<1>1. \A x \in S : g[x] = f[x] /\ g[x] \in Nat /\ g[x] <= f[x] /\ f[x] <= g[x]
  OBVIOUS
<1>2. Total(g) = Sum(g, S)
  BY TotalIsSum
<1> HIDE DEF g
<1>3. Sum(g, S) <= Sum(f, S) /\ Sum(f, S) <= Sum(g, S)
  BY <1>1, SumMonotone
<1>4. Sum(f, S) \in Nat /\ Sum(g, S) \in Nat
  BY <1>1, SumNatural
<1>5. Total(g) = Sum(f, S)
  BY <1>2, <1>3, <1>4
<1> QED BY <1>4, <1>5 DEF g

(* What calculate_evaluation rounds: a share of more points is never less.  *)
LEMMA Division ==
  ASSUME NEW n \in Nat, NEW d \in Nat \ {0}
  PROVE  /\ n \div d \in Nat /\ n % d \in Nat
         /\ n = d * (n \div d) + (n % d) /\ n % d < d
OBVIOUS

LEMMA QuotientGrows ==
  \A d \in Nat \ {0} : \A q, r, p, s \in Nat :
    r < d /\ s < d /\ d * q + r <= d * p + s => q <= p /\ (q = p => r <= s)
<1> SUFFICES ASSUME NEW d \in Nat \ {0}, NEW q \in Nat, NEW r \in Nat, NEW p \in Nat, NEW s \in Nat,
                    r < d, s < d, d * q + r <= d * p + s
             PROVE  q <= p /\ (q = p => r <= s)
  OBVIOUS
<1>1. ASSUME p < q PROVE FALSE
  <2>1. PICK k \in Nat : q = p + 1 + k
    <3> q - (p + 1) \in Nat
      BY <1>1
    <3> QED OBVIOUS
  <2>2. d * q = d * p + d + d * k /\ d * k \in Nat /\ d * p \in Nat
    BY <2>1
  <2> QED BY <2>2
<1>2. ASSUME q = p PROVE r <= s
  <2>1. d * p \in Nat
    OBVIOUS
  <2> QED BY <1>2, <2>1
<1> QED BY <1>1, <1>2

LEMMA PercentGrows ==
  ASSUME NEW d \in Nat \ {0}, NEW e \in Nat, NEW f \in Nat, e <= f
  PROVE  /\ Percent(e, d) \in Nat /\ Percent(f, d) \in Nat
         /\ Percent(e, d) <= Percent(f, d)
<1> DEFINE q == (e * 10000) \div d
           r == (e * 10000) % d
           p == (f * 10000) \div d
           s == (f * 10000) % d
<1>1. /\ q \in Nat /\ r \in Nat /\ r < d /\ e * 10000 = d * q + r
      /\ p \in Nat /\ s \in Nat /\ s < d /\ f * 10000 = d * p + s
  BY Division
<1>2. e * 10000 <= f * 10000
  OBVIOUS
<1>3. Percent(e, d) = IF 2 * r > d \/ (2 * r = d /\ q % 2 = 1) THEN q + 1 ELSE q
  BY DEF Percent
<1>4. Percent(f, d) = IF 2 * s > d \/ (2 * s = d /\ p % 2 = 1) THEN p + 1 ELSE p
  BY DEF Percent
<1> HIDE DEF q, r, p, s
<1>5. q <= p /\ (q = p => r <= s)
  BY <1>1, <1>2, QuotientGrows
<1> QED BY <1>1, <1>3, <1>4, <1>5

LEMMA QuotientBounds ==
  ASSUME NEW d \in Nat \ {0}, d <= 10000, NEW w \in Nat \ {0}, NEW q \in Nat, NEW r \in Nat,
         NEW p \in Nat, NEW s \in Nat, r < d, s < d, d * q + r = d * w, d * p + s = d * w - 10000
  PROVE  w <= q /\ p <= w - 1 /\ (p = w - 1 => s = 0)
<1>1. ASSUME q < w PROVE FALSE
  <2>1. PICK k \in Nat : w = q + 1 + k
    <3> w - (q + 1) \in Nat
      BY <1>1
    <3> QED OBVIOUS
  <2>2. d * w = d * q + d + d * k /\ d * k \in Nat /\ d * q \in Nat
    BY <2>1
  <2> QED BY <2>2
<1>2. ASSUME w <= p PROVE FALSE
  <2>1. PICK k \in Nat : p = w + k
    <3> p - w \in Nat
      BY <1>2
    <3> QED OBVIOUS
  <2>2. d * p = d * w + d * k /\ d * k \in Nat /\ d * w \in Nat
    BY <2>1
  <2> QED BY <2>2
<1>3. ASSUME p = w - 1 PROVE s = 0
  <2>1. d * p = d * w - d /\ d * w \in Nat
    BY <1>3
  <2> QED BY <2>1
<1> QED BY <1>1, <1>2, <1>3

LEMMA PercentMeets ==
  ASSUME NEW d \in Nat \ {0}, d <= 10000, NEW least \in Nat \ {0}, NEW w \in Nat \ {0},
         least * 10000 = d * w
  PROVE  Percent(least, d) >= w /\ Percent(least - 1, d) < w
<1>1. PICK m \in Nat, n \in Nat : m = least * 10000 /\ n = (least - 1) * 10000 /\ n = d * w - 10000
  OBVIOUS
<1> DEFINE q == m \div d
           r == m % d
           p == n \div d
           s == n % d
<1>2. /\ q \in Nat /\ r \in Nat /\ r < d /\ m = d * q + r
      /\ p \in Nat /\ s \in Nat /\ s < d /\ n = d * p + s
  BY Division
<1>3. Percent(least, d) = IF 2 * r > d \/ (2 * r = d /\ q % 2 = 1) THEN q + 1 ELSE q
  BY <1>1 DEF Percent
<1>4. Percent(least - 1, d) = IF 2 * s > d \/ (2 * s = d /\ p % 2 = 1) THEN p + 1 ELSE p
  BY <1>1 DEF Percent
<1> HIDE DEF q, r, p, s
<1>5. d * q + r = d * w /\ d * p + s = d * w - 10000
  BY <1>1, <1>2
<1>6. w <= q /\ p <= w - 1 /\ (p = w - 1 => s = 0)
  BY <1>2, <1>5, QuotientBounds
<1> QED BY <1>2, <1>3, <1>4, <1>6

(* With whole points of at most a hundred no rounding crosses a threshold.  *)
LEMMA ThresholdsMet ==
  ASSUME NEW d \in Nat \ {0}, d <= 10000, d % 100 = 0, NEW t \in 1 .. 100
  PROVE  /\ Percent((t * d) \div 100, d) >= t * 100
         /\ Percent((t * d) \div 100 - 1, d) < t * 100
<1>1. PICK k \in 1 .. 100 : d = 100 * k
  <2>1. d \div 100 \in 1 .. 100 /\ d = 100 * (d \div 100)
    OBVIOUS
  <2> QED BY <2>1
<1>2. PICK least \in Nat \ {0} : least = t * k
  BY <1>1
<1>3. t * d = 100 * least
  BY <1>1, <1>2
<1>4. (t * d) \div 100 = least
  BY <1>3
<1>5. least * 10000 = d * (t * 100)
  BY <1>1, <1>2
<1>6. PICK w \in Nat \ {0} : w = t * 100
  OBVIOUS
<1>7. Percent(least, d) >= w /\ Percent(least - 1, d) < w
  BY <1>5, <1>6, PercentMeets
<1> QED BY <1>4, <1>6, <1>7
----------------------------------------------------------------------------
(* The rating.                                                              *)
LEMMA CalculatedFacts ==
  ASSUME NEW s \in SettledSheet, s.type # "zero_defect"
  PROVE  LET all == Sum(Maximum, Counted(s))
             got == Sum(s.mark, {c \in Reached(s) : s.mark[c] # NoMark}) IN
         /\ all \in Nat /\ all <= 10000 /\ all % 100 = 0 /\ got \in Nat
         /\ Calculated(s).applicable = all
         /\ Calculated(s).score = IF all < 2000 THEN NoScore ELSE Percent(got, all)
<1> DEFINE counted == Counted(s)
           marked == {c \in Reached(s) : s.mark[c] # NoMark}
           all == Sum(Maximum, counted)
           got == Sum(s.mark, marked)
<1>1. counted \subseteq Criteria /\ marked \subseteq Criteria /\ IsFiniteSet(Criteria)
  BY ScorecardAssumption DEF Counted, Reached, Missed
<1>2. IsFiniteSet(counted) /\ IsFiniteSet(marked)
  BY <1>1, FS_Subset
<1>3. \A c \in Criteria : Maximum[c] \in Nat /\ Maximum[c] % 100 = 0
  BY ScorecardAssumption
<1>4. \A c \in marked : s.mark[c] \in Nat
  BY <1>1 DEF SettledSheet, Sheet
<1> HIDE DEF counted, marked
<1>5. Total([c \in counted |-> Maximum[c]]) = all /\ all \in Nat
  BY <1>1, <1>2, <1>3, TotalOn
<1>6. Total([c \in marked |-> s.mark[c]]) = got /\ got \in Nat
  BY <1>2, <1>4, TotalOn
<1>7. all <= 10000
  <2>1. DOMAIN Maximum = Criteria /\ Total(Maximum) = 10000
    BY ScorecardAssumption
  <2>2. Sum(Maximum, Criteria) = 10000
    BY <2>1, TotalIsSum
  <2>3. all <= Sum(Maximum, Criteria)
    BY <1>1, <1>3, SumOfMore
  <2> QED BY <2>2, <2>3
<1>8. all % 100 = 0
  BY <1>1, <1>3, SumOfWhole
<1>9. Calculated(s) =
        LET points == Total([c \in counted |-> Maximum[c]])
            earned == Total([c \in marked |-> s.mark[c]]) IN
        [earned |-> earned, applicable |-> points, tier |-> Tier(points),
         score |-> IF points < 2000 THEN NoScore ELSE Percent(earned, points)]
  BY DEF Calculated, counted, marked
<1> HIDE DEF all, got
<1> QED BY <1>5, <1>6, <1>7, <1>8, <1>9 DEF all, got, counted, marked

(* A rating is higher with a higher score.                                  *)
LEMMA RankOf ==
  ASSUME NEW score \in Nat
  PROVE  Rank(score) = IF score >= 9500 THEN 5 ELSE IF score >= 9000 THEN 4
                       ELSE IF score >= 8500 THEN 3 ELSE IF score >= 8000 THEN 2 ELSE 1
<1> DEFINE names == <<"not_evaluable", "unsatisfactory", "needs_improvement",
                      "good", "very_good", "excellent">>
           rank == IF score >= 9500 THEN 5 ELSE IF score >= 9000 THEN 4
                   ELSE IF score >= 8500 THEN 3 ELSE IF score >= 8000 THEN 2 ELSE 1
<1>1. score # NoScore
  BY ScorecardAssumption
<1>2. rank \in 0 .. 5 /\ RatingFor(score, FALSE) = names[rank + 1]
  BY <1>1 DEF RatingFor
<1>3. \A n, m \in 0 .. 5 : names[n + 1] = names[m + 1] => n = m
  OBVIOUS
<1> HIDE DEF names, rank
<1>4. (CHOOSE n \in 0 .. 5 : RatingFor(score, FALSE) = names[n + 1]) = rank
  BY <1>2, <1>3
<1>5. Rank(score) = CHOOSE n \in 0 .. 5 : RatingFor(score, FALSE) = names[n + 1]
  BY Zenon DEF Rank, names
<1>6. Rank(score) = rank
  BY <1>4, <1>5
<1> QED BY <1>6 DEF rank

LEMMA MorePointsRateHigher ==
  ASSUME NEW s \in SettledSheet, NEW t \in SettledSheet,
         s.type # "zero_defect", t.type # "zero_defect", Counted(t) = Counted(s),
         {c \in Reached(s) : s.mark[c] # NoMark} \subseteq {c \in Reached(t) : t.mark[c] # NoMark},
         \A c \in Reached(s) : s.mark[c] # NoMark => s.mark[c] <= t.mark[c],
         Calculated(s).score # NoScore
  PROVE  AtLeast(Calculated(t), Calculated(s))
<1> DEFINE marked == {c \in Reached(s) : s.mark[c] # NoMark}
           more == {c \in Reached(t) : t.mark[c] # NoMark}
           all == Sum(Maximum, Counted(s))
           got == Sum(s.mark, marked)
           best == Sum(t.mark, more)
<1>1. /\ all \in Nat /\ got \in Nat
      /\ Calculated(s).score = IF all < 2000 THEN NoScore ELSE Percent(got, all)
  BY CalculatedFacts
<1>2. best \in Nat /\ Calculated(t).score = IF all < 2000 THEN NoScore ELSE Percent(best, all)
  <2>1. all = Sum(Maximum, Counted(t))
    OBVIOUS
  <2> HIDE DEF all
  <2> QED BY <2>1, CalculatedFacts
<1>3. got <= best
  <2>1. marked \subseteq more /\ more \subseteq Criteria /\ IsFiniteSet(Criteria)
    BY ScorecardAssumption DEF Reached
  <2>2. IsFiniteSet(marked) /\ IsFiniteSet(more)
    BY <2>1, FS_Subset
  <2>3. \A c \in marked : s.mark[c] \in Nat /\ t.mark[c] \in Nat /\ s.mark[c] <= t.mark[c]
    BY <2>1 DEF SettledSheet, Sheet
  <2>4. \A c \in more : t.mark[c] \in Nat
    BY <2>1 DEF SettledSheet, Sheet
  <2> HIDE DEF marked, more
  <2>5. Sum(s.mark, marked) <= Sum(t.mark, marked)
    BY <2>2, <2>3, SumMonotone
  <2>6. Sum(t.mark, marked) <= Sum(t.mark, more)
    BY <2>1, <2>2, <2>4, SumOfMore
  <2>7. /\ Sum(t.mark, marked) \in Nat /\ got = Sum(s.mark, marked)
        /\ best = Sum(t.mark, more)
    BY <2>2, <2>3, SumNatural
  <2> HIDE DEF got, best
  <2> QED BY <1>1, <1>2, <2>5, <2>6, <2>7
<1> HIDE DEF all, got, best
<1>4. ~(all < 2000) /\ all \in Nat \ {0}
  BY <1>1
<1> DEFINE low == Percent(got, all)
           high == Percent(best, all)
<1>5. low \in Nat /\ high \in Nat /\ low <= high
  BY <1>1, <1>2, <1>3, <1>4, PercentGrows
<1>6. Calculated(s).score = low /\ Calculated(t).score = high
  BY <1>1, <1>2, <1>4
<1> HIDE DEF low, high
<1>7. high # NoScore
  BY <1>5, ScorecardAssumption
<1>8. Rank(high) >= Rank(low)
  BY <1>5, RankOf
<1> QED BY <1>5, <1>6, <1>7, <1>8 DEF AtLeast

(* A sheet that was evaluated is settled; what was missed has no points.    *)
LEMMA StoredSettled ==
  ASSUME CardIInv, Scored, sheet.type # "zero_defect"
  PROVE  /\ sheet \in SettledSheet
         /\ \A c \in Missed(sheet) : sheet.mark[c] = 0
         /\ result.calculated = Calculated(sheet)
<1> DEFINE t == Settled(sheet)
<1>1. sheet \in Sheet /\ t \in SettledSheet
  BY SettledTyped DEF CardIInv, CardTyped
<1>2. sheet = Normalised(t) /\ result.calculated = Calculated(t)
  BY DEF CardIInv, ResultFollowsSheet, Stored
<1> HIDE DEF t
<1>3. sheet \in SettledSheet /\ Missed(sheet) = Missed(t) /\ Missed(t) \subseteq Criteria
      /\ sheet.mark = [c \in Criteria |-> IF c \in Missed(t) THEN 0
                                          ELSE IF c \in Reached(t) THEN t.mark[c] ELSE NoMark]
  BY <1>1, <1>2, NormalisedTyped, NormalisedKeeps DEF Missed
<1>4. Calculated(sheet) = Calculated(t)
  BY <1>1, <1>2, NormalisedKeeps
<1> QED BY <1>2, <1>3, <1>4

(* A rating is fair whatever the marks: a better mark, or a missed heading  *)
(* that is assessed, never lowers score or rating, and no rounding crosses  *)
(* a threshold (scorecard.py:431-490, 699-712).                             *)
THEOREM RatingsFair == CardSpec => []RatingIsFair
<1>1. CardIInv => RatingIsFair
  <2> SUFFICES ASSUME CardIInv, Scored, sheet.type # "zero_defect",
                      result.calculated.score # NoScore
               PROVE  RatingIsFair
    BY DEF RatingIsFair
  <2> DEFINE now == result.calculated
  <2>1. /\ sheet \in SettledSheet /\ sheet \in Sheet /\ now = Calculated(sheet)
        /\ \A c \in Missed(sheet) : sheet.mark[c] = 0
        /\ Calculated(sheet).score # NoScore
    BY StoredSettled DEF SettledSheet
  <2> HIDE DEF now
  <2>2. ASSUME NEW c \in Reached(sheet), NEW m \in Marks[c],
               sheet.mark[c] # NoMark, m > sheet.mark[c]
        PROVE  AtLeast(Calculated([sheet EXCEPT !.mark[c] = m]), now)
    <3> DEFINE t == [sheet EXCEPT !.mark[c] = m]
    <3>1. m \in Nat /\ NoMark \notin Nat /\ c \in Criteria
      BY ScorecardAssumption DEF Reached
    <3>2. /\ t \in SettledSheet /\ t.type = sheet.type /\ t.heading = sheet.heading
          /\ t.criterion = sheet.criterion /\ t.mark = [sheet.mark EXCEPT ![c] = m]
      BY <2>1, <3>1 DEF SettledSheet, Sheet
    <3> HIDE DEF t
    <3>3. Reached(t) = Reached(sheet) /\ Missed(t) = Missed(sheet) /\ Counted(t) = Counted(sheet)
      BY <3>2 DEF Reached, Missed, Counted
    <3>4. sheet.mark \in [Criteria -> Nat \cup {NoMark}]
      BY <2>1 DEF Sheet
    <3>5. \A d \in Reached(sheet) : sheet.mark[d] # NoMark =>
            t.mark[d] # NoMark /\ sheet.mark[d] <= t.mark[d]
      <4> TAKE d \in Reached(sheet)
      <4> HAVE sheet.mark[d] # NoMark
      <4>1. d \in Criteria
        BY DEF Reached
      <4>2. sheet.mark[d] \in Nat
        BY <3>4, <4>1
      <4>3. CASE d = c
        BY <2>2, <3>1, <3>2, <3>4, <4>1, <4>2, <4>3
      <4>4. CASE d # c
        BY <3>2, <3>4, <4>1, <4>2, <4>4
      <4> QED BY <4>3, <4>4
    <3>6. AtLeast(Calculated(t), Calculated(sheet))
      <4>1. {d \in Reached(sheet) : sheet.mark[d] # NoMark}
              \subseteq {d \in Reached(t) : t.mark[d] # NoMark}
        BY <3>3, <3>5
      <4>2. \A d \in Reached(sheet) : sheet.mark[d] # NoMark => sheet.mark[d] <= t.mark[d]
        BY <3>5
      <4>3. t.type # "zero_defect"
        BY <3>2
      <4> QED BY <2>1, <3>2, <3>3, <4>1, <4>2, <4>3, MorePointsRateHigher, Zenon
    <3> QED BY <2>1, <3>6 DEF t
  <2>3. ASSUME NEW h \in Headings, sheet.heading[h] = "missed_opportunity"
        PROVE  AtLeast(Calculated([sheet EXCEPT
                  !.heading[h] = "applicable",
                  !.criterion = [c \in Criteria |-> IF HeadingOf[c] = h THEN "applicable" ELSE @[c]]]),
                  now)
    <3> DEFINE heading == [sheet.heading EXCEPT ![h] = "applicable"]
               criterion == [c \in Criteria |-> IF HeadingOf[c] = h THEN "applicable"
                                                ELSE sheet.criterion[c]]
               t == [sheet EXCEPT !.heading[h] = "applicable",
                                  !.criterion = [c \in Criteria |->
                                    IF HeadingOf[c] = h THEN "applicable" ELSE @[c]]]
    <3>1. t = [sheet EXCEPT !.heading = heading, !.criterion = criterion]
      BY <2>1 DEF Sheet
    <3>2. heading \in [Headings -> HeadingStates] /\ criterion \in [Criteria -> CriterionStates]
      BY <2>1 DEF SettledSheet, HeadingStates, CriterionStates
    <3> HIDE DEF t, heading, criterion
    <3>3. /\ t \in SettledSheet /\ t.type = sheet.type /\ t.heading = heading
          /\ t.criterion = criterion /\ t.mark = sheet.mark
      BY <2>1, <3>1, <3>2 DEF SettledSheet, Sheet
    <3>4. \A c \in Criteria :
            /\ HeadingOf[c] \in Headings
            /\ heading[HeadingOf[c]] = IF HeadingOf[c] = h THEN "applicable"
                                       ELSE sheet.heading[HeadingOf[c]]
            /\ criterion[c] = IF HeadingOf[c] = h THEN "applicable" ELSE sheet.criterion[c]
      BY <2>1, HeadingsTyped DEF heading, criterion, SettledSheet
    <3>5. Reached(sheet) \subseteq Reached(t) /\ Counted(t) = Counted(sheet)
      BY <2>3, <3>3, <3>4 DEF Reached, Missed, Counted
    <3>6. sheet.mark \in [Criteria -> Nat \cup {NoMark}] /\ Reached(sheet) \subseteq Criteria
      BY <2>1 DEF Sheet, Reached
    <3>7. \A d \in Reached(sheet) : sheet.mark[d] # NoMark => sheet.mark[d] <= t.mark[d]
      BY <3>3, <3>6
    <3>8. AtLeast(Calculated(t), Calculated(sheet))
      <4>1. {d \in Reached(sheet) : sheet.mark[d] # NoMark}
              \subseteq {d \in Reached(t) : t.mark[d] # NoMark}
        BY <3>3, <3>5
      <4>2. t.type # "zero_defect"
        BY <3>3
      <4> QED BY <2>1, <3>3, <3>5, <3>7, <4>1, <4>2, MorePointsRateHigher, Zenon
    <3> QED BY <2>1, <3>8 DEF t
  <2>4. ASSUME NEW t \in {80, 85, 90, 95}
        PROVE  LET least == (t * now.applicable) \div 100 IN
               /\ Percent(least, now.applicable) >= t * 100
               /\ Percent(least - 1, now.applicable) < t * 100
    <3> DEFINE all == Sum(Maximum, Counted(sheet))
    <3>1. /\ all \in Nat /\ all <= 10000 /\ all % 100 = 0 /\ now.applicable = all
          /\ Calculated(sheet).score # NoScore => ~(all < 2000)
      <4> DEFINE got == Sum(sheet.mark, {c \in Reached(sheet) : sheet.mark[c] # NoMark})
      <4>1. /\ all \in Nat /\ all <= 10000 /\ all % 100 = 0
            /\ Calculated(sheet).applicable = all
            /\ Calculated(sheet).score = IF all < 2000 THEN NoScore ELSE Percent(got, all)
        BY <2>1, CalculatedFacts
      <4> HIDE DEF all, got
      <4> QED BY <2>1, <4>1
    <3> HIDE DEF all
    <3>2. all \in Nat \ {0} /\ t \in 1 .. 100
      BY <2>1, <3>1
    <3>3. Percent((t * all) \div 100, all) >= t * 100
          /\ Percent((t * all) \div 100 - 1, all) < t * 100
      BY <3>1, <3>2, ThresholdsMet
    <3> QED BY <3>1, <3>3
  <2> QED BY <2>2, <2>3, <2>4 DEF RatingIsFair, now
<1> QED BY <1>1, CardInitIInv, CardNextIInv, PTL DEF CardSpec
=============================================================================
