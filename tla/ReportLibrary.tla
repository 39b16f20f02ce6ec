---------------------------- MODULE ReportLibrary ----------------------------
(***************************************************************************)
(* The QA report library beside the workflow: the list with its segments,  *)
(* filters and score rules (_report_filters), and the summary whose cards  *)
(* head the same page (ReviewReportSummaryView).  The two are written      *)
(* apart and must count the same reports, in every state of the workflow.  *)
(***************************************************************************)
EXTENDS ReviewWorkflow

CONSTANTS Unscored, NoBound, Attributes, Values

\* What the scorecard left in the report, and whether the coaching deadline has
\* passed.  A submitted critical failure scores 0 (review_critical_final_score_zero).
\* points: the sum of the criteria of each score field, Unscored when one is missing.
Fields == {"total", "opening"}
FieldMaximum == [total |-> 100, opening |-> 10]
Facts == [critical : BOOLEAN, total : {Unscored, 0, 84, 85, 100}, opening : {Unscored, 4},
          late : BOOLEAN, attribute : [Attributes -> Values]]
Possible(f) == f.critical /\ review.status = "completed" => f.total = 0

\* scoped_reports, of a call of the reader's branch and projects.
InScope(u) ==
  \/ u \in QAs /\ review.reviewer = u
  \/ u \in Leaders /\ review.team_leader = u /\ review.status = "completed"
                   /\ review.eval # "zero_defect"
  \/ u \notin QAs \cup Leaders  \* oversight of the project, and the superuser

----------------------------------------------------------------------------
(* The score rules, in hundredths of a point.                              *)
Operators == {"gt", "gte", "lt", "lte", "eq", "neq", "between", "outside"}
Rule == [field : Fields, operator : Operators, unit : {"points", "percent"},
         value : Nat, to : Nat \cup {NoBound}]

ParsedRule(rule) ==
  LET scaled(v) == IF rule.unit = "percent" THEN v * FieldMaximum[rule.field] ELSE v * 100
      ranged == rule.operator \in {"between", "outside"}
      swapped == ranged /\ rule.value > rule.to IN
  [field |-> rule.field, operator |-> rule.operator,
   value |-> scaled(IF swapped THEN rule.to ELSE rule.value),
   to |-> IF ~ranged THEN NoBound ELSE scaled(IF swapped THEN rule.value ELSE rule.to)]

RuleHolds(rule, f) ==
  LET r == ParsedRule(rule)
      score == f[r.field]
      s == score * 100 IN
  /\ score # Unscored
  /\ \/ r.operator = "gt" /\ s > r.value
     \/ r.operator = "gte" /\ s >= r.value
     \/ r.operator = "lt" /\ s < r.value
     \/ r.operator = "lte" /\ s <= r.value
     \/ r.operator = "eq" /\ s = r.value
     \/ r.operator = "neq" /\ s # r.value
     \/ r.operator = "between" /\ s >= r.value /\ s <= r.to
     \/ r.operator = "outside" /\ (s < r.value \/ s > r.to)

ScoreRules(p, f) ==
  \/ p.rules = {}
  \/ p.match = "all" /\ \A rule \in p.rules : RuleHolds(rule, f)
  \/ p.match = "any" /\ \E rule \in p.rules : RuleHolds(rule, f)

----------------------------------------------------------------------------
(* The list.                                                               *)
Completed == review.status = "completed"
QAActive == review.status \in {"in_progress", "revision_required"}
Open == review.leader_status # "closed"

\* Mutant: the segment a leader works from asks for his status alone.
SegmentByLeader(segment, f) ==
  CASE segment = "all" -> TRUE
    [] segment = "qa_active" -> QAActive
    [] segment = "submitted" -> Completed
    [] segment = "revision" -> review.status = "revision_required"
    [] segment = "attention" -> review.leader_status = "pending"
    [] segment = "critical" -> f.critical /\ Open
    [] segment = "coaching" -> review.leader_status = "coaching_planned"
    [] segment = "closed" -> review.leader_status = "closed"

Segment(segment, f) ==
  CASE segment = "all" -> TRUE
    [] segment = "qa_active" -> QAActive
    [] segment = "submitted" -> Completed
    [] segment = "revision" -> review.status = "revision_required"
    [] segment = "attention" -> Completed /\ review.leader_status = "pending"
    [] segment = "critical" -> Completed /\ f.critical /\ Open
    [] segment = "coaching" -> Completed /\ review.leader_status = "coaching_planned"
    [] segment = "closed" -> Completed /\ review.leader_status = "closed"

\* A parameter that is not given filters nothing.
Chosen(values, value) == values = {} \/ value \in values
Wanted(answer, fact) == answer = "any" \/ (answer = "true" <=> fact)

Overdue(f) == review.leader_status = "coaching_planned" /\ f.late

Listed(p, f) ==
  /\ Chosen(p.workflow, review.leader_status) /\ Chosen(p.qa, review.status)
  /\ Chosen(p.evaluation, review.eval) /\ Chosen(p.leaders, review.team_leader)
  /\ Segment(p.segment, f)
  /\ \A a \in Attributes : Chosen(p.attribute[a], f.attribute[a])
  /\ Wanted(p.critical, f.critical) /\ Wanted(p.scored, f.total # Unscored)
  /\ Wanted(p.overdue, Overdue(f)) /\ Wanted(p.activity, review.events > 0)
  /\ ScoreRules(p, f)

Unfiltered ==
  [workflow |-> {}, qa |-> {}, evaluation |-> {}, leaders |-> {}, segment |-> "all",
   attribute |-> [a \in Attributes |-> {}], critical |-> "any", scored |-> "any",
   overdue |-> "any", activity |-> "any", rules |-> {}, match |-> "all"]

----------------------------------------------------------------------------
(* The summary: whether its cards count the review.                        *)
PersonalOrOversight(u) == u # Superuser /\ u \notin Leaders

Cards(u, f) ==
  [total |-> PersonalOrOversight(u) \/ Completed,
   qa_active |-> QAActive,
   revision_required |-> review.status = "revision_required",
   pending |-> Completed /\ review.leader_status = "pending",
   critical_open |-> Completed /\ Open /\ f.critical,
   coaching_open |-> Completed /\ review.leader_status = "coaching_planned",
   overdue |-> Completed /\ review.leader_status = "coaching_planned" /\ f.late,
   below_benchmark_open |-> Completed /\ Open /\ f.total # Unscored /\ f.total < 85,
   closed |-> Completed /\ review.leader_status = "closed"]

----------------------------------------------------------------------------
\* "Below 85" in every way the filter dialog can say it.
BelowBenchmark ==
  {[field |-> "total", operator |-> "lt", unit |-> unit, value |-> 85, to |-> NoBound] :
     unit \in {"points", "percent"}} \cup
  {[field |-> "total", operator |-> "outside", unit |-> unit, value |-> v, to |-> 185 - v] :
     unit \in {"points", "percent"}, v \in {85, 100}}

List(segment) == [Unfiltered EXCEPT !.segment = segment]

(* The cards that head the report page (views.py:813-905) count exactly     *)
(* the reports the list shows behind them (views.py:659-693, 731-743,       *)
(* 494-598), for every reader, after any number of returns, resubmissions   *)
(* and actions over the leader's head.  The list behind "overdue" alone     *)
(* does not ask whether the report is submitted: only the workflow keeps    *)
(* drafts and returned reports out of it, and a superuser who plans the     *)
(* coaching of a draft gets it in.  The total of a superuser leaves out the *)
(* drafts that "all" lists.                                                 *)
CardsMatchLists == Exists =>
  \A u \in QAs \cup Leaders \cup {Superuser, Nobody} : InScope(u) =>
    \A f \in Facts : Possible(f) =>
      LET card == Cards(u, f) IN
      /\ u # Superuser => (card.total <=> Listed(Unfiltered, f))
      /\ u # Superuser => (card.total /\ ~card.qa_active <=> Listed(List("submitted"), f))
      /\ card.qa_active <=> Listed(List("qa_active"), f)
      /\ card.revision_required <=> Listed(List("revision"), f)
      /\ card.pending <=> Listed(List("attention"), f)
      /\ card.critical_open <=> Listed(List("critical"), f)
      /\ card.coaching_open <=> Listed(List("coaching"), f)
      /\ card.closed <=> Listed(List("closed"), f)
      /\ overruled \/ (card.overdue <=> Listed([Unfiltered EXCEPT !.overdue = "true"], f))
      /\ \A rule \in BelowBenchmark :
           card.below_benchmark_open <=>
             Listed([List("submitted") EXCEPT !.workflow = LeaderStatus \ {"closed"},
                                              !.rules = {rule}], f)
=============================================================================
