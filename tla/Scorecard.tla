------------------------------ MODULE Scorecard ------------------------------
(***************************************************************************)
(* The scorecard of a QA report (calls/scorecard.py) and the three ways it *)
(* is saved: draft, submission, and the draft of a returned report.  A     *)
(* request carries some of the fields; the rest is taken from the report,  *)
(* which keeps what the last evaluation normalised.                        *)
(*                                                                         *)
(* Points are counted in hundredths, as the code's two decimals allow.     *)
(***************************************************************************)
EXTENDS Naturals, Sequences, FiniteSets
Maps == INSTANCE Functions

CONSTANTS Headings, Criteria,
          HeadingOf, Maximum, \* heading and most points of each criterion
          Marks,              \* the points a request may give each criterion
          Intervals, Duration,\* timestamp patches, and the recording's end
          Tolerance,          \* the second its rounding may hide
          LastMoment,         \* 24 hours
          MaxPatches,
          NoMark, NoScore, Unset

Total(points) == Maps!SumFunction(points)

\* Every maximum is a number of whole points, and all of them are a hundred points.
ASSUME ScorecardAssumption ==
  /\ HeadingOf \in [Criteria -> Headings] /\ Maximum \in [Criteria -> Nat \ {0}]
  /\ IsFiniteSet(Criteria) /\ \A c \in Criteria : Maximum[c] % 100 = 0
  /\ Total(Maximum) = 10000
  /\ Marks \in [Criteria -> SUBSET Nat] /\ NoMark \notin Nat /\ NoScore \notin Nat
  /\ Unset \notin {"applicable", "not_reached", "missed_opportunity"}
  /\ Intervals \subseteq [start : Nat, end : Nat]
  /\ Duration \in Nat /\ Tolerance \in Nat /\ LastMoment \in Nat /\ MaxPatches \in Nat

EvaluationTypes == {"zero_defect", "full", "partial", "not_evaluable", "agent_premature"}
HeadingStates == {"applicable", "not_reached", "missed_opportunity"}
CriterionStates == {"applicable", "not_reached"}
Points == Nat \cup {NoScore}

\* The fields a request may carry; Unset is a key the dictionary does not have.
Sheet == [type : EvaluationTypes, heading : [Headings -> HeadingStates \cup {Unset}],
          criterion : [Criteria -> CriterionStates \cup {Unset}],
          mark : [Criteria -> Nat \cup {NoMark}], critical : BOOLEAN]
Ratings == {"", "automatic_fail", "not_evaluable", "excellent", "very_good", "good",
            "needs_improvement", "unsatisfactory"}
Tiers == {"", "insufficient", "limited", "partial", "full"}

VARIABLES status,   \* of the report
          sheet,    \* what the QA entered, normalised
          result,   \* what was calculated from it, or NoScore before the first save
          evidence  \* the timestamp patches of one criterion
cardVars == <<status, sheet, result, evidence>>

Blank == [h \in Headings |-> Unset]
EmptySheet == [type |-> "full", heading |-> Blank, criterion |-> [c \in Criteria |-> Unset],
               mark |-> [c \in Criteria |-> NoMark], critical |-> FALSE]

CardInit ==
  /\ status = "in_progress" /\ sheet = EmptySheet /\ result = NoScore /\ evidence = <<>>

----------------------------------------------------------------------------
(* calculate_evaluation.                                                   *)

\* Every heading and criterion with its default.
Settled(s) ==
  [s EXCEPT
     !.heading = [h \in Headings |-> IF @[h] # Unset THEN @[h]
                    ELSE IF s.type \in {"partial", "not_evaluable"} THEN "not_reached"
                    ELSE "applicable"],
     !.criterion = [c \in Criteria |-> IF @[c] # Unset THEN @[c] ELSE "applicable"]]

Missed(s) == {c \in Criteria : s.heading[HeadingOf[c]] = "missed_opportunity"}
Reached(s) == {c \in Criteria : /\ s.heading[HeadingOf[c]] = "applicable"
                                /\ s.criterion[c] = "applicable"}

\* reasoned: every heading that is not applicable has its reason.
Assessable(s, complete, reasoned) ==
  /\ \A c \in Criteria : s.mark[c] # NoMark => s.mark[c] <= Maximum[c]
  /\ s.type = "full" => /\ \A h \in Headings : s.heading[h] = "applicable"
                        /\ \A c \in Criteria : s.criterion[c] = "applicable"
  /\ s.type = "not_evaluable" => \A h \in Headings : s.heading[h] = "not_reached"
  /\ complete =>
       /\ s.type = "agent_premature" =>
            reasoned /\ \E h \in Headings : s.heading[h] = "missed_opportunity"
       /\ \A c \in Reached(s) : s.mark[c] # NoMark

\* Mutant: rounded to tenths of a percent.
PercentTenths(earned, applicable) == ((earned * 1000 + applicable \div 2) \div applicable) * 10

\* earned / applicable * 100 in hundredths; quantize rounds half to even.
Percent(earned, applicable) ==
  LET share == earned * 10000
      whole == share \div applicable
      rest == 2 * (share % applicable) IN
  IF rest > applicable \/ (rest = applicable /\ whole % 2 = 1) THEN whole + 1 ELSE whole

Tier(applicable) ==
  CASE applicable < 2000 -> "insufficient"
    [] applicable >= 2000 /\ applicable < 6000 -> "limited"
    [] applicable >= 6000 /\ applicable < 8500 -> "partial"
    [] applicable >= 8500 -> "full"

Counted(s) == Reached(s) \cup Missed(s)

\* Missed criteria score nothing; marks of what was not reached are dropped.
Normalised(s) ==
  [s EXCEPT !.mark = [c \in Criteria |-> IF c \in Missed(s) THEN 0
                                         ELSE IF c \in Reached(s) THEN @[c] ELSE NoMark]]

Calculated(s) ==
  LET applicable == Total([c \in Counted(s) |-> Maximum[c]])
      earned == Total([c \in {d \in Reached(s) : s.mark[d] # NoMark} |-> s.mark[c]]) IN
  IF s.type = "zero_defect"
  THEN [earned |-> NoScore, applicable |-> NoScore, tier |-> "", score |-> NoScore]
  ELSE [earned |-> earned, applicable |-> applicable, tier |-> Tier(applicable),
        score |-> IF applicable < 2000 THEN NoScore ELSE Percent(earned, applicable)]

RatingFor(score, critical) ==
  IF critical THEN "automatic_fail" ELSE IF score = NoScore THEN "not_evaluable"
  ELSE IF score >= 9500 THEN "excellent" ELSE IF score >= 9000 THEN "very_good"
  ELSE IF score >= 8500 THEN "good" ELSE IF score >= 8000 THEN "needs_improvement"
  ELSE "unsatisfactory"

----------------------------------------------------------------------------
(* ReviewSerializer, CallReviewDraftView and CallReviewSubmitView.         *)

\* A zero-defect request empties everything else of the sheet.
Received(new) == IF new.type = "zero_defect" THEN [EmptySheet EXCEPT !.type = new.type] ELSE new

\* Mutant: a request that does not carry the type is not checked against it.
ConsistentRequest(new) == new.type # sheet.type => ~(new.type = "not_evaluable" /\ new.critical)
Consistent(new) == ~(new.type = "not_evaluable" /\ new.critical)

\* What is kept of an evaluated sheet; a zero-defect evaluation keeps nothing.
Stored(s) == IF s.type = "zero_defect" THEN s ELSE Normalised(Settled(s))
Evaluated(s, complete, reasoned) ==
  s.type = "zero_defect" \/ Assessable(Settled(s), complete, reasoned)

SaveDraft(given) ==
  LET new == Received(given)
      got == Calculated(Settled(new)) IN
  /\ status \in {"in_progress", "revision_required"}
  /\ Consistent(new) /\ Evaluated(new, FALSE, TRUE)
  /\ sheet' = Stored(new)
  /\ result' = [calculated |-> got, score |-> IF new.critical THEN 0 ELSE got.score,
                quality |-> got.score, rating |-> ""]
  /\ UNCHANGED <<status, evidence>>

\* A critical report may be submitted with marks missing: it has failed anyway.
\* (A call that cannot be evaluated needs a stated reason; it is not stored here.)
SubmitReport(given, reasoned) ==
  LET new == Received(given)
      got == Calculated(Settled(new))
      whole == Evaluated(new, TRUE, reasoned)
      score == IF new.critical THEN 0 ELSE got.score IN
  /\ status # "completed" /\ status' = "completed"
  /\ Consistent(new) /\ Evaluated(new, FALSE, reasoned)
  /\ new.critical \/ whole
  /\ sheet' = Stored(new)
  /\ result' = [calculated |-> got, score |-> score,
                quality |-> IF whole THEN got.score ELSE NoScore,
                rating |-> IF new.type = "zero_defect" THEN "good"
                           ELSE RatingFor(score, new.critical)]
  /\ UNCHANGED evidence

\* ReviewReportActionView: back to the QA, the sheet as it is.
ReturnReport ==
  /\ status = "completed" /\ sheet.type # "zero_defect"
  /\ status' = "revision_required" /\ UNCHANGED <<sheet, result, evidence>>

\* The sheets a request makes: one field of it given, with one key changed.
RequestedSheets ==
  {[sheet EXCEPT !.type = t] : t \in EvaluationTypes} \cup
  {[sheet EXCEPT !.critical = b] : b \in BOOLEAN} \cup
  {[sheet EXCEPT !.heading = Blank]} \cup
  {[sheet EXCEPT !.heading[h] = s] : h \in Headings, s \in HeadingStates} \cup
  {[sheet EXCEPT !.criterion[c] = s] : c \in Criteria, s \in CriterionStates} \cup
  UNION {{[sheet EXCEPT !.mark[c] = m] : m \in Marks[c] \cup {NoMark}} : c \in Criteria}

ReportNext ==
  \/ \E new \in RequestedSheets : SaveDraft(new)
  \/ \E new \in RequestedSheets, reasoned \in BOOLEAN :
       SubmitReport(new, reasoned)
  \/ ReturnReport

----------------------------------------------------------------------------
(* _validate_evidence, of the patches of one criterion.                    *)

Earlier(p, q) == p.start < q.start \/ (p.start = q.start /\ p.end < q.end)
Timed(p) == /\ p.end > p.start /\ p.end <= LastMoment
            /\ Duration > 0 => p.end <= Duration + Tolerance

Sorted(patches) ==
  {sorted \in {[i \in DOMAIN patches |-> patches[order[i]]] :
               order \in Maps!Bijection(DOMAIN patches, DOMAIN patches)} :
     \A i \in 1 .. Len(patches) - 1 : ~Earlier(sorted[i + 1], sorted[i])}

\* Only neighbours are compared.
ValidPatches(sorted) ==
  /\ Len(sorted) <= MaxPatches
  /\ \A i \in 1 .. Len(sorted) : Timed(sorted[i])
  /\ \A i \in 1 .. Len(sorted) - 1 : sorted[i + 1].start >= sorted[i].end

SaveEvidence ==
  \E n \in 0 .. MaxPatches : \E patches \in [1 .. n -> Intervals] : \E sorted \in Sorted(patches) :
    /\ status \in {"in_progress", "revision_required"} /\ sheet.type # "zero_defect"
    /\ ValidPatches(sorted)
    /\ evidence' = sorted
    /\ UNCHANGED <<status, sheet, result>>

CardSpec == CardInit /\ [][ReportNext \/ SaveEvidence]_cardVars

----------------------------------------------------------------------------
CardTypeOK ==
  /\ status \in {"in_progress", "completed", "revision_required"} /\ sheet \in Sheet
  /\ result = NoScore \/
       /\ result.score \in Points /\ result.quality \in Points /\ result.rating \in Ratings
       /\ result.calculated.tier \in Tiers
  /\ evidence \in Seq(Intervals)

Scored == result # NoScore
HandedIn == status = "completed"

\* What the columns say, whatever fields the requests carried and in which order:
\* evaluating the stored sheet again accepts it and gives the stored result; a
\* submitted report that did not fail has a mark for exactly what was reached; and
\* the CHECK constraints of models.py:639-654 hold (a critical report is evaluable,
\* and scores 0 once submitted).
ResultFollowsSheet == Scored =>
  /\ Evaluated(sheet, HandedIn /\ ~sheet.critical, TRUE) /\ Stored(sheet) = sheet
  /\ result.calculated = Calculated(Settled(sheet))
  /\ HandedIn /\ ~sheet.critical => result.score = result.calculated.score
  /\ HandedIn /\ sheet.type # "zero_defect" /\ ~sheet.critical =>
       \A c \in Criteria : sheet.mark[c] # NoMark <=> c \in Counted(sheet)

CriticalIsEvaluable == Scored /\ sheet.critical =>
  /\ sheet.type # "not_evaluable" /\ result.rating # "not_evaluable"
  /\ HandedIn => result.score = 0 /\ result.rating = "automatic_fail"

\* Accepted patches of one criterion never overlap, although the code compares
\* neighbours only, and they lie in the recording (scorecard.py:613-664).
EvidenceDisjoint ==
  /\ \A i, j \in DOMAIN evidence : i < j => evidence[i].end <= evidence[j].start
  /\ \A i \in DOMAIN evidence : evidence[i].end <= LastMoment
       /\ (Duration > 0 => evidence[i].end <= Duration + Tolerance)

ReportIsWhole == ResultFollowsSheet /\ CriticalIsEvaluable /\ EvidenceDisjoint

Rank(score) ==
  CHOOSE n \in 0 .. 5 :
    RatingFor(score, FALSE) = <<"not_evaluable", "unsatisfactory", "needs_improvement",
                                "good", "very_good", "excellent">>[n + 1]

AtLeast(new, old) == new.score # NoScore /\ new.score >= old.score /\ Rank(new.score) >= Rank(old.score)

\* The rating is fair (scorecard.py:431-490, 699-712): a better mark never lowers the
\* score, a heading marked as missed never scores better than the same heading
\* assessed, and rounding lifts nobody over a threshold of the rating.
RatingIsFair ==
  Scored /\ sheet.type # "zero_defect" /\ result.calculated.score # NoScore =>
    LET now == result.calculated IN
    /\ \A c \in Reached(sheet) : \A m \in Marks[c] :
         sheet.mark[c] # NoMark /\ m > sheet.mark[c] =>
           AtLeast(Calculated([sheet EXCEPT !.mark[c] = m]), now)
    /\ \A h \in Headings : sheet.heading[h] = "missed_opportunity" =>
         AtLeast(Calculated([sheet EXCEPT
            !.heading[h] = "applicable",
            !.criterion = [c \in Criteria |-> IF HeadingOf[c] = h THEN "applicable" ELSE @[c]]]),
            now)
    /\ \A t \in {80, 85, 90, 95} :
         LET least == (t * now.applicable) \div 100 IN
         /\ Percent(least, now.applicable) >= t * 100
         /\ Percent(least - 1, now.applicable) < t * 100
=============================================================================
