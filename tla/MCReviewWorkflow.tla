-------------------------- MODULE MCReviewWorkflow --------------------------
(***************************************************************************)
(* QA reports: the workflow of one review and the report library over it;  *)
(* the administration and who sees which call and report; the scorecard.   *)
(* The three share no variable, so that a behaviour of all of them is a    *)
(* shuffle of one behaviour of each: every behaviour here runs one, chosen *)
(* at the start, while the others rest in their initial state.             *)
(***************************************************************************)
EXTENDS ReportLibrary, Visibility, Scorecard, TLC

CONSTANTS fa, fb, b1, b2, u1, u2, g1, k1, k2, j1, j2,
          ha, hb, xa1, xa2, xb1, xb2

VARIABLE part

\* Analysts are interchangeable, and so are team leaders.
Interchangeable == Permutations(QAs) \cup Permutations(Leaders)

\* One company and branch with a project manager and a team leader, who share a
\* project, and a second company with a branch and a dialer.
MCDialerOf == j1 :> k1 @@ j2 :> k2
MCFirm == b1 :> fa @@ b2 :> fb
MCAccount ==
  u1 :> [role |-> "project_manager", firm |-> fa, branch |-> b1, editor |-> TRUE] @@
  u2 :> [role |-> "team_leader", firm |-> fa, branch |-> b1, editor |-> FALSE]
MCTeam == g1 :> [branch |-> b1, leader |-> u2]
MCDialer == k1 :> b1 @@ k2 :> b2
MCAssigned == {<<u1, j1>>, <<u2, j1>>}

\* Two headings whose criteria add up to the boundaries of the coverage tiers: 20, 60,
\* 85 and 100; one mark is too high, and one is a point of the rating thresholds.
MCHeadingOf == xa1 :> ha @@ xa2 :> ha @@ xb1 :> hb @@ xb2 :> hb
MCMaximum == xa1 :> 2000 @@ xa2 :> 4000 @@ xb1 :> 2500 @@ xb2 :> 1500
MCMarks == xa1 :> {0, 2000, 2001} @@ xa2 :> {0, 3500, 4000} @@ xb1 :> {0, 2500} @@ xb2 :> {0, 1500}
MCIntervals == [start : 0..3, end : 1..4]

allVars == <<part, vars, orgVars, cardVars>>

ReportsInit ==
  /\ part \in {"workflow", "organisation", "scorecard", "evidence"}
  /\ Init /\ OrgInit /\ CardInit
  /\ part # "workflow" => ready = TRUE /\ leader = Nobody

ReportsNext ==
  \/ part = "workflow" /\ Next /\ UNCHANGED <<part, orgVars, cardVars>>
  \/ part = "organisation" /\ OrgNext /\ UNCHANGED <<part, vars, cardVars>>
  \/ part = "scorecard" /\ ReportNext /\ UNCHANGED <<part, vars, orgVars>>
  \/ part = "evidence" /\ SaveEvidence /\ UNCHANGED <<part, vars, orgVars>>

ReportsSpec == ReportsInit /\ [][ReportsNext]_allVars
=============================================================================
