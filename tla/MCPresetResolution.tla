------------------------- MODULE MCPresetResolution -------------------------
(***************************************************************************)
(* Around one SALE: its preset, and the workspaces in which analysts       *)
(* listen to it.  The two share no variable, so that every behaviour here  *)
(* runs one, chosen at the start, while the other rests in its initial     *)
(* state, where nothing obliges it to move.                                *)
(***************************************************************************)
EXTENDS PresetResolution, Workspace, TLC

CONSTANTS q1, q2, m1, m2

VARIABLE part

saleVars == <<part, vars, workspaceVars>>

\* The editor changes the outcome, types a preset, clears one, or does two of these in
\* one patch.
MCFinalDispositions == {"SALE", "DROP"}
MCEditorPatches == {p \in Patch : /\ p.dispo \in {"same", "SALE", "DROP"}
                                  /\ p.on \cup p.off \subseteq {"preset"}}
MCAnalystOf == m1 :> q1 @@ m2 :> q2

\* The workspaces are followed through one fault, or through two reservations and
\* releases of a call that an analyst holds already.
Looking == posts = MaxPosts /\ holder = NoAnalyst /\ breaks = 0
Claiming == posts = 0 /\ holder = q1 /\ breaks = MaxBreaks

SaleInit ==
  /\ part \in {"preset", "presence", "claims"}
  /\ Init
  /\ WorkspaceInit /\ IF part = "claims" THEN Claiming ELSE Looking

SaleNext ==
  \/ part = "preset" /\ Next /\ UNCHANGED <<part, workspaceVars>>
  \/ part \in {"presence", "claims"} /\ WorkspaceNext /\ UNCHANGED <<part, vars>>

SaleSpec == SaleInit /\ [][SaleNext]_saleVars /\ TaskFairness /\ WorkspaceFairness
=============================================================================
