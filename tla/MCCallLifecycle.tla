-------------------------- MODULE MCCallLifecycle --------------------------
(* One call: the rows of two calls never meet here.  Two outcomes are      *)
(* enough, SALE and one other; a patch turns at most one flag on and at    *)
(* most one off.                                                           *)
EXTENDS CallLifecycle, FiniteSets
MCFinalDispositions == {"SALE", "DROP"}
MCEditorPatches ==
  {p \in Patch : Cardinality(p.on) <= 1 /\ Cardinality(p.off) <= 1}
=============================================================================
