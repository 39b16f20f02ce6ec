SPECIFICATION FairSpec
CONSTANTS
  FinalDispositions <- MCFinalDispositions
  Calls = {c1}
  EditorPatches <- MCEditorPatches
  NoRow = NoRow
  MaxCallbacks = 3
  MaxEdits = 2
INVARIANTS
  BusinessFlagsCoherent
  PipelineFollowsCall
  OutcomeIsLastWord
PROPERTIES
  LateDispositionWins
  ProvisionalSettles
  KeepsPromise
CHECK_DEADLOCK FALSE
