SPECIFICATION Spec
CONSTANTS
  FinalDispositions <- MCFinalDispositions
  Calls = {c1}
  EditorPatches <- MCEditorPatches
  NoRow = NoRow
  MaxCallbacks = 2
  MaxEdits = 1
INVARIANT
  FinalizationStartsPipeline
CHECK_DEADLOCK FALSE
