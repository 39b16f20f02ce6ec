SPECIFICATION SaleSpec
CONSTANTS
  FinalDispositions <- MCFinalDispositions
  EditorPatches <- MCEditorPatches
  q1 = q1
  q2 = q2
  m1 = m1
  m2 = m2
  Tabs = {m1, m2}
  AnalystOf <- MCAnalystOf
  MaxChannels = 3
  NoAnalyst = NoAnalyst
  Unknown = Unknown
  MaxOpened = 2
  MaxPosts = 2
  MaxBreaks = 1
  Workers = {w1, w2}
  MaxRetries = 1
  MaxCallbacks = 2
  MaxEdits = 2
  MaxCrashes = 1
INVARIANTS
  OpenNoticeHasReason
PROPERTIES
  LateLookupHarmless
  MissingPresetReported
  WorkspacesAgree
CHECK_DEADLOCK FALSE
