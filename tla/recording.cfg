SPECIFICATION FairSpec
CONSTANTS
  FinalDispositions <- MCFinalDispositions
  Workers = {w1, w2}
  MaxRetries = 1
  MaxCallbacks = 2
  MaxEdits = 1
  MaxFaults = 1
INVARIANTS
  DownloadedIsComplete
PROPERTIES
  DownloadKept
  RecordingSettles
CHECK_DEADLOCK FALSE
