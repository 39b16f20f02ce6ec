SPECIFICATION ArrivalSpec
CONSTANTS
  c1 = c1
  c2 = c2
  c3 = c3
  m1 = m1
  m2 = m2
  m3 = m3
  t1 = t1
  t2 = t2
  l1 = l1
  q1 = q1
  q2 = q2
  Calls <- MCCalls
  LeadOf <- MCLeads
  Carried <- MCCarried
  None = None
  Requests = {q1, q2}
  MaxCallbacks = 4
  AgentCalls <- MCAgentCalls
  Teams <- MCTeams
  Leaders <- MCLeaders
  AgentPrefix <- MCAgentPrefix
  Callbacks = {q1, q2}
  NoTeam = NoTeam
  MaxHeard = 3
  MaxSaves = 3
  Words <- MCWords
  Empty = 0
  Fold <- MCFold
  Strip <- MCStrip
  NoTeamRow = NoTeamRow
  NotFinal = NotFinal
  Limit = 2
  Themes <- MCThemes
  RowsOf <- MCRowsOf
  MaxRows = 3
  Sizes = {0, 1, 3}
  Chunk = 2
  Offsets = {0, 1, 2, 3}
  Blank = Blank
  MaxReplaced = 2
  Instants <- MCInstants
  Change = 6
  Shifts <- MCShifts
  Skew = 1
  Situations <- MCSituations
  NoTime = NoTime
  NoRow = NoRow
SYMMETRY Interchangeable
INVARIANTS
  RowsAreCalls
  PipelineOncePerCall
  WaitingIsRight
  OptionsFindCalls
  ServedAsAnnounced
  ReportedOfThisCall
PROPERTIES
  FinalNeverLost
  TeamKept
CHECK_DEADLOCK FALSE
