SPECIFICATION LiveSpec
CONSTANTS
  None = None
  l1 = l1
  l2 = l2
  i1 = i1
  Launch = {l1, l2}
  Id = {i1}
  ToolKiller = {}
  CliKiller = {}
  Reaper = reaper
  MaxGen = 2
  MaxClock = 3
  LastLaunch = 2
  MaxFaults = 1
  MaxMisses = 1
  Retention = 0
CONSTRAINT OneMishap
PROPERTY ForgetsOnlyDeadLeaders
PROPERTY RowsAgeOut
PROPERTY RunReturns
