SPECIFICATION Spec
CONSTANTS
  None = None
  l1 = l1
  i1 = i1
  Launch = {l1}
  Id = {i1}
  ToolKiller = {tool}
  CliKiller = {cli}
  Reaper = reaper
  MaxGen = 2
  MaxClock = 1
  LastLaunch = 0
  MaxFaults = 1
  MaxMisses = 0
  Retention = 0
PROPERTY DeclaredDeadIsDead
PROPERTY ImplementsHistory
