SPECIFICATION Spec
CONSTANTS
  l1 = l1
  l2 = l2
  i1 = i1
  i2 = i2
  None = None
  Launch = {l1, l2}
  Id = {i1, i2}
  ToolKiller = {}
  CliKiller = {}
  Reaper = reaper
  MaxGen = 2
  MaxClock = 1
  LastLaunch = 1
  MaxFaults = 0
  MaxMisses = 0
  Retention = 0
SYMMETRY Symmetry
INVARIANT TypeOK
INVARIANT DoneAfterState
INVARIANT IdNamesOneJob
INVARIANT FinishedRowIsTerminal
INVARIANT BootSettlesRows
PROPERTY ReconcileSparesOwn
PROPERTY DeclaredDeadIsDead
PROPERTY SweepSparesJobs
PROPERTY ImplementsHistory
