SPECIFICATION LiveSpec
CONSTANTS
  RecentKeep = 2
  AgedKeep = 1
  TailLines = 1
  Limit = 1
  AgedAfter = 1
  Retention = 1
  p1 = p1
  Poll = {p1}
  MaxLines = 3
  MaxMishaps = 1
  NoFile = NoFile
INVARIANTS TypeOK LogEndsAtLastLine TailCoversExit ExitedPollIsComplete PollNeverErrors
PROPERTY DiskIsReclaimed
