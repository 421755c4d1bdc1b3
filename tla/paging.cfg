\* A line outgrows the cap with three bytes; a page holds two short lines or one long.
SPECIFICATION LiveSpec
CONSTANTS
  MaxRead = 2
  Seal = 2
  Back = 1
  MaxLine = 2
  Tag = 1
  MaxPage = 5
  Keep = 1
  Default = 2
  Limit = {0, 2}
  Start = {0, 1}
  MaxSize = 4
  MaxLines = 3
INVARIANTS TypeOK PagesTile PollSkipsNothing
PROPERTY PagingEnds
CHECK_DEADLOCK FALSE
