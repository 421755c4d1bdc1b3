\* Two bytes fit in a pipe and in a read, three in the buffer.
SPECIFICATION LiveSpec
CONSTANTS
  MaxBytes = 3
  PipeSize = 2
  Chunk = 2
  MaxOutput = 3
INVARIANTS TypeOK NoOrphan AnswerIsComplete
PROPERTIES EndsByDeadline NeitherPipeBlocks
CHECK_DEADLOCK FALSE
