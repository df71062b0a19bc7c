SPECIFICATION MCSpec
CONSTANTS
  CyclesPerTbTick = 2
  DecHalf = 3
  MaxChunk = 100
  Never = 1000
  NsPerTick = 3
  CatchupTb = 2
  Elapses <- MCElapses
  TbWrites <- MCTbWrites
  StepCycles = 3
  MaxNow = 20
INVARIANT PacedByHost
PROPERTIES CallReturns DecrementerWakes WaitComesBack LoopsEndRight
CHECK_DEADLOCK FALSE
