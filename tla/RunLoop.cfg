SPECIFICATION Spec
CONSTANTS
  CyclesPerTbTick = 2
  DecHalf = 5
  MaxChunk = 8
  Never = 1000
  InsnCycles = 1
  ExtraCycles = 2
  Insns <- SampleInsns
  LineWords = 2
  Ahead = {1, 4}
  MaxBudget = 3
  MaxTb = 3
INVARIANTS ClockConservation NoMissedDecrementer NoOverdueDevice LateByLessThanALine
PROPERTY ExactlyOneAtATime
CHECK_DEADLOCK FALSE
