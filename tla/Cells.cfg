SPECIFICATION MCSpec
CONSTANTS
  Sources = {1, 2}
  MaxPri = 2
  None = 0
  MaxGen = 2
  Period = 8
  Advances = {1, 3}
  Jumps = {4, 10}
  MaxTb = 16
  MaxWrites = 3
INVARIANTS HeldLevelIsPending NoEdgeLost ChannelIsSound BlankIsOnTime ResumeIsExact
PROPERTY PicturesAreExact
CHECK_DEADLOCK FALSE
