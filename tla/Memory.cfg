SPECIFICATION MCSpec
CONSTANTS
  A = A
  B = B
  C = C
  Blocks <- MCBlocks
  Values = {0, 1}
  Zero = 0
  NoValue = NoValue
  L1Ways = 2
  L2Ways = 1
  FetchSlot <- MCSlot
  Attributes <- MCAttributes
  Disciplined = TRUE
  Inhibited = {2}
  Slots = 1
  Bats = 1
  MaxChanges = 2
  Programs = {{"fetch"}, {"load", "store"}}
  Pages <- MCPages
  TlbSetOf <- MCTlbSetOf
  Hash <- MCHash
  NoBat <- MCNoBat
  BatValues <- MCBatValues
  ResetSeg <- MCResetSeg
  SegValues <- MCSegValues
  NoPte <- MCNoPte
  PteValues <- MCPteValues
  BootTable <- MCBootTable
  BootMsr <- MCBootMsr
  MsrValues <- MCMsrValues
  DabrOff <- MCDabrOff
  DabrValues <- MCDabrValues
INVARIANTS CleanCopiesAgree FetchHitIsLongPath AnswersAreCurrent StoredPagesAreChanged TlbIsSound
PROPERTY BehavesAsOneMemory
SYMMETRY MCSymmetry
CHECK_DEADLOCK FALSE
