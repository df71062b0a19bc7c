SPECIFICATION MCSpec
CONSTANTS
  Parts = {"drive"}
  MaxLba = 0
  MaxCount = 2
  SectorUnits = 2
  CmdDelay = 1
  Dwell = 1
  Fallback = 2
  Discs = {d1, d2}
  NoDisc = none
  Audio <- MCAudio
  DataCmds <- MCDataCmds
  CdDma = FALSE
  ResetsMidTransfer = FALSE
INVARIANT LastPublishedIsIn
CHECK_DEADLOCK FALSE
