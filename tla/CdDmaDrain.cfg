SPECIFICATION MCSpec
CONSTANTS
  Parts = {"drive"}
  MaxLba = 1
  MaxCount = 2
  SectorUnits = 2
  CmdDelay = 2
  Dwell = 1
  Fallback = 2
  Discs = {d1, d2}
  NoDisc = none
  Audio <- MCAudio
  DataCmds <- MCDataCmds
  CdDma = TRUE
  ResetsMidTransfer = FALSE
INVARIANT DrainEnds
CHECK_DEADLOCK FALSE
