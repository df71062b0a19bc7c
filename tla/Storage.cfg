SPECIFICATION MCSpec
CONSTANTS
  Parts = {"drive", "folder", "image", "chunk"}
  MaxLba = 0
  MaxCount = 2
  SectorUnits = 2
  CmdDelay = 1
  Dwell = 1
  Fallback = 2
  Discs = {d1, d2}
  NoDisc = none
  Audio <- MCAudio
  DataCmds <- MCDataCmds
  CdDma = FALSE
  ResetsMidTransfer = FALSE
INVARIANTS TransfersAreWhole VolumesAreWhole DiscsReadTrue
PROPERTY SwapIsMade
CHECK_DEADLOCK FALSE
