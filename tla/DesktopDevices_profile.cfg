SPECIFICATION DesktopFairSpec
CONSTANTS
  None = None
  Blank = Blank
  DefaultModel = DefaultModel
  Invalid = Invalid
  key = key
  place = place
  Envs <- MCEnvs
  Targets = {t1, t2}
  MaxRequests = 2
  QueueCap = 1
  FrameCap = 2
  MaxCaptures = 2
  MaxLaunches = 2
  MaxSlashCommands = 1
  MaxFailedSaves = 1
INVARIANT DesktopInv
PROPERTY DesktopProgress
CHECK_DEADLOCK FALSE
