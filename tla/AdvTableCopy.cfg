SPECIFICATION SpecMC
CONSTANTS
  Tag = {t1, t2}
  NoTag = NoTag
  MaxAdvs = 2
  Worker = {}
  Main = main
  Idle = idle
  NoThread = NoThread
  MaxReports = 3
PROPERTY
  CopyIsFaithful
