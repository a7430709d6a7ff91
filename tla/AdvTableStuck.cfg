SPECIFICATION FairSpecMC
CONSTANTS
  Tag = {t1, t2}
  NoTag = NoTag
  MaxAdvs = 2
  Worker = {sys}
  Main = main
  Idle = idle
  NoThread = NoThread
  MaxReports = 3
PROPERTY
  EveryReportPosted
