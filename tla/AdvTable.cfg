SPECIFICATION FairSpecMC
CONSTANTS
  Tag = {t1, t2, t3}
  NoTag = NoTag
  MaxAdvs = 2
  Worker = {sys, app}
  Main = main
  Idle = idle
  NoThread = NoThread
  MaxReports = 3
INVARIANTS
  TypeOK
  TableHoldsLatest
  PostedInOrder
PROPERTIES
  StoreSpec
  PostedUnlessPended
