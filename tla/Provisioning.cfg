CONSTANTS
  o1 = o1
  o2 = o2
  Operations <- Two
  Workers = {w1, w2}
  NoWorker = NoWorker
  NoOperation = NoOperation
  Plan <- OneWarehouse
  Remapped <- Replanned
  Untimed <- Zoneless
  MaxAttempts = 2
  AttemptBound = 3
  CrashBound = 2
  LateBound = 1
SPECIFICATION Spec
CONSTRAINT Alongside
SYMMETRY Symmetry
INVARIANTS TypeOK CommandFollowsStatuses ReadyMeansProvisioned ResolvableMeansConfigured
  OnlyLateCallsDuplicate WarehouseAnnouncedOnce
PROPERTIES ImplementsLifecycle
CHECK_DEADLOCK FALSE
