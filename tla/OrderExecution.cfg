CONSTANTS
  e1 = e1  e2 = e2  e3 = e3  o1 = o1  o2 = o2
  Events = {e1, e2, e3}
  Keys = {o1, o2}
  KeyOf <- Orders
  VersionOf <- Versions
  Malformed <- ThirdMalformed
  Workers = {w1, w2}
  NativeIds = {n1, n2}
  NoWorker = NoWorker
  NoEvent = NoEvent
  NoNative = NoNative
  MaxAttempts = 2
  HorizonAttempts = 2
  AttemptBound = 3
SPECIFICATION Spec
SYMMETRY Symmetry
CONSTRAINT Alongside
INVARIANTS TypeOK EngineExclusive OneSalesOrder LinkNamesEngineOrder RowAgreesWithLink ProcessedMeansCarried NothingFabricated
PROPERTIES SettledStays ImplementsAcceptance
CHECK_DEADLOCK FALSE
