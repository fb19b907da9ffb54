CONSTANTS
  e1 = e1  e2 = e2  o1 = o1
  Events = {e1, e2}
  Keys = {o1}
  KeyOf <- SameOrder
  VersionOf <- Versions
  Malformed <- NoMalformed
  Workers = {w1, w2}
  NativeIds = {n1, n2}
  NoWorker = NoWorker
  NoEvent = NoEvent
  NoNative = NoNative
  MaxAttempts = 2
  HorizonAttempts = 2
  AttemptBound = 3
SPECIFICATION LateSpec
INVARIANT OneSalesOrder
CHECK_DEADLOCK FALSE
