CONSTANTS
  e1 = e1  e2 = e2  e3 = e3  o1 = o1  o2 = o2
  Events = {e1, e2}
  Keys = {o1}
  KeyOf <- Orders
  VersionOf <- Versions
  Malformed <- NoMalformed
  Workers = {w1, w2}
  NativeIds = {n1}
  NoWorker = NoWorker
  NoEvent = NoEvent
  NoNative = NoNative
  MaxAttempts = 2
  HorizonAttempts = 2
  AttemptBound = 3
SPECIFICATION TimelySpec
PROPERTY EventuallySettled
CHECK_DEADLOCK FALSE
