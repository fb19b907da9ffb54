CONSTANTS
  e1 = e1  e2 = e2  e3 = e3  k1 = k1  plain = plain  renamed = renamed
  Events = {e1, e3}
  Keys = {k1}
  KeyOf <- OneCustomer
  VersionOf <- Versions
  ContentOf <- Renaming
  NoContent = NoContent
  Malformed <- NoMalformed
  Workers = {w1}
  NativeIds = {n1, n2}
  NoWorker = NoWorker
  NoEvent = NoEvent
  NoNative = NoNative
  MaxAttempts = 2
  HorizonAttempts = 2
  AttemptBound = 3
SPECIFICATION Spec
PROPERTIES EngineMovesForward
CHECK_DEADLOCK FALSE
