CONSTANTS
  Events <- Two
  SignedEvents <- OnlyOne
  LegacyEvents <- NoEvents
  Dispatchers = {d1, d2}
  Configured <- Both
  MaxAttempts = 2
  Limit = 2
  TriesBound = 3
SPECIFICATION Spec
PROPERTIES FinalStays
CHECK_DEADLOCK FALSE
