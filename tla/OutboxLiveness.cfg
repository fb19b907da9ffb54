CONSTANTS
  Events <- Three
  SignedEvents <- OnlyOne
  LegacyEvents <- NoEvents
  Dispatchers = {d1}
  Configured <- Both
  MaxAttempts = 2
  Limit = 1
  TriesBound = 3
SPECIFICATION TimelySpec
PROPERTIES EventuallyFinal
CHECK_DEADLOCK FALSE
