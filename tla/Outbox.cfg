CONSTANTS
  Events <- Four
  SignedEvents <- OneAndThree
  LegacyEvents <- OnlyFour
  Dispatchers = {d1}
  Configured <- Both
  MaxAttempts = 2
  Limit = 2
  TriesBound = 3
SPECIFICATION Spec
INVARIANTS TypeOK DeliveredMeansAccepted DeadLetterWasTried BudgetIsSpent
PROPERTIES OutageRiddenOut FinalStays
CHECK_DEADLOCK FALSE
