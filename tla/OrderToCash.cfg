CONSTANTS
  s1 = s1  s2 = s2
  order1 = order1  ship1 = ship1  inv1 = inv1  pay1 = pay1
  Order = order1
  Shipments = {ship1}
  Invoices = {inv1}
  Payments = {pay1}
  NoDoc = NoDoc
  Servers = {s1, s2}
  MandateBound = 2
  RecordBound = 2
SPECIFICATION Spec
INVARIANTS TypeOK GovernedOnce EventsAgreeWithRecords OnlyObservedFacts OrphansStayDrafts
PROPERTIES OutcomesMoveForward
CONSTRAINT Alongside
SYMMETRY Symmetry
CHECK_DEADLOCK FALSE
