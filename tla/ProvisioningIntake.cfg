CONSTANTS
  k1 = k1  k2 = k2  s1 = s1  s2 = s2  s3 = s3
  Entities <- Two
  Plans <- Two
  Assigned <- Assignments
  MarketEntries <- Entries
  Placements <- Clients
  Required = Required
  Environment = "production"
  Requests <- RequestSet
  Malformed <- OneMalformed
  Keys = {k1, k2}
  Runtime = Runtime
  CurrencyOf <- Currencies
  Servers = {s1, s2, s3}
  NoRequest = NoRequest
  NoKey = NoKey
  Today = 1
  VersionBound = 2
SPECIFICATION Spec
INVARIANTS TypeOK KeyBindsRequest WhollyAccepted BuiltFromReferences AcceptedWasUsable
CONSTRAINT FewChanges
SYMMETRY Symmetry
CHECK_DEADLOCK FALSE
