SPECIFICATION Spec
CONSTANTS
  Apply <- ApplyToSet
  Stores <- MCStores
  Chains <- MCChains
  OthersRequests <- MCOthers
  MaxCalls = 3
  MaxOthers = 1
INVARIANT TypeOK
PROPERTIES
  NeverShowsOlder
  ReadYourWrites
CHECK_DEADLOCK FALSE
