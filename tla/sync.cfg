SPECIFICATION Spec
CONSTANTS
  alice = alice
  bob = bob
  NoAddr = NoAddr
  Addrs <- Addresses
  MaxTx = 6
  Touches <- Parties
  Ranges <- Filters
  PageLimit = 2
  MaxPages = 2
INVARIANTS TypeOK RangeSyncCompletes CanonicalRowsAreReferenced
PROPERTIES ForceReplacesWhole ForceKeepsSomething
CHECK_DEADLOCK FALSE
