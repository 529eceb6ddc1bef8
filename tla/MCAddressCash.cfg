SPECIFICATION AddressSpec
CONSTANTS
  Hashes20 <- MCHashes20
  Hashes32 <- MCHashes32
INVARIANT CashAddressesArePaid
CHECK_DEADLOCK FALSE
