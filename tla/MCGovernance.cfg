SPECIFICATION Spec
CONSTANTS
  a1 = a1
  a2 = a2
  Addresses = {a1, a2}
  Proposers = {"validator", "user"}
  IsValidator = {"validator"}
  Coins <- MCCoins
  Contents <- MCContents
  Deposits = {0, 1, 2}
  InitialParams <- MCInitialParams
  MaxInt64 = 7
  maxAddressListLength = 2
  MaxHeight = 4
  MaxProposals = 3
INVARIANTS
  CarriedOutOnce
  AcceptedNeverFails
CHECK_DEADLOCK FALSE
