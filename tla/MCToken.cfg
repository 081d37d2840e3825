SPECIFICATION MCSpec
CONSTANTS
  Accounts = {a1, a2}
  BlackHole = BlackHole
  Contracts = {c1}
  TokenAcc = TokenAcc
  FeeAcc = FeeAcc
  Native = fax
  Symbols = {abc}
  Upperbound = 5
  Fee = 1
  Amounts <- AmountsAround
  MultiSendLimit = 2
  Windows = {0, 1}
  InitialBalance = 2
  MaxTime = 2
  Mixes <- AllMixes
SYMMETRY Symmetry
INVARIANTS
  OwnerIndexExact
  CoinsExact
PROPERTIES
  Renounced
  OwnershipByConsent
CHECK_DEADLOCK FALSE
