SPECIFICATION ChainSpec
CONSTANTS
  Validators = {v1, v2}
  Addresses = {v1, v2, community}
  CommunityAddress = community
  Blacklisted = {community}
  Unit = 10
  CommunityTax = 1
  FeeChoices = {13}
  SpendChoices = {5}
  ShareChoices = {0, 1, 2}
  MaxFees = 26
SYMMETRY Symmetry
INVARIANTS
  DistributionInvariants
  RecordsExact
  NeverOverspends
PROPERTY EarningsGoHome
CHECK_DEADLOCK FALSE
