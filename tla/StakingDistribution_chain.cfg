CONSTANTS
  Validators = {1,2}
  Delegators = {1}
  NoProxy = NoProxy
  WeeksPerYear = 2
  SecondsPerWeek = 4
  MinDelegation = 1
  MinMsd = 1
  ElectMsd = 2
  MaxValsToAddShares = 2
  UnbondingTimeParam = 1
  LevelUpHeight = 100
  LevelUpUnbondingTime = 1
  DefaultEpoch = 2
  GenesisValidators = {1,2}
  InitialBalance = 2
  StartTime = 8
  TimeSteps = {1}
  MsdChoices = {2}
  Quantities = {2}
  EpochChoices = {2}
  MaxValidatorsChoices = {1}
  InitialMaxValidators = 1
  MaxHeight = 3
  CommunityAddress = community
  Unit = 10
  CommunityTax = 1
  FeeChoices = {13}
  MaxFees = 13
SPECIFICATION ChainSpec
CHECK_DEADLOCK FALSE
PROPERTY ImplementsDistribution
