CONSTANTS
  Validators = {1,2,3}
  Delegators = {d1, d2, d3}
  NoProxy = NoProxy
  WeeksPerYear = 2
  SecondsPerWeek = 2
  MinDelegation = 1
  MinMsd = 1
  ElectMsd = 2
  MaxValsToAddShares = 2
  UnbondingTimeParam = 3
  LevelUpHeight = 2
  LevelUpUnbondingTime = 1
  DefaultEpoch = 2
  GenesisValidators = {1,2}
  InitialBalance = 2
  StartTime = 4
  TimeSteps = {1,3}
  MsdChoices = {2}
  Quantities = {2}
  EpochChoices = {1,2,3}
  MaxValidatorsChoices = {1,2}
  InitialMaxValidators = 1
  MaxHeight = 4
SPECIFICATION MCSpec
SYMMETRY DelegatorSymmetry
INVARIANTS
  PowerIndexExact
  BondedIffInLastSet
  JailedNotBonded
  ValidatorQueueExact
  NeverHalts
  TendermintHasLastSet
  EpochsEnd
  UndelegateQueueExact
  InvariantsHold
  BindingsExact
