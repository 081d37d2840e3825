CONSTANTS
  Validators = {1,2,3}
  Delegators = {}
  NoProxy = NoProxy
  WeeksPerYear = 2
  SecondsPerWeek = 4
  MinDelegation = 1
  MinMsd = 1
  ElectMsd = 2
  MaxValsToAddShares = 2
  UnbondingTimeParam = 2
  LevelUpHeight = 100
  LevelUpUnbondingTime = 1
  DefaultEpoch = 3
  GenesisValidators = {1,2,3}
  InitialBalance = 2
  StartTime = 8
  TimeSteps = {1}
  MsdChoices = {2}
  Quantities = {2}
  EpochChoices = {3}
  MaxValidatorsChoices = {1}
  InitialMaxValidators = 1
  MaxHeight = 4
SPECIFICATION MCSpec
INVARIANTS
  BondedWithinMax
