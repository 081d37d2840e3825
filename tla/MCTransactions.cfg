SPECIFICATION MCSpec
CONSTANTS
  s1 = s1
  s2 = s2
  Senders = {s1, s2}
  Nobody = Nobody
  MaxGasLimitPerTx = 4
  MinGasPrice = 1
  ChainID = 66
  TxGas = 1
  CreateGas = 1
  ByteGas = 2
  ByteGasIstanbul = 1
  BloomBitsBlocks = 2
  StartBlockHeight = 0
  Txs <- MCTxs
  Confs <- MCConfs
  InitialCoins <- MCInitialCoins
  Criteria <- MCCriteria
  r1 = r1
  r2 = r2
  Requests = {r1, r2}
  SendTxArgs <- MCSendTxArgs
  DefaultRPCGasLimit = 4
  GasBuffer = 1
  MaxKeys = 2
  MaxHeight = 4
  MaxBlockTxs = 2
  MaxMempool = 2
  MaxCrashes = 1
  Scenarios <- AllScenarios
INVARIANTS
  NonceUsedOnce
  PaidForGasUsed
  PendingNoncesFollow
  AdmittedReachesEvm
  BlockLogsExact
  FastQueriesAgree
  AnswersAgree
  LogsExact
PROPERTIES
  NonceAssignedOnce
  ReceiptIsFinal
  BlockServed
CHECK_DEADLOCK FALSE
