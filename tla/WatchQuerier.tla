---------------------------- MODULE WatchQuerier ----------------------------
(***************************************************************************)
(* Fast queries: answers from the store that the watcher writes.  An error *)
(* (also: the mode is off, or the key is not written yet) sends the caller *)
(* to Tendermint and to the application's own state.                       *)
(***************************************************************************)
EXTENDS RpcTypes

VARIABLES sw,         \* whether the fast query mode is on
          watchStore

Get(key) == IF sw /\ key \in DOMAIN watchStore THEN Found(watchStore[key]) ELSE Error

GetTransactionReceipt(t) == Get(<<"receipt", t>>)

GetTransactionByHash(t) == Get(<<"tx", t>>)

GetLatestBlockNumber == Get(<<"latest">>)

\* In the full form transactions that the store does not have are left out.
GetBlockByHash(hash) ==
  LET block == Get(<<"block", hash>>)
      known == SelectSeq(Value(block).txs, LAMBDA t : GetTransactionByHash(t).ok)
  IN  IF ~block.ok THEN Error
      ELSE Found([number |-> hash, gasUsed |-> Value(block).gasUsed, bloom |-> Value(block).bloom,
                  hashes |-> Value(block).txs,
                  txs |-> [i \in DOMAIN known |-> Value(GetTransactionByHash(known[i]))]])

\* The number 0 stands for the latest block that the store names.
GetBlockByNumber(number) ==
  LET height == IF number = 0 THEN GetLatestBlockNumber ELSE Found(number) IN
  IF height.ok /\ Get(<<"info", Value(height)>>).ok
  THEN GetBlockByHash(Value(Get(<<"info", Value(height)>>)))
  ELSE Error

\* The contract that transaction t created.
GetCode(t, height) ==
  LET created == Get(<<"code", t>>) IN
  IF ~created.ok \/ (height < Value(created) /\ height > 0) THEN Error ELSE Found(t)

getTransactionByBlockAndIndex(block, idx) ==
  LET at == SelectSeq(block.txs, LAMBDA x : x.index = idx) IN
  IF at = <<>> THEN Error ELSE Found(at[1])

GetTransactionByBlockNumberAndIndex(number, idx) ==
  LET block == GetBlockByNumber(number) IN
  IF block.ok THEN getTransactionByBlockAndIndex(Value(block), idx) ELSE Error
=============================================================================
