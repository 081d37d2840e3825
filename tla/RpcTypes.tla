------------------------------ MODULE RpcTypes ------------------------------
(***************************************************************************)
(* What the JSON-RPC namespaces share: block numbers, answers, and the     *)
(* Ethereum views of transactions and blocks.                              *)
(*                                                                         *)
(* The hash of a transaction is the transaction and the hash of a block is *)
(* its height.  A block is given with both forms of its transactions, the  *)
(* hashes and the full ones.                                               *)
(***************************************************************************)
EXTENDS Integers, Sequences, FiniteSetsExt

LatestBlockNumber == 0
PendingBlockNumber == -1

\* An answer is an error, nil, or a value.
Error == [ok |-> FALSE, value |-> <<>>]
Nil == [ok |-> TRUE, value |-> <<>>]
Found(v) == [ok |-> TRUE, value |-> <<v>>]
IsFound(a) == a.ok /\ a.value # <<>>
Value(a) == a.value[1]

\* A transaction that is in no block yet has the height and the index 0.
NewTransaction(t, height, index) == [tx |-> t, height |-> height, index |-> index]

\* RawTxToEthTx fails for every other kind.
IsEthTx(t) == t.kind = "eth"

SumOfGas(txs) == MapThenSumSet(LAMBDA i : txs[i].gas, DOMAIN txs)

\* The gas used is the sum of the limits; the index counts Ethereum transactions only.
EthTransactionsFromTendermint(txs, height) ==
  LET eth == SelectSeq(txs, IsEthTx) IN
  [hashes |-> eth, gasUsed |-> SumOfGas(eth),
   txs |-> [i \in DOMAIN eth |-> NewTransaction(eth[i], height, i - 1)]]

FormatBlock(height, transactions, bloom) ==
  [number |-> height, gasUsed |-> transactions.gasUsed, bloom |-> bloom,
   hashes |-> transactions.hashes, txs |-> transactions.txs]

EthBlockFromTendermint(height, txs, bloom) ==
  FormatBlock(height, EthTransactionsFromTendermint(txs, height), bloom)

\* Limits of the transactions before the one at idx, of every kind.
GetBlockCumulativeGas(txs, idx) == SumOfGas(SubSeq(txs, 1, idx))
=============================================================================
