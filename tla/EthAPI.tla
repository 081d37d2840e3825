------------------------------- MODULE EthAPI -------------------------------
(***************************************************************************)
(* The queries of the eth namespace, each evaluated at one moment of a     *)
(* node's life.  Most try the watch store first and fall back on the       *)
(* backend.  State is queried at the latest height or with the pending     *)
(* transactions on top of it.                                              *)
(***************************************************************************)
EXTENDS Transactions, SequencesExt

CONSTANT Criteria  \* of log filters: addresses and topics

ASSUME FilterAssumption ==
  \A c \in Criteria : c.addresses \subseteq Senders /\ \A i \in DOMAIN c.topics : c.topics[i] \subseteq Senders

backend == INSTANCE RpcBackend
wrappedBackend == INSTANCE WatchQuerier WITH sw <- conf.watch

GetLogs(tm, c) == backend!Logs(tm, c)

BlockNumber(tm) == backend!BlockNumber(tm)

\* The account retriever and the count of pending transactions are two queries; here both see
\* the same moment.
accountNonce(s, pending) ==
  IF ~committed.accs[s].found THEN 0
  ELSE committed.accs[s].seq + (IF pending THEN backend!UserPendingTransactionsCnt(s) ELSE 0)

GetTransactionCount(s, number) == accountNonce(s, number = PendingBlockNumber)

\* With pending transactions amounts are taken into account, fees are not; the recipient of a
\* pending creation is a nil pointer.
GetBalance(s, number) ==
  LET pending == backend!UserPendingTransactions(s)
      Add(val, p) == val - (IF p.tx.from = s THEN p.tx.amount ELSE 0) + (IF p.tx.to = s THEN p.tx.amount ELSE 0)
  IN  IF number # PendingBlockNumber THEN Found(backend!queryBalance(s))
      ELSE IF \E i \in DOMAIN pending : pending[i].tx.to = Nobody THEN Error
      ELSE Found(FoldLeft(Add, backend!queryBalance(s), pending))

GetCode(t, height) ==
  LET code == wrappedBackend!GetCode(t, height)
      created == {i \in DOMAIN committed.results :
                    LET r == committed.results[i] IN
                    r.tx = t /\ t.to = Nobody /\ r.kind = "executed" /\ (height > 0 => r.height <= height)}
  IN  IF code.ok THEN code ELSE IF created # {} THEN Found(t) ELSE Nil

----------------------------------------------------------------------------
\* Blocks.

TxCount(tm, height) ==
  LET block == backend!Block(tm, height) IN IF block.ok THEN Found(Len(Value(block))) ELSE Nil

GetBlockTransactionCountByHash(tm, hash) ==
  LET height == backend!queryHashToHeight(hash) IN IF height.ok THEN TxCount(tm, Value(height)) ELSE Nil

GetBlockTransactionCountByNumber(tm, number) ==
  LET latest == TxCount(tm, backend!LatestBlockNumberOf(tm)) IN
  CASE number = PendingBlockNumber ->
         IF IsFound(latest) THEN Found(Value(latest) + backend!PendingTransactionCnt) ELSE Nil
    [] number = LatestBlockNumber -> latest
    [] OTHER -> TxCount(tm, number)

GetBlockByHash(tm, hash) == backend!GetBlockByHash(tm, hash)

\* The pending block is the mempool behind the last stored block.
GetBlockByNumber(tm, number) ==
  LET height == backend!LatestBlockNumberOf(tm) IN
  IF number # PendingBlockNumber THEN backend!GetBlockByNumber(tm, number)
  ELSE IF backend!Block(tm, height).ok
  THEN Found(FormatBlock(height + 1, EthTransactionsFromTendermint(mempool, height), {}))
  ELSE Error

----------------------------------------------------------------------------
\* Transactions.

FromTendermint(t, r) == IF IsEthTx(t) THEN Found(NewTransaction(t, r.height, r.index)) ELSE Error

GetTransactionByHash(tm, t) ==
  LET fast == wrappedBackend!GetTransactionByHash(t)
      r == backend!Tx(tm, t)
  IN  IF fast.ok THEN fast
      ELSE IF r.ok THEN FromTendermint(t, Value(r))
      ELSE backend!PendingTransactionsByHash(t)

\* Here the index counts the transactions of every kind.
getTransactionByBlockAndIndex(height, txs, idx) ==
  IF idx < Len(txs) /\ IsEthTx(txs[idx + 1]) THEN Found(NewTransaction(txs[idx + 1], height, idx)) ELSE Nil

GetTransactionByBlockHashAndIndex(tm, hash, idx) ==
  LET height == backend!queryHashToHeight(hash)
      block == backend!Block(tm, Value(height))
  IN  IF height.ok /\ block.ok THEN getTransactionByBlockAndIndex(Value(height), Value(block), idx) ELSE Nil

GetTransactionByBlockNumberAndIndex(tm, number, idx) ==
  LET fast == wrappedBackend!GetTransactionByBlockNumberAndIndex(number, idx)
      pending == backend!PendingTransactions
      height == IF number = LatestBlockNumber THEN backend!LatestBlockNumberOf(tm) ELSE number
      block == backend!Block(tm, height)
  IN  IF fast.ok THEN fast
      ELSE IF number = PendingBlockNumber THEN (IF idx < Len(pending) THEN Found(pending[idx + 1]) ELSE Nil)
      ELSE IF block.ok THEN getTransactionByBlockAndIndex(height, Value(block), idx)
      ELSE Error

GetTransactionLogs(tm, t) == backend!GetTransactionLogs(tm, t)

\* Mutant: a transaction whose result is not an error has succeeded; a panic is taken for one.
ReceiptFromTendermintLax(tm, t, r) ==
  [status |-> IF r.result.kind \in {"executed", "panic"} THEN 1 ELSE 0,
   height |-> r.height, index |-> r.index, gasUsed |-> r.result.used, logs |-> r.result.logs,
   cumulative |-> r.result.used + GetBlockCumulativeGas(Value(backend!Block(tm, r.height)), r.index),
   contract |-> IF r.result.kind = "executed" /\ t.to = Nobody THEN {t} ELSE {}]

\* The cumulative gas adds the limits, not the gas used, of the transactions before.
ReceiptFromTendermint(tm, t, r) ==
  [status |-> IF r.result.kind = "executed" THEN 1 ELSE 0,
   height |-> r.height, index |-> r.index, gasUsed |-> r.result.used, logs |-> r.result.logs,
   cumulative |-> r.result.used + GetBlockCumulativeGas(Value(backend!Block(tm, r.height)), r.index),
   contract |-> IF r.result.kind = "executed" /\ t.to = Nobody THEN {t} ELSE {}]

GetTransactionReceipt(tm, t) ==
  LET fast == wrappedBackend!GetTransactionReceipt(t)
      r == backend!Tx(tm, t)
  IN  IF fast.ok THEN fast
      ELSE IF ~r.ok THEN Nil
      ELSE IF IsEthTx(t) THEN Found(ReceiptFromTendermint(tm, t, Value(r)))
      ELSE Error

----------------------------------------------------------------------------
\* Properties.

\* Where the mempool rechecks, the pending transactions of a sender carry the nonces that follow
\* the committed sequence, in the order of the pool; eth_getTransactionCount of the pending block
\* is the nonce that CheckTx takes next, so a block that takes the pool in order meets no invalid
\* nonce.  The balance of the pending block counts what is sent and nothing that is received
\* (NonceVerificationDecorator, accountNonce, GetBalance).
PendingNoncesFollow ==
  \A s \in Senders :
    LET pending == PendingOf(mempool, s) IN
    /\ conf.recheck =>
         /\ \A i \in DOMAIN pending : pending[i].nonce = committed.accs[s].seq + i - 1
         /\ check[s].seq = GetTransactionCount(s, PendingBlockNumber)
    /\ GetBalance(s, PendingBlockNumber).ok =>
         Value(GetBalance(s, PendingBlockNumber)) <= Value(GetBalance(s, LatestBlockNumber))

HasReceipt(r) == r.kind \in {"refused", "failed", "executed"}

\* What the watch store says of a committed block is what the chain says: its transactions in
\* order, each of them readable, its gas and bloom, and each receipt; a transaction that panicked
\* has none.  The block that the store names as the latest one can be read with all of its
\* transactions and receipts.  Goroutines of several blocks write at the same time, and a crash
\* may stop each of them anywhere (NewHeight, SaveBlock, Commit, Querier).
FastQueriesAgree ==
  /\ \A h \in 2 .. committed.height :
       LET done == SelectSeq(committed.results, LAMBDA r : r.height = h /\ IsEthTx(r.tx))
           block == wrappedBackend!GetBlockByNumber(h)
           receipts == {i \in DOMAIN done : HasReceipt(done[i])}
       IN  block.ok =>
         /\ Value(block) =
              [number |-> h, bloom |-> committed.blooms[h], hashes |-> [i \in DOMAIN done |-> done[i].tx],
               gasUsed |-> MapThenSumSet(LAMBDA i : done[i].used, receipts),
               txs |-> [i \in DOMAIN done |-> NewTransaction(done[i].tx, h, done[i].index)]]
         /\ \A i \in DOMAIN done :
              LET receipt == wrappedBackend!GetTransactionReceipt(done[i].tx) IN
              /\ wrappedBackend!GetTransactionByBlockNumberAndIndex(h, done[i].index) = Found(Value(block).txs[i])
              /\ receipt.ok <=> HasReceipt(done[i])
              /\ receipt.ok =>
                   LET v == Value(receipt) IN
                   /\ v.height = h /\ v.index = done[i].index /\ v.gasUsed = done[i].used
                   /\ v.status = 1 <=> done[i].kind = "executed"
                   /\ v.logs = done[i].logs
                   /\ wrappedBackend!GetCode(done[i].tx, h).ok <=> v.contract # {}
  /\ LET latest == wrappedBackend!GetLatestBlockNumber
         block == wrappedBackend!GetBlockByNumber(0)
     IN  latest.ok => block.ok /\ Value(block).number = Value(latest) /\ Len(Value(block).txs) = Len(Value(block).hashes)

\* Whether the transaction at a place of the chain is at no other place: Tendermint's index has
\* one result for each hash.
InOnePlace(h, i) ==
  \A g \in DOMAIN committed.blocks : \A j \in DOMAIN committed.blocks[g] :
    committed.blocks[g][j].tx = committed.blocks[h][i].tx => <<g, j>> = <<h, i>>

NoRepeats == \A h \in DOMAIN committed.blocks : \A i \in DOMAIN committed.blocks[h] : InOnePlace(h, i)

\* Whatever a node has in its watch store, and with or without one, a committed transaction is
\* found in its block, its receipt says what became of it, and its block, which every node
\* serves, lists it; a pending one is found without a block (GetTransactionByHash,
\* GetTransactionReceipt, GetBlockByNumber and their fallbacks).
AnswersAgree ==
  \A tm \in {v \in backend!TmViews : v.indexed = committed.height} :
    /\ \A t \in Range(mempool) : IsFound(GetTransactionByHash(tm, t))
    /\ \A h \in {x \in DOMAIN committed.blocks : Regular(x)} :
         LET block == GetBlockByNumber(tm, h) IN
         /\ IsFound(block)
         /\ h \in committed.hashes =>
              /\ IsFound(GetBlockByHash(tm, h))
              /\ GetBlockTransactionCountByHash(tm, h) = GetBlockTransactionCountByNumber(tm, h)
         /\ \A i \in DOMAIN committed.blocks[h] :
              LET t == committed.blocks[h][i].tx
                  r == Value(backend!Tx(tm, t)).result
                  receipt == GetTransactionReceipt(tm, t)
              IN  IsEthTx(t) /\ InOnePlace(h, i) =>
                    /\ Value(GetTransactionByHash(tm, t)).height = h
                    /\ r.kind # "notAccepted" =>
                         /\ t \in Range(Value(block).hashes)
                         /\ \E idx \in 0 .. i - 1 :
                              LET found == GetTransactionByBlockNumberAndIndex(tm, h, idx) IN
                              IsFound(found) /\ Value(found).tx = t
                         /\ h \in committed.hashes =>
                              /\ t \in Range(Value(GetBlockByHash(tm, h)).hashes)
                              /\ Value(GetTransactionByBlockHashAndIndex(tm, h, i - 1)).tx = t
                    /\ Value(receipt).height = h
                    /\ Value(receipt).status = 1 <=> r.kind = "executed"
                    /\ Value(receipt).gasUsed = r.used /\ Value(receipt).logs = r.logs
                    /\ Value(receipt).cumulative >= r.used
                    /\ IsFound(GetCode(t, h)) <=> Value(receipt).contract # {}

\* The logs of the blocks from .. to, as the chain has them.
LogsOfChain(from, to, c) ==
  LET done == SelectSeq(committed.results, LAMBDA r : r.height \in from .. to /\ r.logs > 0
                /\ backend!Matches([address |-> r.tx.to, topics |-> <<r.tx.from>>], c.addresses, c.topics))
  IN  [i \in DOMAIN done |-> <<done[i].tx, done[i].height>>]

\* Whether the committed state has the hashes of the blocks of every indexed section: the
\* indexer works with the state of the block that is being executed.
IndexCommitted == \A n \in 1 .. indexer.storedSections * BloomBitsBlocks - 1 : n + StartBlockHeight \in committed.hashes

\* eth_getLogs over blocks up to the one that eth_blockNumber names, or over one block by its
\* hash, answers with exactly the matching logs of these blocks in their order, or with an error:
\* wherever the range lies to the sections of the bloom index, whatever the indexer is doing, and
\* after any crash.  It answers where the range is within the limit and the committed state has
\* the hashes of its blocks and of the index.  While Tendermint has not indexed the last block,
\* logs of that block may be missing, and nothing else.  No proposer has put a transaction into
\* the chain twice (Filter.Logs, indexedLogs, unindexedLogs, ProcessSection, BlockNumber).
LogsExact ==
  conf.span # 0 /\ NoRepeats => \A tm \in backend!TmViews, c \in Criteria :
    LET Exact(answer, from, to) ==
          LET logs == Value(answer)
              last == IF to > tm.indexed THEN tm.indexed ELSE to
          IN  answer.ok => [i \in DOMAIN logs |-> <<logs[i].tx, logs[i].height>>] = LogsOfChain(from, last, c)
    IN
    /\ \A from \in 1 .. BlockNumber(tm) : \A to \in from .. BlockNumber(tm) :
         \A answer \in {GetLogs(tm, [from |-> from, to |-> to, addresses |-> c.addresses, topics |-> c.topics])} :
         /\ Exact(answer, from, to)
         /\ (backend!RangeAccepted(from, to) /\ to \in committed.hashes /\ IndexCommitted) => answer.ok
    /\ \A h \in committed.hashes :
         \A answer \in {backend!BlockHashLogs(tm, h, c)} : answer.ok /\ Exact(answer, h, h)
=============================================================================
