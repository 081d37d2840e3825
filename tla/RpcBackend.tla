----------------------------- MODULE RpcBackend -----------------------------
(***************************************************************************)
(* The backend of the JSON-RPC server, the log filters that use it, and    *)
(* the queries of the evm module underneath.                               *)
(*                                                                         *)
(* A query sees several stores that move at different times: the           *)
(* application's last commit, Tendermint's blocks (a block is stored       *)
(* before it is executed), Tendermint's index of transaction results       *)
(* (written after the commit), the watch store and the bloom index.  tm is *)
(* what Tendermint has at the moment of the query.                         *)
(***************************************************************************)
EXTENDS Transactions, SequencesExt

wrappedBackend == INSTANCE WatchQuerier WITH sw <- conf.watch

\* Between two blocks the next one may be stored already.
TmViews ==
  {tm \in [last : {committed.height, committed.height + 1}, indexed : {committed.height, committed.height - 1}] :
     /\ phase # "idle" => tm.last = committed.height + 1
     /\ tm.indexed >= 0}

\* Tendermint's RPC client.
TxsOf(block) == [i \in DOMAIN block |-> block[i].tx]

Block(tm, height) ==
  IF height \notin 1 .. tm.last THEN Error
  ELSE Found(TxsOf(IF height <= committed.height THEN committed.blocks[height] ELSE decided))

\* The index keeps the last result of a transaction.
Tx(tm, t) ==
  LET At(h) == {i \in DOMAIN committed.blocks[h] : committed.blocks[h][i].tx = t}
      places == {h \in 1 .. tm.indexed : At(h) # {}}
      p == <<Max(places), Max(At(Max(places)))>>
      accepted == SelectSeq(committed.results, LAMBDA r : r.tx = t /\ r.height = p[1])
      refused == [kind |-> "notAccepted", used |-> 0, logs |-> 0]
      result == IF committed.blocks[p[1]][p[2]].outcome.kind = "notAccepted" THEN refused
                ELSE [kind |-> accepted[1].kind, used |-> accepted[1].used, logs |-> accepted[1].logs]
  IN  IF places = {} THEN Error ELSE Found([height |-> p[1], index |-> p[2] - 1, result |-> result])

----------------------------------------------------------------------------
\* Queries of the evm module, at the last committed height.

queryHashToHeight(hash) == IF hash \in committed.hashes THEN Found(hash) ELSE Error

\* A height without a hash is answered with the empty hash.
queryHeightToHash(height) == IF height \in committed.hashes THEN height ELSE NoHash

queryBlockBloom(height) == IF height \in DOMAIN committed.blooms THEN committed.blooms[height] ELSE {}

queryBalance(s) == committed.accs[s].coins

----------------------------------------------------------------------------
\* Blocks.

Decrease(n) == IF n > 0 THEN n - 1 ELSE n

LatestBlockNumberOf(tm) == tm.last

BlockNumber(tm) ==
  LET latest == wrappedBackend!GetLatestBlockNumber IN
  Decrease(IF latest.ok THEN Value(latest) ELSE LatestBlockNumberOf(tm))

HeightOf(tm, number) == IF number <= 0 THEN BlockNumber(tm) ELSE number

BlockFromTendermint(tm, height) ==
  LET block == Block(tm, height) IN
  IF block.ok THEN Found(EthBlockFromTendermint(height, Value(block), queryBlockBloom(height))) ELSE Nil

GetBlockByNumber(tm, number) ==
  LET fast == wrappedBackend!GetBlockByNumber(number) IN
  IF fast.ok THEN fast ELSE BlockFromTendermint(tm, HeightOf(tm, number))

GetBlockByHash(tm, hash) ==
  LET fast == wrappedBackend!GetBlockByHash(hash)
      height == queryHashToHeight(hash)
  IN  IF fast.ok THEN fast
      ELSE IF height.ok THEN BlockFromTendermint(tm, Value(height)) ELSE Error

HeaderByNumber(tm, number) ==
  LET height == HeightOf(tm, number) IN
  IF Block(tm, height).ok THEN Found([number |-> height, bloom |-> queryBlockBloom(height)]) ELSE Error

HeaderByHash(tm, hash) ==
  LET height == queryHashToHeight(hash) IN
  IF height.ok /\ Block(tm, Value(height)).ok
  THEN Found([number |-> Value(height), bloom |-> queryBlockBloom(Value(height))]) ELSE Error

GetBlockHashByHeight(height) == queryHeightToHash(height)

----------------------------------------------------------------------------
\* Transactions of the mempool.

PendingTransactions ==
  LET eth == SelectSeq(mempool, IsEthTx) IN [i \in DOMAIN eth |-> NewTransaction(eth[i], 0, 0)]

PendingTransactionCnt == Len(mempool)

UserPendingTransactionsCnt(s) == GetUserPendingTxsCnt(s)

UserPendingTransactions(s) == [i \in DOMAIN PendingOf(mempool, s) |-> NewTransaction(PendingOf(mempool, s)[i], 0, 0)]

PendingTransactionsByHash(t) == IF t \in Range(mempool) THEN Found(NewTransaction(t, 0, 0)) ELSE Error

----------------------------------------------------------------------------
\* Logs.  A log carries the address that was called and its sender as its only topic.

DecodeLogs(t, r) ==
  [i \in 1 .. r.result.logs |-> [tx |-> t, height |-> r.height, address |-> t.to, topics |-> <<t.from>>]]

\* The data of a result that failed cannot be decoded.
Decodes(r) == r.result.kind = "executed"

GetTransactionLogs(tm, t) ==
  LET r == Tx(tm, t) IN
  IF r.ok /\ Decodes(Value(r)) THEN Found(DecodeLogs(t, Value(r))) ELSE Error

\* Transactions without an indexed or decodable result are passed over.
GetLogs(tm, hash) ==
  LET height == queryHashToHeight(hash)
      block == Block(tm, Value(height))
      Add(logs, t) == LET found == GetTransactionLogs(tm, t) IN IF found.ok THEN logs \o Value(found) ELSE logs
  IN  IF height.ok /\ block.ok THEN Found(FoldLeft(Add, <<>>, Value(block))) ELSE Error

BloomLookup(bloom, x) == \E t \in bloom : x \in {t.to, t.from}

\* Of several topics only the last one decides.
bloomFilter(bloom, addresses, topics) ==
  /\ addresses = {} \/ \E a \in addresses : BloomLookup(bloom, a)
  /\ topics # <<>> => Last(topics) = {} \/ \E x \in Last(topics) : BloomLookup(bloom, x)

Matches(log, addresses, topics) ==
  /\ addresses = {} \/ log.address \in addresses
  /\ Len(topics) <= Len(log.topics)
  /\ \A i \in DOMAIN topics : topics[i] = {} \/ log.topics[i] \in topics[i]

FilterLogs(logs, addresses, topics) == SelectSeq(logs, LAMBDA log : Matches(log, addresses, topics))

blockLogs(tm, header, hash, c) ==
  LET logs == GetLogs(tm, hash) IN
  IF ~bloomFilter(header.bloom, c.addresses, c.topics) THEN Found(<<>>)
  ELSE IF logs.ok THEN Found(FilterLogs(Value(logs), c.addresses, c.topics)) ELSE Error

checkMatches(tm, hash, c) ==
  LET logs == GetLogs(tm, hash) IN
  IF logs.ok THEN Found(FilterLogs(Value(logs), c.addresses, c.topics)) ELSE Error

\* Answers for the numbers from begin to end, one after the other; one that fails ends it.
Collect(answers, begin, end) ==
  IF \A number \in begin .. end : answers[number].ok
  THEN Found(FlattenSeq([i \in 1 .. end - begin + 1 |-> Value(answers[begin + i - 1])])) ELSE Error

\* The handlers of StartBloomHandlers read the vectors of a section under the hash of its last block.
SectionBits(section) ==
  LET key == <<section, GetBlockHashByHeight((section + 1) * BloomBitsBlocks - 1 + StartBlockHeight)>> IN
  IF key \in DOMAIN indexDB.bits THEN Found(indexDB.bits[key]) ELSE Error

\* The matcher asks for vectors only where the filter has a clause; every clause must match.
Matcher(number, c) ==
  LET clauses == (IF c.addresses = {} THEN {} ELSE {c.addresses})
                   \cup {c.topics[i] : i \in {j \in DOMAIN c.topics : c.topics[j] # {}}}
      bits == SectionBits((number - StartBlockHeight) \div BloomBitsBlocks)
  IN  IF clauses = {} THEN Found(TRUE)
      ELSE IF ~bits.ok THEN Error
      ELSE Found(\A clause \in clauses : \E x \in clause : BloomLookup(Value(bits)[number], x))

indexedLogs(tm, c, begin, end) ==
  LET At(number) ==
        LET match == Matcher(number, c) IN
        IF ~match.ok THEN Error
        ELSE IF Value(match) THEN checkMatches(tm, GetBlockHashByHeight(number), c)
        ELSE Found(<<>>)
  IN  Collect([number \in begin .. end |-> At(number)], begin, end)

unindexedLogs(tm, c, begin, end) ==
  LET At(number) ==
        LET header == HeaderByNumber(tm, number) IN
        IF header.ok THEN blockLogs(tm, Value(header), GetBlockHashByHeight(number), c) ELSE Error
  IN  Collect([number \in begin .. end |-> At(number)], begin, end)

\* Mutant: the block after the last indexed one is skipped.
IndexedEndBeyond(indexed, to) == IF indexed > to THEN to ELSE indexed

\* The last block that the index answers for.
IndexedEnd(indexed, to) == IF indexed > to THEN to ELSE indexed - 1

Resolve(head, number) == IF number = -1 THEN head ELSE number

RangeAccepted(from, to) ==
  /\ from > StartBlockHeight /\ to > StartBlockHeight
  /\ conf.span # 0
  /\ conf.span > 0 => to - from <= conf.span

Logs(tm, c) ==
  LET head == HeaderByNumber(tm, LatestBlockNumber)
      from == Resolve(Value(head).number, c.from)
      to == Resolve(Value(head).number, c.to)
      indexed == indexer.storedSections * BloomBitsBlocks + StartBlockHeight
      first == indexedLogs(tm, c, from, IndexedEnd(indexed, to))
      rest == unindexedLogs(tm, c, IndexedEnd(indexed, to) + 1, to)
  IN  IF ~head.ok \/ ~RangeAccepted(from, to) THEN Error
      ELSE IF indexed <= from THEN unindexedLogs(tm, c, from, to)
      ELSE IF first.ok /\ rest.ok THEN Found(Value(first) \o Value(rest)) ELSE Error

\* A filter for one block.
BlockHashLogs(tm, hash, c) ==
  LET header == HeaderByHash(tm, hash) IN
  IF header.ok THEN blockLogs(tm, Value(header), hash, c) ELSE Error
=============================================================================
