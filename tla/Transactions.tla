---------------------------- MODULE Transactions ----------------------------
(***************************************************************************)
(* A node's life of Ethereum transactions: CheckTx into the mempool, and   *)
(* blocks of BeginBlock, DeliverTx (ante decorators, handler, state        *)
(* transition, refund), EndBlock and commit.  A node may crash at any      *)
(* moment and execute the same block again.                                *)
(*                                                                         *)
(* What the interpreter does to contracts is the subject of StateDB; here  *)
(* an execution is its outcome: what it uses of the gas, whether it        *)
(* succeeds and how many logs it leaves.  BaseApp, the mempool and the     *)
(* SDK's decorators are not part of the repository and are modelled from   *)
(* the way it uses them.                                                   *)
(***************************************************************************)
EXTENDS AnteHandler, Watcher, Indexer, Sums

CONSTANTS Txs,           \* the transactions of the instance
          Confs,         \* node configurations: recheck, sort, watch, bloom, span of log queries
          InitialCoins,  \* of every sender
          MaxHeight, MaxBlockTxs, MaxMempool, MaxCrashes

ASSUME TxAssumption ==
  /\ Txs \subseteq Transaction
  /\ Confs \subseteq [recheck : BOOLEAN, sort : BOOLEAN, watch : BOOLEAN, bloom : BOOLEAN, span : Int]
  /\ InitialCoins \in [Senders -> Nat]

\* The configuration and the phase of the block; what Tendermint knows of the current block.
VARIABLES conf, phase, decided, position, closed, crashes
\* The multi-store: committed and while a block executes; the check state and the mempool.
VARIABLES committed, deliver, check, mempool
\* Counters in the memory of the EVM keeper.
VARIABLES keeper
\* Transactions that this node's CheckTx has accepted (history).
VARIABLE admitted

blockVars == <<phase, decided, position, closed>>
vars == <<conf, blockVars, crashes, committed, deliver, check, mempool, keeper, admitted,
          watchVars, indexVars>>

\* The counters start at zero; the bloom of a block is a set of transactions.
NewKeeper == [TxCount |-> 0, LogSize |-> 0, Bloom |-> {}]

\* The blocks themselves are in Tendermint's block store.
Genesis ==
  [height |-> 0, collector |-> 0, contracts |-> 0, hashes |-> {}, blooms |-> <<>>, results |-> <<>>, blocks |-> <<>>,
   accs |-> [s \in Senders |-> [found |-> InitialCoins[s] > 0, seq |-> 0, coins |-> InitialCoins[s]]]]

Init ==
  /\ conf \in Confs
  /\ phase = "idle" /\ decided = <<>> /\ position = 1 /\ closed = FALSE /\ crashes = 0
  /\ committed = Genesis /\ deliver = Genesis
  /\ check = Genesis.accs /\ mempool = <<>> /\ admitted = {}
  /\ keeper = NewKeeper
  /\ watcher = NewWatcher /\ writers = Empty /\ watchStore = Empty
  /\ indexDB = EmptyIndexDB /\ sections = Empty
  /\ indexer = [storedSections |-> 0, processing |-> FALSE]

----------------------------------------------------------------------------
\* The mempool.

PendingOf(pool, s) == SelectSeq(pool, LAMBDA t : t.from = s)
GetUserPendingTxsCnt(s) == Len(PendingOf(mempool, s))

\* With sorting on, a transaction takes the place of a cheaper one of the same nonce.
Insert(pool, t) ==
  LET same == {i \in DOMAIN pool : pool[i].from = t.from /\ pool[i].nonce = t.nonce}
  IN  IF conf.sort /\ same # {}
      THEN [i \in DOMAIN pool |-> IF i \in same /\ pool[i].price < t.price THEN t ELSE pool[i]]
      ELSE Append(pool, t)

Accepts(t) ==
  /\ t.kind = "eth" /\ t \notin Range(mempool)
  /\ Len(mempool) < MaxMempool
  /\ AnteAccepts("check", t, check, GetUserPendingTxsCnt(t.from), conf)

CheckTx(t) ==
  /\ Accepts(t)
  /\ check' = AnteHandle("check", t, check, conf)
  /\ mempool' = Insert(mempool, t)
  /\ admitted' = admitted \cup {t}
  /\ UNCHANGED <<conf, blockVars, crashes, committed, deliver, keeper, watchVars, indexVars>>

\* Mutant: a transaction that fails its recheck stays.
RecheckKeeping(st, t) ==
  IF AnteAccepts("recheck", t, st.accs, 0, conf)
  THEN [pool |-> Append(st.pool, t), accs |-> AnteHandle("recheck", t, st.accs, conf)]
  ELSE [st EXCEPT !.pool = Append(@, t)]

\* Recheck of the pool after a block: the pool that stays, and the check state it leaves.
RecheckOne(st, t) ==
  IF AnteAccepts("recheck", t, st.accs, 0, conf)
  THEN [pool |-> Append(st.pool, t), accs |-> AnteHandle("recheck", t, st.accs, conf)]
  ELSE st

Recheck(pool, accs) ==
  LET After[n \in 0 .. Len(pool)] ==
        IF n = 0 THEN [pool |-> <<>>, accs |-> accs] ELSE RecheckOne(After[n - 1], pool[n])
  IN  After[Len(pool)]

----------------------------------------------------------------------------
\* Blocks.

LastBlockHashKnown(height) == height > 1

\* Mutant: the counters are not reset.
BeginBlockCounting ==
  /\ phase = "idle" /\ committed.height < MaxHeight
  /\ phase' = "block" /\ position' = 1
  /\ deliver' = [committed EXCEPT !.hashes = (@ \cup {committed.height}) \ {0}]
  /\ watcher' = IF LastBlockHashKnown(committed.height + 1) /\ conf.watch
                THEN NewHeight(committed.height + 1) ELSE watcher
  /\ UNCHANGED <<conf, decided, closed, crashes, committed, check, mempool, keeper, admitted, writers,
                 watchStore, indexVars>>

BeginBlock ==
  /\ phase = "idle" /\ committed.height < MaxHeight
  /\ phase' = "block" /\ position' = 1
  /\ IF LastBlockHashKnown(committed.height + 1)
     THEN /\ deliver' = [committed EXCEPT !.hashes = @ \cup {committed.height}]
          /\ keeper' = NewKeeper
          /\ watcher' = IF conf.watch THEN NewHeight(committed.height + 1) ELSE watcher
     ELSE /\ deliver' = committed
          /\ UNCHANGED <<keeper, watcher>>
  /\ UNCHANGED <<conf, decided, closed, crashes, committed, check, mempool, admitted, writers,
                 watchStore, indexVars>>

EndBlock ==
  LET height == committed.height + 1
      batch == SaveBlock(watcher, keeper.Bloom)
  IN
  /\ phase = "block" /\ position > Len(decided)
  /\ phase' = "ended" /\ closed' = TRUE
  /\ deliver' = [deliver EXCEPT !.height = height, !.blooms = Append(@, keeper.Bloom),
                                !.blocks = Append(@, decided)]
  /\ IF conf.watch THEN watcher' = batch /\ Commit(batch)
                   ELSE UNCHANGED <<watcher, writers>>
  /\ sections' = IF conf.bloom /\ StartsSection(height)
                 THEN Put(sections, height, NewSection(height)) ELSE sections
  /\ UNCHANGED <<conf, decided, position, crashes, committed, check, mempool, keeper, admitted,
                 watchStore, indexer, indexDB>>

\* The multi-store is written; the check state starts again from it, and the mempool drops the
\* transactions of the block.
CommitBlock ==
  LET block == {decided[i].tx : i \in DOMAIN decided}
      left == SelectSeq(mempool, LAMBDA t : t \notin block)
      rechecked == IF conf.recheck THEN Recheck(left, deliver.accs)
                                   ELSE [pool |-> left, accs |-> deliver.accs]
  IN
  /\ phase = "ended"
  /\ committed' = deliver
  /\ check' = rechecked.accs /\ mempool' = rechecked.pool
  /\ phase' = "idle" /\ decided' = <<>> /\ position' = 1 /\ closed' = FALSE
  /\ UNCHANGED <<conf, crashes, deliver, keeper, admitted, watchVars, indexVars>>

----------------------------------------------------------------------------
\* DeliverTx.

\* Outcomes of the state transition.  The intrinsic gas is consumed first; where the limit is
\* below it the meter panics.  Gas that the interpreter used is consumed once it has returned:
\* a creation or call that is refused (disabled, not in the whitelist, blocked contract) and an
\* unknown panic cost the intrinsic gas.
Outcomes(t, coins) ==
  LET cost == IntrinsicGas(t, TRUE)
      Outcome(k, used, logs) == [kind |-> k, used |-> used, logs |-> logs]
  IN  IF t.gas < cost
      THEN {Outcome("outOfGas", cost, 0)}
      ELSE {Outcome(k, cost, 0) : k \in {"refused", "panic"}}
           \cup {Outcome("failed", used, 0) : used \in cost .. t.gas}
           \cup {Outcome("executed", used, logs) : used \in {u \in cost .. t.gas : coins >= t.amount},
                                                   logs \in 0 .. 1}

\* The handler saves a receipt except after a panic; saving it panics where the watcher has
\* made no map yet.
SavesReceipt(o) == o.kind \in {"refused", "failed", "executed"}
ReceiptPanics(o) == conf.watch /\ SavesReceipt(o) /\ ~watcher.made

ResultKind(o) == IF ReceiptPanics(o) THEN "panic" ELSE o.kind

Transfer(ms, t) ==
  LET paid == [ms.accs EXCEPT ![t.from].coins = @ - t.amount] IN
  IF t.to = Nobody
  THEN [ms EXCEPT !.accs = paid, !.contracts = @ + t.amount]
  ELSE [ms EXCEPT !.accs = [paid EXCEPT ![t.to] = [found |-> TRUE, seq |-> @.seq, coins |-> @.coins + t.amount]]]

\* Mutant: the refund is not taken from the fee collector.
RefundMinted(ms, t, used) == [ms EXCEPT !.accs[t.from].coins = @ + GasRefund(t, used)]

Refund(ms, t, used) ==
  [ms EXCEPT !.accs[t.from].coins = @ + GasRefund(t, used), !.collector = @ - GasRefund(t, used)]

Record(ms, t, kind, used, index, firstLog, logs) ==
  [ms EXCEPT !.results = Append(@, [tx |-> t, kind |-> kind, height |-> committed.height + 1,
     used |-> used, index |-> index, firstLog |-> firstLog, logs |-> logs])]

\* The keeper's counters move outside of the store: the transaction count at once, the logs once
\* the transition has succeeded.
Counted(o, t) ==
  [keeper EXCEPT !.TxCount = @ + 1,
                 !.LogSize = IF o.kind = "executed" THEN @ + o.logs ELSE @,
                 !.Bloom = IF o.kind = "executed" /\ o.logs > 0 THEN @ \cup {t} ELSE @]

Watched(o, t) ==
  LET saved == SaveEthereumTx(watcher, t, keeper.TxCount)
      status == IF o.kind = "executed" THEN 1 ELSE 0
      created == o.kind = "executed" /\ t.to = Nobody
      receipt == SaveTransactionReceipt(saved, status, t, keeper.TxCount, o.logs, o.used, created)
  IN  IF ~SavesReceipt(o) \/ ReceiptPanics(o) THEN saved
      ELSE IF created THEN SaveContractCode(receipt, t)
      ELSE receipt

\* A MsgEthereumTx: charged by the ante handler, executed on a copy of the store that is kept
\* only after success, refunded in any case.
handleMsgEthereumTx(t, o) ==
  LET charged == [deliver EXCEPT !.accs = AnteHandle("deliver", t, @, conf), !.collector = @ + Fee(t)]
      kind == ResultKind(o)
      executed == IF kind = "executed" THEN Transfer(charged, t) ELSE charged
  IN
  /\ deliver' = Record(Refund(executed, t, o.used), t, kind, o.used, keeper.TxCount, keeper.LogSize,
                       IF kind = "executed" THEN o.logs ELSE 0)
  /\ keeper' = Counted(o, t)
  /\ watcher' = IF conf.watch THEN Watched(o, t) ELSE watcher

\* A StdTx with a MsgEthermint pays its fee; the handler refuses the message and nothing is refunded.
handleMsgEthermint(t) ==
  /\ deliver' = Record([deliver EXCEPT !.collector = @ + Fee(t),
                          !.accs[t.from] = [found |-> TRUE, seq |-> @.seq + 1, coins |-> @.coins - Fee(t)]],
                       t, "notAllowed", t.gas, 0, 0, 0)
  /\ UNCHANGED <<keeper, watcher>>

NotAccepted == [kind |-> "notAccepted", used |-> 0, logs |-> 0]

Deliver(t, o) ==
  \/ /\ t.kind = "eth" /\ AnteAccepts("deliver", t, deliver.accs, 0, conf)
     /\ o \in Outcomes(t, deliver.accs[t.from].coins - Fee(t))
     /\ handleMsgEthereumTx(t, o)
  \/ /\ t.kind = "ethermint" /\ StdAccepts(t, deliver.accs)
     /\ o = NotAccepted
     /\ handleMsgEthermint(t)
  \/ /\ t.kind = "eth" /\ ~AnteAccepts("deliver", t, deliver.accs, 0, conf)
     /\ o = NotAccepted
     /\ UNCHANGED <<deliver, keeper, watcher>>

AllOutcomes(t) == Outcomes(t, t.amount) \cup {NotAccepted}

\* Any proposer may put any transaction into a block; a block that is executed again is the same.
DeliverTx(t, o) ==
  /\ phase = "block" /\ position <= MaxBlockTxs
  /\ IF position <= Len(decided)
     THEN decided[position] = [tx |-> t, outcome |-> o] /\ UNCHANGED decided
     ELSE ~closed /\ decided' = Append(decided, [tx |-> t, outcome |-> o])
  /\ Deliver(t, o)
  /\ position' = position + 1
  /\ UNCHANGED <<conf, phase, closed, crashes, committed, check, mempool, admitted, writers, watchStore,
                 indexVars>>

----------------------------------------------------------------------------
\* Everything in memory is lost; what the goroutines have written stays.
Crash ==
  /\ crashes < MaxCrashes /\ crashes' = crashes + 1
  /\ phase' = "idle" /\ position' = 1
  /\ deliver' = committed /\ check' = committed.accs /\ mempool' = <<>>
  /\ keeper' = NewKeeper
  /\ watcher' = NewWatcher /\ writers' = Empty
  /\ indexer' = InitIndexer /\ sections' = Empty
  /\ UNCHANGED <<conf, decided, closed, committed, admitted, watchStore, indexDB>>

WatcherStep ==
  /\ \E h \in DOMAIN writers : WriteNext(h)
  /\ UNCHANGED <<conf, blockVars, crashes, committed, deliver, check, mempool, keeper, admitted, indexVars>>

IndexerStep ==
  /\ ProcessSection(deliver.hashes, deliver.blooms)
  /\ UNCHANGED <<conf, blockVars, crashes, committed, deliver, check, mempool, keeper, admitted, watchVars>>

Next ==
  \/ \E t \in Txs : CheckTx(t) \/ \E o \in AllOutcomes(t) : DeliverTx(t, o)
  \/ BeginBlock \/ EndBlock \/ CommitBlock \/ Crash
  \/ WatcherStep \/ IndexerStep

\* The goroutines of the watcher and of the indexer block on nothing: the scheduler runs them on.
Fairness == WF_vars(WatcherStep) /\ WF_vars(IndexerStep)

Spec == Init /\ [][Next]_vars /\ Fairness

----------------------------------------------------------------------------
\* Properties.

\* The nonces with which transactions of an account have run through DeliverTx are the numbers
\* below its sequence, each once and in order, whatever became of their messages, whatever is
\* in the check state, and after any crash and replay (NonceVerificationDecorator,
\* IncrementSenderSequenceDecorator, TransitionDb's nonces).
NonceUsedOnce ==
  LET done == deliver.results IN
  /\ \A i, j \in DOMAIN done : i < j /\ done[i].tx.from = done[j].tx.from => done[i].tx.nonce < done[j].tx.nonce
  /\ \A s \in Senders : {done[i].tx.nonce : i \in {k \in DOMAIN done : done[k].tx.from = s}}
                          = 0 .. deliver.accs[s].seq - 1

GasPaid(r) == IF r.used < r.tx.gas THEN r.used ELSE r.tx.gas
Paid(r) == r.tx.price * GasPaid(r)
Sent(r) == IF r.kind = "executed" THEN r.tx.amount ELSE 0

\* Everybody has paid price times gas used for each of their transactions, never more than the
\* limit, whether its message succeeded, failed, was refused or panicked, has sent the amount of
\* the successful ones, and the fee collector holds what was paid (EthGasConsumeDecorator,
\* TransitionDb's gas meters, GasRefund).
PaidForGasUsed ==
  LET done == deliver.results
      paid == [i \in DOMAIN done |-> Paid(done[i])]
      sent == [i \in DOMAIN done |-> Sent(done[i])]
      From(s) == {i \in DOMAIN done : done[i].tx.from = s}
      To(s) == {i \in DOMAIN done : done[i].tx.to = s}
  IN
  /\ deliver.collector = SumOf(paid, DOMAIN done)
  /\ \A s \in Senders :
       /\ deliver.accs[s].coins >= 0
       /\ deliver.accs[s].coins = InitialCoins[s] - SumOf(paid, From(s)) - SumOf(sent, From(s)) + SumOf(sent, To(s))

\* A transaction that CheckTx accepted has the gas for its intrinsic cost when it is delivered:
\* the ante handler and TransitionDb compute that cost under different rules.
AdmittedReachesEvm ==
  \A i \in DOMAIN deliver.results : deliver.results[i].kind = "outOfGas" => deliver.results[i].tx \notin admitted

\* The first block of a chain leaves the watcher without its map: see ReceiptPanics.
Regular(h) == conf.watch => h > 1

\* The counters in the keeper's memory number the transactions and the logs of a block without
\* gap or repetition, and the bloom of the block is that of the logs of its successful
\* transactions, although the counters are not part of the store that a failed message rolls
\* back (handleMsgEthereumTx, BeginBlock, EndBlock).
BlockLogsExact ==
  LET done == deliver.results
      logs == [i \in DOMAIN done |-> done[i].logs]
      Of(h) == {i \in DOMAIN done : done[i].height = h /\ done[i].tx.kind = "eth"}
      Before(i) == {j \in Of(done[i].height) : j < i}
  IN
  \A h \in {x \in 1 .. committed.height + 1 : Regular(x)} :
    /\ \A i \in Of(h) : done[i].index = Cardinality(Before(i)) /\ done[i].firstLog = SumOf(logs, Before(i))
    /\ h \in DOMAIN deliver.blooms => deliver.blooms[h] = {done[i].tx : i \in {j \in Of(h) : done[j].logs > 0}}

\* A transaction or receipt in the watch store never changes: no transaction is executed in two
\* blocks, and a block that is executed again after a crash writes the same.
ReceiptIsFinal ==
  [][\A k \in DOMAIN watchStore : k[1] \in {"tx", "receipt"} => watchStore'[k] = watchStore[k]]_watchStore

\* A node that does not crash and whose chain pauses comes to serve every block committed so far
\* from the watch store (Commit's goroutines).
BlockServed ==
  (conf.watch /\ phase = "idle")
    ~> (crashes > 0 \/ phase # "idle" \/ \A h \in 2 .. committed.height : <<"block", h>> \in DOMAIN watchStore)

\* "Enable the fast query mode for rpc queries" (client/flags.go): the option changes what
\* queries read, not what becomes of a transaction.
FastQueryKeepsResults ==
  \A i \in 1 .. position - 1 : decided[i].outcome.kind = "executed" =>
    \E j \in DOMAIN deliver.results :
      deliver.results[j].tx = decided[i].tx /\ deliver.results[j].kind = "executed"
=============================================================================
