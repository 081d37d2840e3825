--------------------------- MODULE MCTransactions ---------------------------
(***************************************************************************)
(* Instance of Transactions for TLC.  A behaviour follows one of several   *)
(* scenarios, chosen at its start: the mempool and its modes, requests     *)
(* that send, the watcher, the indexer.  A scenario fixes the              *)
(* configuration, the transactions that occur, the number of blocks,       *)
(* whether there is a mempool and the arguments of requests.               *)
(***************************************************************************)
EXTENDS RpcSend

CONSTANTS s1, s2, r1, r2, Scenarios
VARIABLE scenario

Eth(from, nonce, gas, price, amount, to, payload) ==
  [kind |-> "eth", from |-> from, nonce |-> nonce, gas |-> gas, price |-> price, amount |-> amount,
   to |-> to, payload |-> payload, signed |-> ChainID]

Pay == Eth(s1, 0, 2, 1, 2, s2, 0)        \* a transfer to an account that may not exist yet
PayMore == Eth(s1, 0, 2, 2, 1, s2, 0)    \* the same nonce at a higher price
Create == Eth(s1, 1, 3, 1, 0, Nobody, 1)
Call == Eth(s1, 1, 3, 1, 1, s1, 1)
Tight == Eth(s1, 0, 2, 1, 1, s1, 1)      \* limit between the two intrinsic costs
Short == Eth(s2, 0, 1, 1, 0, Nobody, 0)  \* limit below the intrinsic cost
Back == Eth(s2, 0, 1, 1, 0, s1, 0)
Old == [Back EXCEPT !.signed = 0]
Foreign == [Call EXCEPT !.signed = ChainID + 1]
Ethermint == [Back EXCEPT !.kind = "ethermint"]

\* What requests make of their arguments.
SentTxs == {Eth(s1, nonce, gas, price, 0, s2, 0) : nonce \in 0 .. 2, gas \in 1 .. 2, price \in 1 .. 2}

MCTxs == {Pay, PayMore, Create, Call, Tight, Short, Back, Old, Foreign, Ethermint} \cup SentTxs
MCInitialCoins == [s \in {s1, s2} |-> IF s = s1 THEN 7 ELSE 0]

\* Requests at two prices with open nonce and one without.
Args(nonce, gas, price) ==
  [from |-> s1, nonce |-> nonce, gas |-> gas, price |-> price, amount |-> 0, to |-> s2, payload |-> 0]
MCSendTxArgs == {Args(<<>>, <<1>>, 1), Args(<<>>, <<>>, 2), Args(<<1>>, <<1>>, 1)}

Raw == Eth(s1, 0, 1, 2, 0, s2, 0)

Criterion(addresses, topics) == [addresses |-> addresses, topics |-> topics]
MCCriteria == {Criterion({}, <<>>), Criterion({s1}, <<{s1}>>)}

\* The span of log queries: 0 refuses them, a negative one sets no limit.
Conf(recheck, sort, watch, bloom, span) ==
  [recheck |-> recheck, sort |-> sort, watch |-> watch, bloom |-> bloom, span |-> span]
MCConfs == {Conf(recheck, sort, watch, bloom, span) :
              recheck, sort, watch, bloom \in BOOLEAN, span \in {-1, 0, 2}}

AllKinds == {"outOfGas", "refused", "panic", "failed", "executed", "notAccepted"}

\* The modes of the mempool; where it rechecks, sorting changes nothing.
Pools ==
  LET Pool(c, txs, kinds) ==
        [conf |-> c, pool |-> TRUE, txs |-> txs, kinds |-> kinds \cup {"executed", "notAccepted"},
         logs |-> {0}, least |-> ~c.sort, first |-> 1, crashFrom |-> 1, height |-> 2, crashes |-> 0, sends |-> FALSE]
  IN  {Pool(Conf(TRUE, FALSE, FALSE, FALSE, 0), {Pay, PayMore, Call, Tight}, {"outOfGas"}),
       Pool(Conf(FALSE, FALSE, FALSE, FALSE, 0), {Pay, Call, Old, Foreign}, {}),
       Pool(Conf(FALSE, TRUE, FALSE, FALSE, 0), {Pay, PayMore, Call}, {})}

\* The watcher: every outcome in two blocks; three overlapping blocks and a crash, where only a
\* creation may panic.
Watches ==
  LET watch == [conf |-> Conf(TRUE, FALSE, TRUE, FALSE, 0), pool |-> FALSE, txs |-> {Pay, Create, Ethermint},
                kinds |-> AllKinds, logs |-> {1}, least |-> TRUE, first |-> 1, crashFrom |-> 1, height |-> 2, crashes |-> 0,
                sends |-> FALSE]
  IN  {watch, [watch EXCEPT !.txs = {Pay, Create, Back}, !.kinds = {"executed", "panic"},
                             !.first = 2, !.crashFrom = 3, !.height = 3, !.crashes = 1]}

\* Log queries with the bloom indexer over two sections, and with the watcher.
Indexes ==
  LET index == [conf |-> Conf(TRUE, FALSE, FALSE, TRUE, 2), pool |-> FALSE, txs |-> {Pay, Call},
                kinds |-> {"executed"}, logs |-> {1}, least |-> TRUE, first |-> 2, crashFrom |-> 3, height |-> 4, crashes |-> 1,
                sends |-> FALSE]
  IN  {index, [index EXCEPT !.conf.watch = TRUE, !.conf.bloom = FALSE, !.conf.span = -1, !.txs = {Pay},
                            !.height = 3, !.crashes = 0]}

\* Requests, where the mempool sorts and where it rechecks; blocks take from the mempool.
Sends ==
  LET Send(c) == [conf |-> c, pool |-> TRUE, txs |-> SentTxs, kinds |-> {"executed"}, logs |-> {0}, least |-> TRUE,
                  first |-> 1, crashFrom |-> 1, height |-> 1, crashes |-> 0, sends |-> TRUE]
  IN  {Send(Conf(FALSE, TRUE, FALSE, FALSE, 0)), Send(Conf(TRUE, FALSE, FALSE, FALSE, 0))}

AllScenarios == Pools \cup Sends \cup Watches \cup Indexes

MCInit ==
  /\ Init /\ SendInit
  /\ scenario \in Scenarios
  /\ conf = scenario.conf

MCDeliverTx(t) ==
  /\ phase = "block" /\ committed.height + 1 >= scenario.first
  /\ scenario.sends => t \in Range(mempool)
  /\ \E o \in AllOutcomes(t) :
       /\ o.kind \in scenario.kinds
       /\ o.kind = "executed" => o.logs \in scenario.logs
       /\ o.kind = "panic" => scenario.crashes = 0 \/ t = Create
       /\ scenario.least => o.used <= IntrinsicGas(t, TRUE)
       /\ DeliverTx(t, o)

\* Keys change before the first block and the first request.
Quiet == phase = "idle" /\ committed.height = 0 /\ \A r \in Requests : requests[r].pc = "new"

MCNext ==
  /\ UNCHANGED scenario
  /\ \/ /\ UNCHANGED sendVars
        /\ \/ \E t \in scenario.txs : MCDeliverTx(t)
           \/ committed.height < scenario.height /\ BeginBlock
           \/ EndBlock \/ CommitBlock
           \/ WatcherStep \/ IndexerStep
     \/ \E t \in scenario.txs : scenario.pool /\ (scenario.sends => t = Raw) /\ SendRawTransaction(t)
     \/ crashes < scenario.crashes /\ committed.height + 1 >= scenario.crashFrom /\ Crash /\ SendCrash
     \/ /\ scenario.sends
        /\ \/ UNCHANGED vars /\ Quiet /\ PersonalStep(s1)
           \/ UNCHANGED vars /\ \E r \in Requests : RequestStep(r)
           \/ \E r \in Requests : Broadcast(r)

MCSpec == MCInit /\ [][MCNext]_<<vars, sendVars, scenario>> /\ Fairness
=============================================================================
