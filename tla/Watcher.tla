------------------------------ MODULE Watcher ------------------------------
(***************************************************************************)
(* The watcher of the EVM module: during a block it collects messages in a *)
(* batch; at the end of the block a goroutine of its own writes the batch, *)
(* one key after the other, to the store that serves fast RPC queries.     *)
(*                                                                         *)
(* The hash of a block is its height, the hash of a transaction is the     *)
(* transaction.                                                            *)
(***************************************************************************)
EXTENDS RpcTypes, Functions

VARIABLES watcher,    \* the fields of the Watcher
          writers,    \* the running goroutines of Commit: height |-> messages left to write
          watchStore  \* the LevelDB store: key |-> value

watchVars == <<watcher, writers, watchStore>>

Empty == [x \in {} |-> x]

Put(f, k, v) == [x \in DOMAIN f \cup {k} |-> IF x = k THEN v ELSE f[x]]

\* made says that the map cumulativeGas has been made.
NewWatcher == [height |-> 0, batch |-> <<>>, made |-> FALSE, cumulativeGas |-> Empty,
               gasUsed |-> 0, blockTxs |-> <<>>]

\* Mutants: gas of the last block, or its map, is kept.
NewHeightKeepingGas(h) == [NewWatcher EXCEPT !.height = h, !.made = TRUE, !.gasUsed = watcher.gasUsed]
NewHeightKeepingMap(h) == [NewWatcher EXCEPT !.height = h, !.made = TRUE, !.cumulativeGas = watcher.cumulativeGas]

NewHeight(h) == [NewWatcher EXCEPT !.height = h, !.made = TRUE]

Msg(k, v) == [key |-> k, value |-> v]

NewMsgEthTx(t, height, index) == Msg(<<"tx", t>>, NewTransaction(t, height, index))
NewMsgCode(t, height) == Msg(<<"code", t>>, height)
NewMsgBlockInfo(height) == Msg(<<"info", height>>, height)
NewMsgLatestHeight(height) == Msg(<<"latest">>, height)

NewMsgBlock(height, bloom, gasUsed, txs) ==
  Msg(<<"block", height>>, [bloom |-> bloom, gasUsed |-> gasUsed, txs |-> txs])

\* Only a creation that succeeded has a contract address, the contract being named by its
\* transaction.
NewMsgTransactionReceipt(status, t, index, height, logs, cumulative, gasUsed, created) ==
  Msg(<<"receipt", t>>,
      [status |-> status, height |-> height, index |-> index, logs |-> logs, gasUsed |-> gasUsed,
       cumulative |-> cumulative, contract |-> IF created THEN {t} ELSE {}])

SaveEthereumTx(w, t, index) ==
  [w EXCEPT !.batch = Append(@, NewMsgEthTx(t, w.height, index)),
            !.blockTxs = Append(@, t)]

\* A map entry that was never set reads as zero.
CumulativeGas(w, index, gasUsed) ==
  IF DOMAIN w.cumulativeGas = {} \/ index - 1 \notin DOMAIN w.cumulativeGas
  THEN gasUsed
  ELSE w.cumulativeGas[index - 1] + gasUsed

SaveTransactionReceipt(w, status, t, index, logs, gasUsed, created) ==
  LET cumulative == CumulativeGas(w, index, gasUsed) IN
  [w EXCEPT !.cumulativeGas = Put(@, index, cumulative),
            !.gasUsed = @ + gasUsed,
            !.batch = Append(@, NewMsgTransactionReceipt(status, t, index, w.height, logs, cumulative,
                                                         gasUsed, created))]

SaveContractCode(w, t) == [w EXCEPT !.batch = Append(@, NewMsgCode(t, w.height))]

\* Mutant: the latest height is written first.
SaveBlockLatestFirst(w, bloom) ==
  [w EXCEPT !.batch = << NewMsgLatestHeight(w.height) >> \o @ \o
     << NewMsgBlock(w.height, bloom, w.gasUsed, w.blockTxs), NewMsgBlockInfo(w.height) >>]

SaveBlock(w, bloom) ==
  [w EXCEPT !.batch = @ \o
     << NewMsgBlock(w.height, bloom, w.gasUsed, w.blockTxs),
        NewMsgBlockInfo(w.height),
        NewMsgLatestHeight(w.height) >>]

\* Mutant: no goroutine is started.
CommitForgotten(w) == UNCHANGED writers

\* Commit starts the goroutine; a block of the same height left none behind.
Commit(w) == writers' = Put(writers, w.height, w.batch)

\* One iteration of the goroutine's loop.
WriteNext(h) ==
  /\ h \in DOMAIN writers
  /\ LET left == writers[h] IN
     /\ watchStore' = Put(watchStore, Head(left).key, Head(left).value)
     /\ writers' = IF Len(left) = 1 THEN Restrict(writers, DOMAIN writers \ {h})
                                    ELSE [writers EXCEPT ![h] = Tail(left)]
  /\ UNCHANGED watcher
=============================================================================
