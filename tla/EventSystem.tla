----------------------------- MODULE EventSystem -----------------------------
(***************************************************************************)
(* The event system behind the JSON-RPC filters and the websocket          *)
(* subscriptions (app/rpc/namespaces/eth/filters: filter_system.go and     *)
(* subscription.go).  A Subscription is registered with Tendermint, which  *)
(* puts the events it asked for on its eventCh; the owner of the           *)
(* subscription reads that channel.  One goroutine, eventLoop, keeps an    *)
(* index of the subscriptions and broadcasts the events of its own four    *)
(* subscriptions on the unbuffered logs, hashes and headers channels of    *)
(* the indexed ones.  Every channel operation is a step of its own.        *)
(*                                                                         *)
(* Abstracted: the contents of events (an event is a number and the set    *)
(* of subscriptions whose criteria its logs match); filter criteria; a     *)
(* subscription that Tendermint refuses (the caller gets the error and     *)
(* nothing is kept).                                                       *)
(***************************************************************************)
EXTENDS Integers, Sequences, FiniteSets, SequencesExt

CONSTANTS
  Subs,            \* identifiers of the subscriptions clients may make
  ChannelLength,   \* capacity of eventCh (1 for headers: Tendermint's default)
  Scenarios        \* what is considered together: records with the API that
                   \* owns the event system (each API makes its own), the kind
                   \* of each subscription, the connections, and the bound on
                   \* the events published

VARIABLES
  conf,       \* the scenario
  sub,        \* [Subs \cup Own -> the channels of the subscription]
  index,      \* the subscriptions the event loop has installed
  eventLoop,  \* the subscriptions the current event must still be sent to
  published,  \* number of events Tendermint has published
  sent,       \* history: [Subs -> events Tendermint has put on its eventCh]
  panicked    \* a panic of any goroutine ends the process

esVars == <<conf, sub, index, eventLoop, published, sent, panicked>>

owner == conf.owner
kind == conf.kind

(* The event loop's own subscriptions.  It subscribes to pending           *)
(* transactions, logs, pending logs and heads; a scenario names those      *)
(* whose events it is about.                                               *)
Own == {"txsSub", "logsSub", "pendingLogsSub", "chainSub"}
AllSubs == DOMAIN kind
ClientSubs == AllSubs \ Own

(* The query a subscription registers with Tendermint.  A subscription for *)
(* the sync status is one for headers.                                     *)
Heads == {"blocks", "syncing"}
Query(k) == CASE k = "txs" -> "pendingtxEvents"
              [] k \in Heads -> "headerEvents"
              [] OTHER -> "evmEvents"

(* FilterLogs keeps something of the event for a subscription for logs;    *)
(* the other kinds take every event.                                       *)
ForLogs(s) == kind[s] \in {"logs", "pendingLogs", "minedAndPendingLogs"}
Matches(s, ev) == ForLogs(s) => s \in ev.matches

Capacity(s) == IF kind[s] \in Heads THEN 1 ELSE ChannelLength

(* A Subscription value before es.subscribe, and just after it: the        *)
(* goroutine that offers it on es.install has started.                     *)
Unused == [tm |-> FALSE, eventCh |-> <<>>, install |-> FALSE, err |-> <<>>,
           closed |-> FALSE, uninstall |-> 0, call |-> "no"]
Subscribed == [Unused EXCEPT !.tm = TRUE, !.install = TRUE]

ESInit ==
  /\ conf \in Scenarios
  /\ sub = [s \in Subs \cup Own |-> IF s \in Own \cap AllSubs THEN Subscribed ELSE Unused]
  /\ index = {}
  /\ eventLoop = {}
  /\ published = 0
  /\ sent = [s \in Subs |-> <<>>]
  /\ panicked = FALSE

(* SubscribeLogs chooses the type from the range of blocks of the criteria *)
(* (rpc.LatestBlockNumber is -1, rpc.PendingBlockNumber is -2).            *)
Latest == -1
Pending == -2
LogsType(from, to) ==
  CASE from = Pending /\ to = Pending -> "pendingLogs"
    [] (from = Latest /\ to = Latest) \/ (from >= 0 /\ to >= from) -> "logs"
    [] from >= Latest /\ to \in {Pending, Latest} -> "minedAndPendingLogs"
    [] OTHER -> "error"

subscribe(s) ==
  /\ s \in ClientSubs
  /\ sub[s] = Unused
  /\ sub' = [sub EXCEPT ![s] = Subscribed]
  /\ UNCHANGED <<conf, index, eventLoop, published, sent, panicked>>

SubscribePendingTxs(s) == kind[s] = "txs" /\ subscribe(s)
SubscribeNewHeads(s) == kind[s] \in Heads /\ subscribe(s)
SubscribeLogs(s) == ForLogs(s) /\ subscribe(s)

-----------------------------------------------------------------------------
(* Tendermint (external): an event reaches every registered subscription   *)
(* that asked for it and has room; it is dropped for the others.           *)
Matching(q) ==
  IF q = "evmEvents"
  THEN {m \in SUBSET {s \in AllSubs : ForLogs(s)} :
          m # {} => (Own \cap m) = {s \in Own \cap AllSubs : ForLogs(s)}}
  ELSE {{}}

Publish(q) ==
  /\ published < conf.events
  /\ q \in {Query(kind[s]) : s \in AllSubs}
  /\ published' = published + 1
  /\ \E m \in Matching(q) :
       LET ev == [n |-> published + 1, matches |-> m]
           gets == {s \in AllSubs : /\ sub[s].tm /\ Query(kind[s]) = q
                                    /\ Len(sub[s].eventCh) < Capacity(s)}
       IN /\ sub' = [s \in DOMAIN sub |->
                       IF s \in gets
                       THEN [sub[s] EXCEPT !.eventCh = Append(@, ev)] ELSE sub[s]]
          /\ sent' = [s \in Subs |->
                       IF s \in gets THEN Append(sent[s], ev) ELSE sent[s]]
  /\ UNCHANGED <<conf, index, eventLoop, panicked>>

-----------------------------------------------------------------------------
(* Unsubscribe: the caller asks Tendermint; an error goes on the err       *)
(* channel, which has room for one and may have been closed; then a        *)
(* goroutine offers the uninstall request and drains the broadcasts.       *)
(* es.ctx is whichever context the last subscription made, so Tendermint   *)
(* may also answer that the context is done.                               *)
UnsubscribeCalled(s) == sub[s].call # "no"

ClientUnsubscribe(s) ==
  /\ sub[s].call = "client"
  /\ \/ /\ sub[s].tm
        /\ sub' = [sub EXCEPT ![s].tm = FALSE, ![s].call = "no",
                              ![s].uninstall = @ + 1]
     \/ sub' = [sub EXCEPT ![s].call = "err"]
  /\ UNCHANGED <<conf, index, eventLoop, published, sent, panicked>>

SendErr(s) ==
  /\ sub[s].call = "err"
  /\ \/ /\ sub[s].closed                       \* send on closed channel
        /\ panicked' = TRUE
        /\ UNCHANGED sub
     \/ /\ ~sub[s].closed /\ sub[s].err = <<>>
        /\ sub' = [sub EXCEPT ![s].err = <<"error">>, ![s].call = "no",
                              ![s].uninstall = @ + 1]
        /\ UNCHANGED panicked
  /\ UNCHANGED <<conf, index, eventLoop, published, sent>>

(* What a receiver of the err channel meets: an error, or that it is       *)
(* closed and empty.                                                       *)
ErrReady(s) == sub[s].err # <<>> \/ sub[s].closed
ErrReceived(s) == [sub EXCEPT ![s].err = <<>>]
EventReceived(s) == [sub EXCEPT ![s].eventCh = Tail(@)]

-----------------------------------------------------------------------------
(* The event loop.  It serves one case of its select at a time and sends   *)
(* an event to the indexed subscriptions one after the other, in any       *)
(* order, each time waiting for a receiver.                                *)
LoopFree == eventLoop = {}

handleTxsEvent == {s \in index : kind[s] = "txs"}
handleChainEvent == {s \in index : kind[s] \in Heads}
handleLogs(ev) ==
  {s \in index : kind[s] \in {"logs", "minedAndPendingLogs"} /\ Matches(s, ev)}

Receivers(o, ev) ==
  CASE o = "txsSub" -> handleTxsEvent
    [] o = "chainSub" -> handleChainEvent
    [] OTHER -> handleLogs(ev)

LoopEvent(o) ==
  /\ LoopFree
  /\ sub[o].eventCh # <<>>
  /\ eventLoop' = Receivers(o, Head(sub[o].eventCh))
  /\ sub' = EventReceived(o)
  /\ UNCHANGED <<conf, index, published, sent, panicked>>

LoopSend(s) ==
  /\ s \in eventLoop
  /\ sub[s].uninstall > 0
  /\ eventLoop' = eventLoop \ {s}
  /\ UNCHANGED <<conf, sub, index, published, sent, panicked>>

LoopInstall(s) ==
  /\ LoopFree
  /\ sub[s].install
  /\ index' = index \cup {s}
  /\ sub' = [sub EXCEPT ![s].install = FALSE]
  /\ UNCHANGED <<conf, eventLoop, published, sent, panicked>>

LoopUninstall(s) ==
  /\ LoopFree
  /\ sub[s].uninstall > 0
  /\ index' = index \ {s}
  /\ sub' = [sub EXCEPT ![s].uninstall = @ - 1, ![s].closed = TRUE]
  /\ panicked' = sub[s].closed                 \* close of closed channel
  /\ UNCHANGED <<conf, eventLoop, published, sent>>

LoopStep ==
  \/ \E o \in Own \cap AllSubs : LoopEvent(o)
  \/ \E s \in AllSubs : LoopSend(s) \/ LoopInstall(s) \/ LoopUninstall(s)

UnsubscribeCall(s) == ClientUnsubscribe(s) \/ SendErr(s)

UnsubscribeStep == \E s \in ClientSubs : UnsubscribeCall(s)

PublishStep == \E q \in {"pendingtxEvents", "headerEvents", "evmEvents"} : Publish(q)

ESNext == ~panicked /\ (LoopStep \/ UnsubscribeStep \/ PublishStep)
=============================================================================
