------------------------------- MODULE PubSub -------------------------------
(***************************************************************************)
(* The websocket server (app/rpc/websockets: server.go, pubsub_api.go).    *)
(* A connection takes a slot of connPool and is served by its readLoop,    *)
(* which makes and ends subscriptions for it; every subscription has a     *)
(* goroutine that writes its events to the connection.  filtersMu guards   *)
(* the map of subscriptions and is held while a notification is written.   *)
(*                                                                         *)
(* Abstracted: a write succeeds while the peer is there and fails after    *)
(* it has gone (a peer that is there but does not read is left out, as     *)
(* are requests that only get an error response or are passed on to the    *)
(* HTTP server: they change nothing).                                      *)
(***************************************************************************)
EXTENDS EventSystem

CONSTANTS
  Conns,          \* connections clients may open, each once
  MaxConnections  \* capacity of connPool (FlagWsMaxConnections)

VARIABLES
  pool,       \* len(connPool)
  conn,       \* [Conns -> [peer, pc, id, subIds]]: the connection's readLoop
  ws,         \* api.filters: [identifiers -> the connection it writes to]
  wsMu,       \* api.filtersMu: Free, or who calls Unsubscribe for which sub
  goroutine,  \* [Subs -> where the goroutine of the subscription is]
  writers,    \* [Subs -> the events being written, and how far each is]
  werr,       \* [Subs -> the variable err the writers share is not nil]
  notified    \* history: [Subs -> the events written to its connection]

wsVars == <<pool, conn, ws, wsMu, goroutine, writers, werr, notified>>

SocketsRun == owner = "websockets" /\ ~panicked

Free == [by |-> <<"none", 0>>, sub |-> "none"]
NoConn == [peer |-> "none", pc |-> "none", id |-> "none", subIds |-> {}]

WSInit ==
  /\ pool = 0
  /\ conn = [c \in Conns |-> NoConn]
  /\ ws = <<>>
  /\ wsMu = Free
  /\ goroutine = [s \in Subs |-> "none"]
  /\ writers = [s \in Subs |-> {}]
  /\ werr = [s \in Subs |-> FALSE]
  /\ notified = [s \in Subs |-> <<>>]

-----------------------------------------------------------------------------
(* Server: ServeHTTP under connPoolLock, the peer going away, readLoop.    *)
ServeHTTP(c) ==
  /\ c \in conf.conns
  /\ conn[c].pc = "none"
  /\ pool < MaxConnections
  /\ pool' = pool + 1
  /\ conn' = [conn EXCEPT ![c].peer = "there", ![c].pc = "read"]
  /\ UNCHANGED esVars
  /\ UNCHANGED <<ws, wsMu, goroutine, writers, werr, notified>>

PeerGone(c) ==
  /\ conn[c].peer = "there"
  /\ conn' = [conn EXCEPT ![c].peer = "gone"]
  /\ UNCHANGED esVars
  /\ UNCHANGED <<pool, ws, wsMu, goroutine, writers, werr, notified>>

Goto(c, pc) == conn' = [conn EXCEPT ![c].pc = pc]

(* eth_subscribe: es.subscribe, then the map entry under filtersMu and the *)
(* goroutine.  A syncing subscription whose Status call fails returns an   *)
(* error after the entry is made and before the goroutine is started.      *)
Reading(c, s) ==
  /\ conn[c].pc = "read"
  /\ conn' = [conn EXCEPT ![c].pc = "enter", ![c].id = s]
  /\ UNCHANGED <<pool, ws, wsMu, goroutine, writers, werr, notified>>

subscribeNewHeads(c, s) == kind[s] = "blocks" /\ SubscribeNewHeads(s) /\ Reading(c, s)
subscribePendingTransactions(c, s) == SubscribePendingTxs(s) /\ Reading(c, s)
subscribeLogs(c, s) == SubscribeLogs(s) /\ Reading(c, s)
subscribeSyncing(c, s) == kind[s] = "syncing" /\ SubscribeNewHeads(s) /\ Reading(c, s)

ReadSubscribe(c, s) ==
  \/ subscribeNewHeads(c, s) \/ subscribePendingTransactions(c, s)
  \/ subscribeLogs(c, s) \/ subscribeSyncing(c, s)

EnterSubscription(c) ==
  LET s == conn[c].id IN
  /\ conn[c].pc = "enter"
  /\ wsMu = Free
  /\ ws' = ws @@ (s :> c)
  /\ \/ /\ goroutine' = [goroutine EXCEPT ![s] = "select"]
        /\ Goto(c, "reply")
     \/ /\ kind[s] = "syncing"
        /\ UNCHANGED goroutine
        /\ Goto(c, "read")
  /\ UNCHANGED esVars
  /\ UNCHANGED <<pool, wsMu, writers, werr, notified>>

(* The identifier is kept for the connection only after the response has   *)
(* been written; a request whose id is not a number gets an error instead. *)
ReplySubscribe(c) ==
  /\ conn[c].pc = "reply"
  /\ \/ /\ conn[c].peer = "there"
        /\ conn' = [conn EXCEPT ![c].pc = "read", ![c].subIds = @ \cup {conn[c].id}]
     \/ Goto(c, "read")
  /\ UNCHANGED esVars
  /\ UNCHANGED <<pool, ws, wsMu, goroutine, writers, werr, notified>>

ReadUnsubscribe(c, s) ==
  /\ conn[c].pc = "read" /\ conn[c].peer = "there"
  /\ conn' = [conn EXCEPT ![c].pc = "unsubscribe", ![c].id = s]
  /\ UNCHANGED esVars
  /\ UNCHANGED <<pool, ws, wsMu, goroutine, writers, werr, notified>>

(* api.unsubscribe(id), called by who: nothing if the entry is gone;       *)
(* otherwise Unsubscribe with filtersMu held, then close(unsubscribed) and *)
(* delete.                                                                 *)
TakeMu(who, s) ==
  /\ wsMu = Free
  /\ wsMu' = [by |-> who, sub |-> s]
  /\ sub' = [sub EXCEPT ![s].call = "client"]
  /\ UNCHANGED <<conf, index, eventLoop, published, sent, panicked>>

unsubscribe(who, s) ==
  IF s \in DOMAIN ws THEN TakeMu(who, s)
  ELSE wsMu = Free /\ UNCHANGED wsMu /\ UNCHANGED esVars

Returned(who) == wsMu.by # who

UnsubscribeEnd ==
  /\ wsMu # Free
  /\ ~UnsubscribeCalled(wsMu.sub)
  /\ ws' = [s \in DOMAIN ws \ {wsMu.sub} |-> ws[s]]
  /\ wsMu' = Free
  /\ UNCHANGED esVars
  /\ UNCHANGED <<pool, conn, goroutine, writers, werr, notified>>

DoUnsubscribe(c) ==
  /\ conn[c].pc = "unsubscribe"
  /\ unsubscribe(<<"readLoop", c>>, conn[c].id)
  /\ Goto(c, "replyUnsubscribe")
  /\ UNCHANGED <<pool, ws, goroutine, writers, werr, notified>>

ReplyUnsubscribe(c) ==
  /\ conn[c].pc = "replyUnsubscribe"
  /\ Returned(<<"readLoop", c>>)
  /\ conn' = [conn EXCEPT ![c].pc = "read",
                          ![c].subIds = IF conn[c].peer = "there" THEN @ \ {conn[c].id} ELSE @]
  /\ UNCHANGED esVars
  /\ UNCHANGED <<pool, ws, wsMu, goroutine, writers, werr, notified>>

(* ReadMessage fails: closeWsConnection ends the subscriptions of the      *)
(* connection one by one and gives the slot back.                          *)
ReadFails(c) ==
  /\ conn[c].pc = "read" /\ conn[c].peer = "gone"
  /\ Goto(c, "close")
  /\ UNCHANGED esVars
  /\ UNCHANGED <<pool, ws, wsMu, goroutine, writers, werr, notified>>

closeWsConnection(c) ==
  /\ conn[c].pc = "close"
  /\ Returned(<<"readLoop", c>>)
  /\ \/ \E s \in conn[c].subIds :
          /\ unsubscribe(<<"readLoop", c>>, s)
          /\ conn' = [conn EXCEPT ![c].subIds = @ \ {s}]
          /\ UNCHANGED pool
     \/ /\ conn[c].subIds = {}
        /\ pool' = pool - 1
        /\ Goto(c, "closed")
        /\ UNCHANGED wsMu /\ UNCHANGED esVars
  /\ UNCHANGED <<ws, goroutine, writers, werr, notified>>

-----------------------------------------------------------------------------
(* The goroutine of a subscription.  Only the one for logs starts another  *)
(* goroutine per event, so only there several events are in flight; they   *)
(* share the variable err of subscribeLogs.                                *)
Concurrent(s) == ForLogs(s)
Selecting(s) == goroutine[s] = "select" /\ (Concurrent(s) \/ writers[s] = {})


(* Take an event and decode it, which sets err to nil (a pending           *)
(* transaction needs no decoding).  A syncing subscription asks for the    *)
(* status and skips the event if that fails; one for logs skips an event   *)
(* without matching logs.                                                  *)
TakeEvent(s) ==
  /\ Selecting(s)
  /\ sub[s].eventCh # <<>>
  /\ LET ev == Head(sub[s].eventCh) IN
       \/ /\ Matches(s, ev)
          /\ writers' = [writers EXCEPT ![s] = @ \cup {[ev |-> ev, at |-> "write"]}]
       \/ /\ kind[s] = "syncing" \/ ~Matches(s, ev)
          /\ UNCHANGED writers
  /\ sub' = EventReceived(s)
  /\ werr' = [werr EXCEPT ![s] = kind[s] = "txs" /\ @]
  /\ UNCHANGED <<conf, index, eventLoop, published, sent, panicked>>
  /\ UNCHANGED <<pool, conn, ws, wsMu, goroutine, notified>>

Advance(s, w, at) == writers' = [writers EXCEPT ![s] = (@ \ {w}) \cup {[w EXCEPT !.at = at]}]
Finish(s, w) == writers' = [writers EXCEPT ![s] = @ \ {w}]

Write(s, w) ==
  /\ w.at = "write"
  /\ wsMu = Free
  /\ IF s \in DOMAIN ws
     THEN LET ok == conn[ws[s]].peer = "there" IN
          /\ werr' = [werr EXCEPT ![s] = ~ok]
          /\ notified' = [notified EXCEPT ![s] = IF ok THEN Append(@, w.ev) ELSE @]
     ELSE UNCHANGED <<werr, notified>>
  /\ Advance(s, w, "check")
  /\ UNCHANGED esVars
  /\ UNCHANGED <<pool, conn, ws, wsMu, goroutine>>

Check(s, w) ==
  /\ w.at = "check"
  /\ IF werr[s] THEN Advance(s, w, "unsubscribe") ELSE Finish(s, w)
  /\ UNCHANGED esVars
  /\ UNCHANGED <<pool, conn, ws, wsMu, goroutine, werr, notified>>

WriterUnsubscribe(s, w) ==
  /\ w.at = "unsubscribe"
  /\ unsubscribe(<<s, w.ev.n>>, s)
  /\ Advance(s, w, "return")
  /\ UNCHANGED <<pool, conn, ws, goroutine, werr, notified>>

WriterReturn(s, w) ==
  /\ w.at = "return"
  /\ Returned(<<s, w.ev.n>>)
  /\ Finish(s, w)
  /\ UNCHANGED esVars
  /\ UNCHANGED <<pool, conn, ws, wsMu, goroutine, werr, notified>>

(* The other two cases of its select: the error channel, after which it    *)
(* unsubscribes (again) and deletes the entry; and unsubscribed, which     *)
(* api.unsubscribe closes.                                                 *)
TakeError(s) ==
  /\ Selecting(s)
  /\ ErrReady(s)
  /\ sub' = ErrReceived(s)
  /\ goroutine' = [goroutine EXCEPT ![s] = "error"]
  /\ UNCHANGED <<conf, index, eventLoop, published, sent, panicked>>
  /\ UNCHANGED <<pool, conn, ws, wsMu, writers, werr, notified>>

ErrorUnsubscribe(s) ==
  /\ goroutine[s] = "error"
  /\ TakeMu(<<s, 0>>, s)
  /\ goroutine' = [goroutine EXCEPT ![s] = "done"]
  /\ UNCHANGED <<pool, conn, ws, writers, werr, notified>>

(* close(unsubscribed) goes with the deletion of the entry.                *)
TakeUnsubscribed(s) ==
  /\ Selecting(s)
  /\ s \notin DOMAIN ws
  /\ goroutine' = [goroutine EXCEPT ![s] = "done"]
  /\ UNCHANGED esVars
  /\ UNCHANGED <<pool, conn, ws, wsMu, writers, werr, notified>>

-----------------------------------------------------------------------------
ServerStep(c) ==
  \/ EnterSubscription(c) \/ ReplySubscribe(c)
  \/ DoUnsubscribe(c) \/ ReplyUnsubscribe(c)
  \/ ReadFails(c) \/ closeWsConnection(c)

WriterStep(s) ==
  \E w \in writers[s] :
    Write(s, w) \/ Check(s, w) \/ WriterUnsubscribe(s, w) \/ WriterReturn(s, w)

SubscriptionStep(s) ==
  TakeEvent(s) \/ TakeError(s) \/ ErrorUnsubscribe(s) \/ TakeUnsubscribed(s)

WSNext ==
  /\ SocketsRun
  /\ \/ ESNext /\ UNCHANGED wsVars
     \/ \E c \in Conns : \/ ServeHTTP(c) \/ PeerGone(c) \/ ServerStep(c)
                         \/ \E s \in ClientSubs : ReadSubscribe(c, s) \/ ReadUnsubscribe(c, s)
     \/ \E s \in ClientSubs : WriterStep(s) \/ SubscriptionStep(s)
     \/ UnsubscribeEnd

(* The Go scheduler runs readLoops, callers of Unsubscribe and the         *)
(* goroutines of subscriptions whenever they can run.  A mutex may be      *)
(* taken by others any number of times first.                              *)
WSFairness ==
  /\ WF_<<esVars, wsVars>>(SocketsRun /\ UnsubscribeEnd)
  /\ \A c \in Conns : WF_<<esVars, wsVars>>(SocketsRun /\ ServerStep(c))
  /\ \A s \in Subs :
       /\ WF_<<esVars, wsVars>>(SocketsRun /\ UnsubscribeCall(s) /\ UNCHANGED wsVars)
       /\ WF_<<esVars, wsVars>>(SocketsRun /\ (WriterStep(s) \/ SubscriptionStep(s)))

-----------------------------------------------------------------------------

(* The peer has gone, and its connection is to be closed and its slot     *)
(* given back, unless the process dies.  That needs whoever holds          *)
(* filtersMu to unsubscribe to let go of it, and no err channel to fill up *)
(* for good (closeWsConnection, api.unsubscribe,                           *)
(* Subscription.Unsubscribe).  The process can die: a goroutine that finds *)
(* err closed unsubscribes again and sends on it.                          *)
Closing(c) == conn[c].peer = "gone" /\ conn[c].pc # "closed" /\ ~panicked
======================================================================
