------------------------------ MODULE FilterAPI ------------------------------
(***************************************************************************)
(* The polling filters of the JSON-RPC eth namespace (PublicFilterAPI,     *)
(* app/rpc/namespaces/eth/filters/api.go): a filter is a subscription, a   *)
(* goroutine that collects its events, and an entry of the map api.filters *)
(* with a timer; clients poll the entry, uninstall it, or forget it.       *)
(* filtersMu guards the map and the entries.                               *)
(*                                                                         *)
(* A critical section that makes no call that can block is one step.       *)
(* Left out: rate limiters (a refused request changes nothing), and the    *)
(* three methods that need an rpc.Notifier, which the HTTP server never    *)
(* provides (they return ErrNotificationsUnsupported).                     *)
(***************************************************************************)
EXTENDS EventSystem

VARIABLES
  filters,      \* api.filters: [identifiers -> [deadline, changes]]
  filtersMu,    \* "free", or what its holder is waiting for
  collector,    \* [Subs -> where the goroutine of the filter is]
  hand,         \* [Subs -> the event that goroutine has received]
  uninstalled,  \* filters a client has deleted and not yet unsubscribed
  visiting,     \* filters timeoutLoop has still to look at
  reported      \* history: [Subs -> what its polls have returned]

apiVars == <<filters, filtersMu, collector, hand, uninstalled, visiting, reported>>

Nothing == [n |-> 0, matches |-> {}]

APIInit ==
  /\ filters = <<>>
  /\ filtersMu = "free"
  /\ collector = [s \in Subs |-> "none"]
  /\ hand = [s \in Subs |-> Nothing]
  /\ uninstalled = {}
  /\ visiting = {}
  /\ reported = [s \in Subs |-> <<>>]

FiltersRun == owner = "filters" /\ ~panicked

Without(s) == [t \in DOMAIN filters \ {s} |-> filters[t]]

(* A new filter: subscribe, then enter the filter and start its goroutine. *)
Subscribing(s) ==
  /\ collector[s] = "none"
  /\ collector' = [collector EXCEPT ![s] = "subscribed"]
  /\ UNCHANGED <<filters, filtersMu, hand, uninstalled, visiting, reported>>

NewPendingTransactionFilter(s) == SubscribePendingTxs(s) /\ Subscribing(s)
NewBlockFilter(s) == SubscribeNewHeads(s) /\ Subscribing(s)
NewFilter(s) == SubscribeLogs(s) /\ Subscribing(s)

NewFilterEnter(s) ==
  /\ collector[s] = "subscribed"
  /\ filtersMu = "free"
  /\ filters' = filters @@ (s :> [deadline |-> "running", changes |-> <<>>])
  /\ collector' = [collector EXCEPT ![s] = "select"]
  /\ UNCHANGED esVars
  /\ UNCHANGED <<filtersMu, hand, uninstalled, visiting, reported>>

(* The goroutine of a filter: take an event, or the error channel; then    *)
(* under the mutex append the event if the filter is still there, or       *)
(* delete the filter.  A log filter keeps the logs that match its          *)
(* criteria.  Only the goroutine of a pending transaction filter does not  *)
(* return after the error.                                                 *)
CollectEvent(s) ==
  /\ collector[s] = "select"
  /\ sub[s].eventCh # <<>>
  /\ hand' = [hand EXCEPT ![s] = Head(sub[s].eventCh)]
  /\ sub' = EventReceived(s)
  /\ collector' = [collector EXCEPT ![s] = "append"]
  /\ UNCHANGED <<conf, index, eventLoop, published, sent, panicked>>
  /\ UNCHANGED <<filters, filtersMu, uninstalled, visiting, reported>>

Kept(s, events) == SelectSeq(events, LAMBDA ev : Matches(s, ev))

CollectAppend(s) ==
  /\ collector[s] = "append"
  /\ filtersMu = "free"
  /\ filters' = IF s \in DOMAIN filters
                THEN [filters EXCEPT ![s].changes = @ \o Kept(s, <<hand[s]>>)]
                ELSE filters
  /\ hand' = [hand EXCEPT ![s] = Nothing]
  /\ collector' = [collector EXCEPT ![s] = "select"]
  /\ UNCHANGED esVars
  /\ UNCHANGED <<filtersMu, uninstalled, visiting, reported>>

CollectError(s) ==
  /\ collector[s] = "select"
  /\ ErrReady(s)
  /\ sub' = ErrReceived(s)
  /\ collector' = [collector EXCEPT ![s] = "delete"]
  /\ UNCHANGED <<conf, index, eventLoop, published, sent, panicked>>
  /\ UNCHANGED <<filters, filtersMu, hand, uninstalled, visiting, reported>>

CollectDelete(s) ==
  /\ collector[s] = "delete"
  /\ filtersMu = "free"
  /\ filters' = Without(s)
  /\ collector' = [collector EXCEPT ![s] = IF kind[s] = "txs" THEN "select" ELSE "done"]
  /\ UNCHANGED esVars
  /\ UNCHANGED <<filtersMu, hand, uninstalled, visiting, reported>>

(* GetFilterChanges: stop the timer; if it had expired, take its value,    *)
(* which a holder of the mutex waits for if there is none; restart it and  *)
(* hand over what was collected.                                           *)
GetFilterChangesKeeping(s) ==   \* Mutant: what was collected is not cleared.
  /\ filtersMu = "free"
  /\ s \in DOMAIN filters
  /\ reported' = [reported EXCEPT ![s] = @ \o filters[s].changes]
  /\ filters' = [filters EXCEPT ![s].deadline = "running"]
  /\ UNCHANGED esVars
  /\ UNCHANGED <<filtersMu, collector, hand, uninstalled, visiting>>

GetFilterChanges(s) ==
  /\ filtersMu = "free"
  /\ s \in DOMAIN filters
  /\ IF filters[s].deadline = "drained"
     THEN /\ filtersMu' = "deadline.C"
          /\ UNCHANGED <<filters, reported>>
     ELSE /\ reported' = [reported EXCEPT ![s] = @ \o filters[s].changes]
          /\ filters' = [filters EXCEPT ![s] = [deadline |-> "running", changes |-> <<>>]]
          /\ UNCHANGED filtersMu
  /\ UNCHANGED esVars
  /\ UNCHANGED <<collector, hand, uninstalled, visiting>>

UninstallFilterKeeping(s) ==   \* Mutant: the filter is not deleted from the map.
  /\ filtersMu = "free"
  /\ s \in DOMAIN filters
  /\ uninstalled' = uninstalled \cup {s}
  /\ UNCHANGED esVars
  /\ UNCHANGED <<filters, filtersMu, collector, hand, visiting, reported>>

UninstallFilter(s) ==
  /\ filtersMu = "free"
  /\ s \in DOMAIN filters
  /\ filters' = Without(s)
  /\ uninstalled' = uninstalled \cup {s}
  /\ UNCHANGED esVars
  /\ UNCHANGED <<filtersMu, collector, hand, visiting, reported>>

CallUnsubscribe(s) ==
  /\ sub' = [sub EXCEPT ![s].call = "client"]
  /\ UNCHANGED <<conf, index, eventLoop, published, sent, panicked>>

UninstallUnsubscribe(s) ==
  /\ s \in uninstalled
  /\ CallUnsubscribe(s)
  /\ uninstalled' = uninstalled \ {s}
  /\ UNCHANGED <<filters, filtersMu, collector, hand, visiting, reported>>

-----------------------------------------------------------------------------
(* The timer of a filter runs out.                                         *)
DeadlineExpires(s) ==
  /\ s \in DOMAIN filters
  /\ filters[s].deadline = "running"
  /\ filters' = [filters EXCEPT ![s].deadline = "fired"]
  /\ UNCHANGED esVars
  /\ UNCHANGED <<filtersMu, collector, hand, uninstalled, visiting, reported>>

(* timeoutLoop: at a tick it takes the mutex and looks at every filter;    *)
(* one whose timer has run out is unsubscribed and deleted.                *)
TimeoutTick ==
  /\ filtersMu = "free"
  /\ filtersMu' = "timeoutLoop"
  /\ visiting' = DOMAIN filters
  /\ UNCHANGED esVars
  /\ UNCHANGED <<filters, collector, hand, uninstalled, reported>>

TimeoutVisitBreaking(s) ==   \* Mutant: a filter that is not due ends the loop (break for continue).
  /\ filtersMu = "timeoutLoop"
  /\ s \in visiting
  /\ IF filters[s].deadline = "fired"
     THEN /\ filters' = [filters EXCEPT ![s].deadline = "drained"]
          /\ CallUnsubscribe(s)
          /\ filtersMu' = s
          /\ UNCHANGED visiting
     ELSE /\ visiting' = {}
          /\ UNCHANGED <<filters, filtersMu>> /\ UNCHANGED esVars
  /\ UNCHANGED <<collector, hand, uninstalled, reported>>

TimeoutVisit(s) ==
  /\ filtersMu = "timeoutLoop"
  /\ s \in visiting
  /\ IF filters[s].deadline = "fired"
     THEN /\ filters' = [filters EXCEPT ![s].deadline = "drained"]
          /\ CallUnsubscribe(s)
          /\ filtersMu' = s
          /\ UNCHANGED visiting
     ELSE /\ visiting' = visiting \ {s}
          /\ UNCHANGED <<filters, filtersMu>> /\ UNCHANGED esVars
  /\ UNCHANGED <<collector, hand, uninstalled, reported>>

TimeoutDelete(s) ==
  /\ filtersMu = s
  /\ ~UnsubscribeCalled(s)
  /\ filters' = Without(s)
  /\ visiting' = visiting \ {s}
  /\ filtersMu' = "timeoutLoop"
  /\ UNCHANGED esVars
  /\ UNCHANGED <<collector, hand, uninstalled, reported>>

TimeoutEnd ==
  /\ filtersMu = "timeoutLoop"
  /\ visiting = {}
  /\ filtersMu' = "free"
  /\ UNCHANGED esVars
  /\ UNCHANGED <<filters, collector, hand, uninstalled, visiting, reported>>

CollectStep(s) == CollectEvent(s) \/ CollectAppend(s) \/ CollectError(s) \/ CollectDelete(s)

TimeoutStep == TimeoutTick \/ (\E s \in ClientSubs : TimeoutVisit(s) \/ TimeoutDelete(s)) \/ TimeoutEnd

ClientStep(s) ==
  \/ NewPendingTransactionFilter(s) \/ NewBlockFilter(s) \/ NewFilter(s)
  \/ NewFilterEnter(s)
  \/ GetFilterChanges(s)
  \/ UninstallFilter(s) \/ UninstallUnsubscribe(s)

APINext ==
  /\ FiltersRun
  /\ \/ ESNext /\ UNCHANGED apiVars
     \/ \E s \in ClientSubs : ClientStep(s) \/ CollectStep(s) \/ DeadlineExpires(s)
     \/ TimeoutStep

(* The Go scheduler runs timeoutLoop and the callers of Unsubscribe        *)
(* whenever they can run, and tickers tick.  No fairness is assumed of     *)
(* clients, of Tendermint's events or of the other goroutines.             *)
APIFairness ==
  /\ WF_<<esVars, apiVars>>(FiltersRun /\ TimeoutStep)
  /\ \A s \in Subs :
       WF_<<esVars, apiVars>>(FiltersRun /\ UnsubscribeCall(s) /\ UNCHANGED apiVars)

-----------------------------------------------------------------------------
(* What a filter hands to its client, in poll after poll, together with    *)
(* what waits in its entry, in its goroutine and in its channel, is what   *)
(* Tendermint sent it since it was made: nothing twice, nothing lost,      *)
(* nothing out of order, however polls, ticks and events interleave        *)
(* (GetFilterChanges and the goroutines of NewFilter, NewBlockFilter and   *)
(* NewPendingTransactionFilter).                                           *)
ChangesExact ==
  \A s \in DOMAIN filters :
    reported[s] \o filters[s].changes
      \o Kept(s, SelectSeq(<<hand[s]>>, LAMBDA ev : ev # Nothing) \o sub[s].eventCh)
      = Kept(s, sent[s])

(* A filter is unsubscribed once, by whichever of UninstallFilter and      *)
(* timeoutLoop takes it out of the map, so its error channel is neither    *)
(* closed twice nor written when full or closed: the polling API alone     *)
(* cannot panic in Subscription.Unsubscribe or in eventLoop, and           *)
(* timeoutLoop does not wait there with filtersMu held.  The websocket API *)
(* is left out: its goroutines may unsubscribe a second time and panic.    *)
UnsubscribedOnce ==
  owner = "filters" =>
  /\ ~panicked
  /\ \A s \in ClientSubs : sub[s].call # "no" =>
       sub[s].uninstall = 0 /\ sub[s].err = <<>> /\ ~sub[s].closed

(* A filter its client has forgotten: its timer has run out, and it is to  *)
(* be polled again or removed by timeoutLoop.  That needs filtersMu to be  *)
(* released whatever GetFilterChanges and Unsubscribe meet.                *)
Overdue(s) == s \in DOMAIN filters /\ filters[s].deadline # "running"
======================================================================
