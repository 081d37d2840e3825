-------------------------------- MODULE MCRpc --------------------------------
(***************************************************************************)
(* Model checking of the two clients of the event system, the polling      *)
(* filters and the websocket server.  Each has an event system of its own, *)
(* so a behaviour is about one of them.                                    *)
(***************************************************************************)
EXTENDS FilterAPI, PubSub

(* One filter or subscription beside the event loop's own subscription to  *)
(* the same events; two filters; two subscriptions of one connection; two  *)
(* events in flight for one subscription to logs; two connections for one  *)
(* slot.                                                                   *)
Scenario(api, kinds, conns, events) ==
  [owner : {api}, kind : kinds, conns : {conns}, events : {events}]

MCScenarios ==
  UNION {Scenario("filters", {[s1 |-> "txs", txsSub |-> "txs"],
                              [s1 |-> LogsType(Pending, Pending), logsSub |-> "logs"],
                              [s1 |-> LogsType(0, Latest), logsSub |-> "logs"]}, {}, 1),
         Scenario("filters", {[s1 |-> LogsType(0, 1)]}, {}, 2),
         Scenario("filters", {[s1 |-> "txs", s2 |-> "blocks"]}, {}, 0),
         Scenario("websockets", {[s1 |-> "blocks", chainSub |-> "blocks"]}, {"c1"}, 1),
         Scenario("websockets", {[s1 |-> LogsType(Latest, Latest)]}, {"c1"}, 2),
         Scenario("websockets", {[s1 |-> "blocks", s2 |-> "txs"]}, {"c1"}, 0),
         Scenario("websockets", {[s1 |-> "syncing"]}, {"c1", "c2"}, 1)}

MCInit ==
  /\ ESInit /\ APIInit /\ WSInit

MCNext ==
  \/ APINext /\ UNCHANGED wsVars
  \/ WSNext /\ UNCHANGED apiVars

allVars == <<esVars, apiVars, wsVars>>

MCSpec == MCInit /\ [][MCNext]_allVars /\ APIFairness /\ WSFairness

(* What waits in either API gets on: a filter that its client has          *)
(* forgotten goes away unless it is polled again, and a connection whose   *)
(* peer has gone is closed and its slot returned (timeoutLoop,             *)
(* closeWsConnection).  A behaviour is about one API, so a filter and a    *)
(* connection are spoken of together.                                      *)
Waits(s, c) == Overdue(s) \/ Closing(c)

NothingWaitsForever ==
  /\ Waits("s1", "c1") ~> ~Waits("s1", "c1")
  /\ Waits("s2", "c2") ~> ~Waits("s2", "c2")

-----------------------------------------------------------------------------
(* The event loop alone, before any client has made a filter, with every   *)
(* goroutine of the process scheduled fairly.                              *)
LoopScenarios == Scenario("filters", {[chainSub |-> "blocks"]}, {}, 1)

LoopSpec ==
  /\ MCInit /\ [][MCNext]_allVars
  /\ APIFairness
  /\ WF_allVars(FiltersRun /\ LoopStep /\ UNCHANGED <<apiVars, wsVars>>)
  /\ \A s \in Subs : WF_allVars(FiltersRun /\ CollectStep(s) /\ UNCHANGED wsVars)

(* The comment in Subscription.Unsubscribe takes it that the events a      *)
(* broadcast writes are read: by the loop of the subscription or, while    *)
(* that loop waits for Unsubscribe to return, by the goroutine Unsubscribe *)
(* starts.  So a broadcast of the event loop that has begun ends.          *)
BroadcastEnds == eventLoop # {} ~> eventLoop = {}
=============================================================================
