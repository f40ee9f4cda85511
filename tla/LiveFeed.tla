------------------------------- MODULE LiveFeed ------------------------------
(***************************************************************************)
(* The live picture of the swarm: which nodes the gateway believes are     *)
(* there (GatewayStore.nodes, apps/gateway/src/store.ts), what it          *)
(* publishes and how that is lost (publisher.ts, the heartbeat timer and   *)
(* the routes of index.ts), the broker's retained messages                 *)
(* (scripts/broker.ts), and the two dashboards: the twins, which subscribe *)
(* (useSwarmMqtt.ts), and ops, which polls (OpsDashboard.tsx).  A tab      *)
(* shows one of the two.                                                   *)
(*                                                                         *)
(* The unit of time is a period of the heartbeat timer, 2.5 s.  Messages   *)
(* of one topic replace each other, so the newest is all that is kept.     *)
(* Records, companions and incidents are published too and not retained:   *)
(* who misses one has missed it.  The intervals commands carry are left    *)
(* out: no node subscribes to them.                                        *)
(***************************************************************************)
EXTENDS Naturals, SequencesExt

CONSTANTS Device,
          Lot,
          OfflineAfter,   \* OFFLINE_AFTER_MS, in periods of the timer
          MaxBacklog,     \* bound: bufferDepth
          MaxChanges,     \* bound: changes of the badge of a lot
          MaxPolls,       \* bound: answers to a poll on their way
          MaxEvents       \* bound: outages, restarts and operator commands

ASSUME FeedAssumption ==
  /\ {OfflineAfter, MaxBacklog, MaxChanges, MaxPolls, MaxEvents} \subseteq Nat
  /\ Device \cap Lot = {}

VARIABLES nodes,          \* Device -> periods since lastSeenAt, or Unknown
          backlog,        \* Device -> bufferDepth
          badge,          \* Lot -> its state, as a count of its changes
          beatDue,        \* the heartbeat of this period is still to come
          connected,      \* SwarmPublisher.connected
          retained,       \* the broker: Topic -> message or Nothing
          screen,         \* what the tab shows, "twins" or "ops"
          status,         \* useSwarmMqtt: ConnectionStatus
          twins,          \* useSwarmMqtt: health and lots
          polls,          \* answers to GET /ops/summary on their way, oldest first
          summary,        \* OpsDashboard: summary
          silence,        \* Device -> periods since the gateway heard from it
          dead,           \* devices that are off for good
          commanded,      \* devices marked as seen by a command only
          missed,         \* topics whose newest message did not reach the broker
          events

gatewayVars == <<nodes, backlog, badge>>
brokerVars == <<connected, retained, missed>>
tabVars == <<status, twins, polls, summary>>
worldVars == <<silence, dead, commanded>>
vars == <<gatewayVars, beatDue, brokerVars, screen, tabVars, worldVars, events>>

Topic == Device \cup Lot

Longest == OfflineAfter + 2                     \* times beyond it look alike
Unknown == Longest + 1
Nothing == [is |-> "nothing"]

OnlineLate(age) == age <= OfflineAfter + 1     \* variant: a period late

Online(age) == age <= OfflineAfter

HealthEvent(d) == [is |-> "health", online |-> Online(nodes[d])]
LotState(l) == [is |-> "lot", badge |-> badge[l]]

Message(topic) == IF topic \in Device THEN HealthEvent(topic) ELSE LotState(topic)

Init ==
  /\ nodes = [d \in Device |-> Unknown]
  /\ backlog = [d \in Device |-> 0]
  /\ badge = [l \in Lot |-> 0]
  /\ beatDue = FALSE
  /\ connected = FALSE
  /\ retained = [t \in Topic |-> Nothing]
  /\ screen \in {"twins", "ops"}
  /\ status = "connecting"
  /\ twins = [t \in Topic |-> Nothing]
  /\ polls = <<>> /\ summary = Nothing
  /\ silence = [d \in Device |-> 0]
  /\ dead = {} /\ commanded = {} /\ missed = {}
  /\ events = 0

Event == events < MaxEvents /\ events' = events + 1

-----------------------------------------------------------------------------
(* The publisher: what is sent while the broker is away is dropped.  The   *)
(* ops page does not need the broker, and no broker runs beside it here.   *)

Send(topics) ==
  IF connected
  THEN /\ retained' = [t \in Topic |-> IF t \in topics THEN Message(t)' ELSE retained[t]]
       /\ missed' = missed \ topics
  ELSE UNCHANGED retained /\ missed' = missed \cup topics

Connect ==
  /\ ~connected /\ screen = "twins"
  /\ connected' = TRUE
  /\ UNCHANGED <<gatewayVars, beatDue, retained, missed, screen, tabVars, worldVars, events>>

Disconnect ==
  /\ connected /\ Event
  /\ connected' = FALSE
  /\ UNCHANGED <<gatewayVars, beatDue, retained, missed, screen, tabVars, worldVars>>

(* Aedes keeps retained messages in memory.                                *)
BrokerRestart ==
  /\ screen = "twins" /\ Event
  /\ connected' = FALSE
  /\ retained' = [t \in Topic |-> Nothing]
  /\ missed' = {t \in Topic : retained[t] # Nothing} \cup missed
  /\ status' = IF status = "live" THEN "reconnecting" ELSE status
  /\ UNCHANGED <<gatewayVars, beatDue, screen, twins, polls, summary, worldVars>>

-----------------------------------------------------------------------------
(* The gateway.                                                            *)

Aged(age) == IF age < Longest THEN age + 1 ELSE age

(* A period passes; the timer fires in every one of them.                  *)
Tick ==
  /\ ~beatDue
  /\ beatDue' = TRUE
  /\ nodes' = [d \in Device |-> Aged(nodes[d])]
  /\ silence' = [d \in Device |-> Aged(silence[d])]
  /\ UNCHANGED <<backlog, badge, brokerVars, screen, tabVars, dead, commanded, events>>

KnownOnline == {d \in Device : Online(nodes[d])}    \* variant: only news of life

Known == {d \in Device : nodes[d] # Unknown}

Heartbeat ==
  /\ beatDue
  /\ beatDue' = FALSE
  /\ UNCHANGED gatewayVars
  /\ Send(Known)
  /\ UNCHANGED <<connected, screen, tabVars, worldVars, events>>

See(devices) == nodes' = [d \in Device |-> IF d \in devices THEN 0 ELSE nodes[d]]

(* publishLot: whatever touched the lot, changed or not.  The ops page     *)
(* does not show lots, and none changes beside it here.                    *)
Touch(lots) ==
  /\ lots # {} => screen = "twins"
  /\ \E changed \in SUBSET lots : badge' = [l \in Lot |-> IF l \in changed THEN badge[l] + 1 ELSE badge[l]]
  /\ \A l \in lots : badge'[l] \in 1 .. MaxChanges

(* POST /ingest and /companion: the origin is seen, and so is the relay    *)
(* that carried it.  An ingest may say how much the node still holds.  A   *)
(* breach commands a faster interval, and marks all nodes as seen too.     *)
Hear(d, by, lots, breach) ==
  LET heard == {d} \cup by
      told == IF breach THEN Known \ heard ELSE {}
  IN /\ heard \cap dead = {}
     /\ IF breach THEN Event ELSE UNCHANGED events
     /\ See(heard \cup told)
     /\ \E depth \in 0 .. MaxBacklog : backlog' = [backlog EXCEPT ![d] = depth]
     /\ Touch(lots)
     /\ silence' = [x \in Device |-> IF x \in heard THEN 0 ELSE silence[x]]
     /\ commanded' = (commanded \ heard) \cup told
     /\ Send(heard \cup lots)
     /\ UNCHANGED <<beatDue, connected, screen, tabVars, dead>>

(* A batch closed or anchored, or the flag poll.                           *)
PublishLots(lots) ==
  /\ lots # {}
  /\ UNCHANGED <<nodes, backlog>>
  /\ Touch(lots)
  /\ Send(lots)
  /\ UNCHANGED <<beatDue, connected, screen, tabVars, worldVars, events>>

(* POST /ops/calm and /ops/interval: a command for all nodes, or for one,  *)
(* marks them as seen.                                                     *)
Command(devices) ==
  /\ Event
  /\ devices # {}
  /\ See(devices)
  /\ commanded' = commanded \cup devices
  /\ UNCHANGED <<backlog, badge, beatDue, brokerVars, screen, tabVars, silence, dead>>

(* POST /devices: a node the operator registers is seen, and published.    *)
Commission(d) ==
  /\ Event
  /\ See({d})
  /\ commanded' = commanded \cup {d}
  /\ UNCHANGED <<backlog, badge>>
  /\ Send({d})
  /\ UNCHANGED <<beatDue, connected, screen, tabVars, silence, dead>>

(* The store and the connection are those of a new process.                *)
GatewayRestart ==
  /\ Event
  /\ nodes' = [d \in Device |-> Unknown]
  /\ backlog' = [d \in Device |-> 0]
  /\ badge' = [l \in Lot |-> 0]
  /\ connected' = FALSE
  /\ commanded' = {}
  /\ missed' = Topic
  /\ beatDue' = FALSE
  /\ UNCHANGED <<retained, screen, tabVars, silence, dead>>

Die(d) ==
  /\ dead' = dead \cup {d}
  /\ UNCHANGED <<gatewayVars, beatDue, brokerVars, screen, tabVars, silence, commanded, events>>

-----------------------------------------------------------------------------
(* The twins.                                                              *)

(* On connecting the tab subscribes and gets what is retained; what it     *)
(* holds already it keeps.                                                 *)
TabConnect ==
  /\ screen = "twins" /\ status # "live"
  /\ status' = "live"
  /\ UNCHANGED <<gatewayVars, beatDue, brokerVars, screen, twins, polls, summary, worldVars, events>>

TabDisconnect ==
  /\ screen = "twins" /\ status = "live"
  /\ Event
  /\ status' \in {"reconnecting", "error"}
  /\ UNCHANGED <<gatewayVars, beatDue, brokerVars, screen, twins, polls, summary, worldVars>>

SubscribedHealth == Device                     \* variant: the lots forgotten

Subscribed == Topic

OnMessage(t) ==
  /\ t \in Subscribed
  /\ screen = "twins" /\ status = "live"
  /\ retained[t] \notin {Nothing, twins[t]}
  /\ twins' = [twins EXCEPT ![t] = retained[t]]
  /\ UNCHANGED <<gatewayVars, beatDue, brokerVars, screen, status, polls, summary, worldVars, events>>

-----------------------------------------------------------------------------
(* The ops page.  The poll's timer does not wait for the answer to the one *)
(* before: answers may overtake each other.                                *)

(* A row of GET /ops/summary; of the depths in health events only these are *)
(* followed.                                                               *)
Rows == [d \in Known |-> [online |-> Online(nodes[d]), depth |-> backlog[d]]]

Summary == [is |-> "summary", nodes |-> Rows]

Poll ==
  /\ screen = "ops"
  /\ Len(polls) < MaxPolls
  /\ polls' = Append(polls, Summary)
  /\ UNCHANGED <<gatewayVars, beatDue, brokerVars, screen, status, twins, summary, worldVars, events>>

ShownOnce(i) == IF summary = Nothing THEN polls[i] ELSE summary  \* variant: the first stays

Shown(i) == polls[i]

Answer(i) ==
  /\ summary' = Shown(i)
  /\ polls' = RemoveAt(polls, i)
  /\ UNCHANGED <<gatewayVars, beatDue, brokerVars, screen, status, twins, worldVars, events>>

(* Nothing came back: the numbers stay, marked as stale.                   *)
PollFails(i) ==
  /\ Event
  /\ polls' = RemoveAt(polls, i)
  /\ UNCHANGED <<gatewayVars, beatDue, brokerVars, screen, status, twins, summary, worldVars>>

Relays(d) == {{}} \cup {{h} : h \in Device \ {d}}

Next ==
  \/ Connect \/ Disconnect \/ BrokerRestart \/ GatewayRestart
  \/ Tick \/ Heartbeat
  \/ \E d \in Device : \/ Die(d) \/ Commission(d)
                       \/ \E by \in Relays(d), lots \in SUBSET Lot, breach \in BOOLEAN : Hear(d, by, lots, breach)
  \/ \E lots \in SUBSET Lot : PublishLots(lots)
  \/ \E devices \in {Known} \cup {{d} : d \in Known} : Command(devices)
  \/ TabConnect \/ TabDisconnect \/ (\E t \in Topic : OnMessage(t))
  \/ Poll \/ (\E i \in DOMAIN polls : Answer(i) \/ PollFails(i))

(* Timers fire, both clients reconnect every two seconds, messages of a    *)
(* connection arrive and an answer comes back or fails.  Nothing makes a   *)
(* node speak.                                                             *)
Fairness ==
  /\ WF_vars(Tick) /\ WF_vars(Heartbeat)
  /\ WF_vars(Connect) /\ WF_vars(TabConnect)
  /\ \A t \in Topic : WF_vars(OnMessage(t))
  /\ WF_vars(Poll) /\ WF_vars(\E i \in DOMAIN polls : Answer(i))

FeedSpec == Init /\ [][Next]_vars /\ Fairness

-----------------------------------------------------------------------------
(* "Republishes health every 2.5 s and flips online: false after 5 s of    *)
(* silence" (docs/SWARM-API.md:78): what the broker holds of a node that   *)
(* no message was lost of calls it online at most OfflineAfter and one     *)
(* period of the heartbeat, 7.5 s in the code, and never offline sooner    *)
(* than OfflineAfter, commands to it aside.  That is weaker than the 5 s   *)
(* that are promised: see GreyWithinFive.                                  *)
OnlineIsRecent ==
  \A d \in Device \ (missed \cup commanded) : retained[d] # Nothing =>
    /\ retained[d].online => silence[d] <= OfflineAfter + 1
    /\ ~retained[d].online => silence[d] > OfflineAfter

(* "A node that stops reporting must go grey on the dashboard within 5 s"  *)
(* (index.ts:971): not what the code does, whose heartbeat may come a      *)
(* period after the 5 s are over.                                          *)
GreyWithinFive ==
  \A d \in Device \ (missed \cup commanded) :
    retained[d] # Nothing /\ retained[d].online => silence[d] <= OfflineAfter

ShownOnline(d) == status = "live" /\ twins[d] # Nothing /\ twins[d].online

(* "A node that stops reporting must go grey on the dashboard"             *)
(* (index.ts:971), its deadline aside: a live tab comes to show a dead     *)
(* node offline for good, through every outage, broker restart and         *)
(* command, if the gateway is still the one that knew the node.            *)
SilenceShows ==
  \A d \in Device : [](d \in dead => <>[](ShownOnline(d) => nodes[d] = Unknown))

(* A tab that stays live ends with the lots as they are, unless the newest *)
(* state of one was published while the broker was away, or was lost with  *)
(* it.                                                                     *)
LotsArrive ==
  \A l \in Lot : screen = "twins" /\ badge[l] # 0 ~>
    (\/ twins[l] = LotState(l) \/ l \in missed \/ badge[l] = 0)

(* Answers that overtake each other do no lasting harm: once every node is *)
(* off, the ops page ends with all of them offline and with the depths     *)
(* they reported last, whatever came late, failed or was restarted.        *)
SummaryCatchesUp ==
  [](screen = "ops" /\ dead = Device => <>[](summary # Nothing /\ summary.nodes = Rows))

-----------------------------------------------------------------------------
(* What the documents say and the code does not do.                        *)

(* "A dead node cannot tell you it is dead" (docs/SWARM-API.md:78), but a  *)
(* command to it makes it seen.                                            *)
OnlineMeansHeard ==
  \A d \in Device \ missed : retained[d] # Nothing /\ retained[d].online =>
    silence[d] <= OfflineAfter + 1

(* A new gateway does not know the node, so nothing replaces the message   *)
(* that says it is online.                                                 *)
DeadTurnsGrey == \A d \in Device : [](d \in dead => <>[](~ShownOnline(d)))

(* "The dashboard catches up when the broker comes back" (publisher.ts:10).*)
LotsCatchUp ==
  \A l \in Lot : screen = "twins" /\ badge[l] # 0 ~> (twins[l] = LotState(l) \/ badge[l] = 0)
=============================================================================
