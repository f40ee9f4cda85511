--------------------------- MODULE LiveFeedProofs ----------------------------
(***************************************************************************)
(* What the broker holds of a node is recent, for any nodes, any number of *)
(* outages and restarts, and any length of silence.                        *)
(*                                                                         *)
(* lastSeenAt is the gateway's measure of silence and it is right about    *)
(* the nodes no command has touched (SeenIsHeard); the message the broker  *)
(* retains is at most one heartbeat behind it (RetainedFollows), because   *)
(* every node the gateway knows is in every heartbeat, and one that the    *)
(* broker did not get is in missed.                                        *)
(***************************************************************************)
EXTENDS LiveFeed, TLAPS

Age == 0 .. Unknown

ClockShape ==
  /\ nodes \in [Device -> Age]
  /\ silence \in [Device -> 0 .. Longest]
  /\ DOMAIN retained = Topic
  /\ beatDue \in BOOLEAN

SeenIsHeard ==
  \A d \in Device \ commanded : nodes[d] # Unknown => nodes[d] = silence[d]

(* With the heartbeat sent, the message is what the gateway says now; with *)
(* it due, the message may be one period old.                              *)
RetainedFollows ==
  \A d \in Device \ (missed \cup commanded) : retained[d] # Nothing =>
    /\ nodes[d] # Unknown
    /\ ~beatDue => (retained[d].online <=> nodes[d] <= OfflineAfter)
    /\ retained[d].online => nodes[d] <= OfflineAfter + 1
    /\ ~retained[d].online => nodes[d] > OfflineAfter

FeedInv == ClockShape /\ SeenIsHeard /\ RetainedFollows

-----------------------------------------------------------------------------
LEMMA AfterIsNat == OfflineAfter \in Nat
BY FeedAssumption DEF FeedAssumption

(* A publication reaches the broker or is in missed; other topics are left *)
(* alone.                                                                  *)
LEMMA SendReaches ==
  ASSUME ClockShape, NEW topics \in SUBSET Topic, Send(topics), NEW d \in Device
  PROVE  /\ DOMAIN retained' = Topic
         /\ d \in topics => d \in missed' \/ retained'[d].online = Online(nodes'[d])
         /\ d \notin topics => retained'[d] = retained[d] /\ (d \in missed' <=> d \in missed)
<1>1. d \in Topic /\ Message(d)'.online = Online(nodes'[d])
  BY DEF Topic, Message, HealthEvent
<1>2. CASE connected
  BY <1>1, <1>2 DEF Send, ClockShape
<1>3. CASE ~connected
  BY <1>3 DEF Send, ClockShape
<1> QED BY <1>2, <1>3

(* A step that leaves the clocks and the broker alone, and commands at     *)
(* most more nodes, keeps the invariant.                                   *)
LEMMA OthersKeepInv ==
  ASSUME FeedInv, UNCHANGED <<nodes, silence, beatDue, retained, missed, commanded>>
  PROVE  FeedInv'
BY DEF FeedInv, ClockShape, SeenIsHeard, RetainedFollows

LEMMA InitFeed == Init => FeedInv
<1> SUFFICES ASSUME Init PROVE FeedInv
  OBVIOUS
<1>1. ClockShape
  <2>1. Unknown \in Age /\ 0 \in 0 .. Longest
    BY AfterIsNat DEF Age, Unknown, Longest
  <2> QED BY <2>1 DEF Init, ClockShape
<1>2. \A d \in Device : nodes[d] = Unknown /\ retained[d] = Nothing
  BY DEF Init, Topic
<1> QED BY <1>1, <1>2 DEF FeedInv, SeenIsHeard, RetainedFollows

LEMMA TickKeepsInv == FeedInv /\ Tick => FeedInv'
<1> SUFFICES ASSUME FeedInv, Tick PROVE FeedInv'
  OBVIOUS
<1>1. \A d \in Device : nodes'[d] = Aged(nodes[d]) /\ silence'[d] = Aged(silence[d])
  BY DEF Tick
<1>2. ClockShape'
  BY AfterIsNat DEF FeedInv, ClockShape, Tick, Aged, Age, Unknown, Longest, brokerVars
<1>3. \A d \in Device : nodes'[d] # Unknown => nodes[d] # Unknown
  BY <1>1, AfterIsNat DEF FeedInv, ClockShape, Aged, Age, Unknown, Longest
<1>4. SeenIsHeard'
  BY <1>1, <1>3 DEF FeedInv, SeenIsHeard, Tick
<1>5. RetainedFollows'
  <2> SUFFICES ASSUME NEW d \in Device, d \notin missed, d \notin commanded, retained[d] # Nothing
               PROVE  /\ nodes'[d] # Unknown
                      /\ retained[d].online => nodes'[d] <= OfflineAfter + 1
                      /\ ~retained[d].online => nodes'[d] > OfflineAfter
    BY DEF RetainedFollows, Tick, brokerVars
  <2>1. /\ nodes[d] \in Age /\ nodes[d] # Unknown
        /\ retained[d].online <=> nodes[d] <= OfflineAfter
    BY DEF FeedInv, ClockShape, RetainedFollows, Tick
  <2> QED BY <1>1, <2>1, AfterIsNat DEF Aged, Age, Unknown, Longest
<1> QED BY <1>2, <1>4, <1>5 DEF FeedInv

LEMMA HeartbeatKeepsInv == FeedInv /\ Heartbeat => FeedInv'
<1> SUFFICES ASSUME FeedInv, Heartbeat PROVE FeedInv'
  OBVIOUS
<1>1. Known \in SUBSET Topic
  BY DEF Known, Topic
<1>2. /\ UNCHANGED <<nodes, silence, commanded>> /\ Send(Known) /\ beatDue' = FALSE
  BY DEF Heartbeat, gatewayVars, worldVars
<1>3. ASSUME NEW d \in Device
      PROVE  /\ DOMAIN retained' = Topic
             /\ d \in Known => d \in missed' \/ retained'[d].online = Online(nodes'[d])
             /\ d \notin Known => retained'[d] = retained[d] /\ (d \in missed' <=> d \in missed)
  BY <1>1, <1>2, SendReaches DEF FeedInv
<1>4. DOMAIN retained' = Topic
  BY <1>1, <1>2 DEF Send, FeedInv, ClockShape
<1>5. ClockShape' /\ SeenIsHeard'
  BY <1>2, <1>4 DEF FeedInv, ClockShape, SeenIsHeard
<1>6. RetainedFollows'
  <2> SUFFICES ASSUME NEW d \in Device, d \notin missed', d \notin commanded, retained'[d] # Nothing
               PROVE  /\ nodes[d] # Unknown
                      /\ retained'[d].online <=> nodes[d] <= OfflineAfter
                      /\ retained'[d].online => nodes[d] <= OfflineAfter + 1
                      /\ ~retained'[d].online => nodes[d] > OfflineAfter
    BY <1>2 DEF RetainedFollows
  <2>1. nodes[d] # Unknown
    BY <1>3 DEF Known, FeedInv, RetainedFollows
  <2>2. retained'[d].online = (nodes[d] <= OfflineAfter) /\ nodes[d] \in Age
    BY <1>2, <1>3, <2>1 DEF Known, Online, FeedInv, ClockShape
  <2>3. /\ nodes[d] <= OfflineAfter => nodes[d] <= OfflineAfter + 1
        /\ ~(nodes[d] <= OfflineAfter) => nodes[d] > OfflineAfter
    BY <2>2, AfterIsNat DEF Age, Unknown, Longest
  <2> QED BY <2>1, <2>2, <2>3, Zenon
<1> QED BY <1>5, <1>6 DEF FeedInv

(* Whoever is heard is published as well, and whoever is only commanded is *)
(* out of the invariant's sight.                                           *)
LEMMA HearKeepsInv ==
  ASSUME FeedInv, NEW d \in Device, NEW by \in Relays(d), NEW lots \in SUBSET Lot,
         NEW breach \in BOOLEAN, Hear(d, by, lots, breach)
  PROVE  FeedInv'
<1> DEFINE heard == {d} \cup by
           told == IF breach THEN Known \ heard ELSE {}
<1>1. heard \in SUBSET Device /\ told \in SUBSET Device
  BY DEF Relays, Known
<1>2. /\ nodes' = [x \in Device |-> IF x \in heard \cup told THEN 0 ELSE nodes[x]]
      /\ silence' = [x \in Device |-> IF x \in heard THEN 0 ELSE silence[x]]
      /\ commanded' = (commanded \ heard) \cup told
      /\ Send(heard \cup lots) /\ UNCHANGED beatDue
  BY DEF Hear, See
<1> HIDE DEF heard, told
<1>3. heard \cup lots \in SUBSET Topic
  BY <1>1 DEF Topic
<1>4. ASSUME NEW x \in Device
      PROVE  /\ x \in heard => x \in missed' \/ retained'[x].online = Online(nodes'[x])
             /\ x \notin heard => retained'[x] = retained[x] /\ (x \in missed' <=> x \in missed)
  BY <1>2, <1>3, SendReaches, FeedAssumption DEF FeedInv, FeedAssumption
<1>5. ClockShape'
  <2>1. DOMAIN retained' = Topic
    BY <1>2, <1>3 DEF Send, FeedInv, ClockShape
  <2>2. 0 \in Age /\ 0 \in 0 .. Longest
    BY AfterIsNat DEF Age, Unknown, Longest
  <2> QED BY <1>2, <2>1, <2>2 DEF FeedInv, ClockShape
<1>6. SeenIsHeard'
  BY <1>2 DEF FeedInv, ClockShape, SeenIsHeard
<1>7. RetainedFollows'
  <2> SUFFICES ASSUME NEW x \in Device, x \notin missed', x \notin commanded', retained'[x] # Nothing
               PROVE  /\ nodes'[x] # Unknown
                      /\ ~beatDue => (retained'[x].online <=> nodes'[x] <= OfflineAfter)
                      /\ retained'[x].online => nodes'[x] <= OfflineAfter + 1
                      /\ ~retained'[x].online => nodes'[x] > OfflineAfter
    BY <1>2 DEF RetainedFollows
  <2>1. CASE x \in heard
    <3>1. nodes'[x] = 0 /\ retained'[x].online = (0 <= OfflineAfter)
      BY <1>2, <1>4, <2>1 DEF Online
    <3>2. 0 # Unknown /\ 0 <= OfflineAfter /\ 0 <= OfflineAfter + 1
      BY AfterIsNat DEF Unknown, Longest
    <3> QED BY <3>1, <3>2, Zenon
  <2>2. CASE x \notin heard
    <3>1. /\ nodes'[x] = nodes[x] /\ x \notin commanded
          /\ retained'[x] = retained[x] /\ x \notin missed
      BY <1>2, <1>4, <2>2
    <3> QED BY <3>1 DEF FeedInv, RetainedFollows
  <2> QED BY <2>1, <2>2
<1> QED BY <1>5, <1>6, <1>7 DEF FeedInv

LEMMA PublishLotsKeepsInv ==
  ASSUME FeedInv, NEW lots \in SUBSET Lot, PublishLots(lots)
  PROVE  FeedInv'
<1>1. /\ UNCHANGED <<nodes, silence, commanded, beatDue>> /\ Send(lots)
      /\ lots \in SUBSET Topic
  BY DEF PublishLots, worldVars, Topic
<1>2. \A x \in Device : retained'[x] = retained[x] /\ (x \in missed' <=> x \in missed)
  BY <1>1, SendReaches, FeedAssumption DEF FeedInv, FeedAssumption
<1>3. DOMAIN retained' = Topic
  BY <1>1 DEF Send, FeedInv, ClockShape
<1> QED BY <1>1, <1>2, <1>3 DEF FeedInv, ClockShape, SeenIsHeard, RetainedFollows

LEMMA CommandKeepsInv ==
  ASSUME FeedInv, NEW devices \in SUBSET Device, Command(devices)
  PROVE  FeedInv'
<1>1. /\ nodes' = [x \in Device |-> IF x \in devices THEN 0 ELSE nodes[x]]
      /\ commanded' = commanded \cup devices
      /\ UNCHANGED <<silence, beatDue, retained, missed>>
  BY DEF Command, See, brokerVars
<1>2. ClockShape'
  <2>1. 0 \in Age
    BY AfterIsNat DEF Age, Unknown, Longest
  <2> QED BY <1>1, <2>1 DEF FeedInv, ClockShape
<1>3. \A x \in Device \ commanded' : nodes'[x] = nodes[x] /\ x \notin commanded
  BY <1>1
<1> QED BY <1>1, <1>2, <1>3 DEF FeedInv, SeenIsHeard, RetainedFollows

LEMMA CommissionKeepsInv ==
  ASSUME FeedInv, NEW d \in Device, Commission(d)
  PROVE  FeedInv'
<1>1. /\ nodes' = [x \in Device |-> IF x = d THEN 0 ELSE nodes[x]]
      /\ commanded' = commanded \cup {d}
      /\ UNCHANGED <<silence, beatDue>> /\ Send({d}) /\ {d} \in SUBSET Topic
  BY DEF Commission, See, Topic
<1>2. \A x \in Device \ {d} : retained'[x] = retained[x] /\ (x \in missed' <=> x \in missed)
  BY <1>1, SendReaches DEF FeedInv
<1>3. ClockShape'
  <2>1. 0 \in Age /\ DOMAIN retained' = Topic
    BY <1>1, AfterIsNat DEF Send, FeedInv, ClockShape, Age, Unknown, Longest
  <2> QED BY <1>1, <2>1 DEF FeedInv, ClockShape
<1>4. \A x \in Device \ commanded' : nodes'[x] = nodes[x] /\ x \notin commanded /\ x # d
  BY <1>1
<1> QED BY <1>1, <1>2, <1>3, <1>4 DEF FeedInv, SeenIsHeard, RetainedFollows

(* A broker that starts again holds nothing, and a gateway that starts     *)
(* again owes the broker every message.                                    *)
LEMMA RestartsKeepInv == FeedInv /\ (BrokerRestart \/ GatewayRestart) => FeedInv'
<1> SUFFICES ASSUME FeedInv, BrokerRestart \/ GatewayRestart PROVE FeedInv'
  OBVIOUS
<1>1. CASE BrokerRestart
  <2>1. /\ UNCHANGED <<nodes, silence, beatDue, commanded>>
        /\ retained' = [t \in Topic |-> Nothing]
    BY <1>1 DEF BrokerRestart, gatewayVars, worldVars
  <2>2. \A d \in Device : retained'[d] = Nothing
    BY <2>1 DEF Topic
  <2> QED BY <2>1, <2>2 DEF FeedInv, ClockShape, SeenIsHeard, RetainedFollows
<1>2. CASE GatewayRestart
  <2>1. /\ nodes' = [d \in Device |-> Unknown] /\ missed' = Topic /\ beatDue' = FALSE
        /\ UNCHANGED <<silence, retained>>
    BY <1>2 DEF GatewayRestart
  <2>2. Unknown \in Age
    BY AfterIsNat DEF Age, Unknown, Longest
  <2> QED BY <2>1, <2>2 DEF FeedInv, ClockShape, SeenIsHeard, RetainedFollows, Topic
<1> QED BY <1>1, <1>2

LEMMA FeedInvStep == FeedInv /\ [Next]_vars => FeedInv'
<1> SUFFICES ASSUME FeedInv, [Next]_vars PROVE FeedInv'
  OBVIOUS
<1>1. ASSUME NEW d \in Device, NEW by \in Relays(d), NEW lots \in SUBSET Lot,
             NEW breach \in BOOLEAN, Hear(d, by, lots, breach)
      PROVE  FeedInv'
  BY <1>1, HearKeepsInv
<1>2. ASSUME NEW devices \in {Known} \cup {{d} : d \in Known}, Command(devices)
      PROVE  FeedInv'
  <2>1. devices \in SUBSET Device
    BY <1>2 DEF Known
  <2> QED BY <1>2, <2>1, CommandKeepsInv
<1>3. CASE UNCHANGED <<nodes, silence, beatDue, retained, missed, commanded>>
  BY <1>3, OthersKeepInv
<1>4. ASSUME NEW d \in Device, Commission(d) PROVE FeedInv'
  BY <1>4, CommissionKeepsInv
<1>5. ASSUME NEW lots \in SUBSET Lot, PublishLots(lots) PROVE FeedInv'
  BY <1>5, PublishLotsKeepsInv
<1>6. \/ Connect \/ Disconnect \/ TabConnect \/ TabDisconnect \/ Poll
      \/ (\E d \in Device : Die(d)) \/ (\E t \in Topic : OnMessage(t))
      \/ (\E i \in DOMAIN polls : Answer(i) \/ PollFails(i)) \/ UNCHANGED vars
      => UNCHANGED <<nodes, silence, beatDue, retained, missed, commanded>>
  BY DEF Connect, Disconnect, TabConnect, TabDisconnect, Poll, Die, OnMessage, Answer,
     PollFails, vars, gatewayVars, brokerVars, worldVars
<1> QED
  BY <1>1, <1>2, <1>3, <1>4, <1>5, <1>6, TickKeepsInv, HeartbeatKeepsInv, RestartsKeepInv
     DEF Next

(* What the broker holds of a node whose messages all reached it calls the *)
(* node online for OFFLINE_AFTER_MS and one more period at most, and never *)
(* offline before OFFLINE_AFTER_MS of silence (the heartbeat timer of      *)
(* index.ts): for any swarm, through every outage, restart and poll.  The  *)
(* bound is the code's 7.5 s, not the 5 s its comment promises.            *)
THEOREM OnlineIsRecentAlways == FeedSpec => []OnlineIsRecent
<1>1. FeedInv => OnlineIsRecent
  <2> SUFFICES ASSUME FeedInv, NEW d \in Device \ (missed \cup commanded), retained[d] # Nothing
               PROVE  /\ retained[d].online => silence[d] <= OfflineAfter + 1
                      /\ ~retained[d].online => silence[d] > OfflineAfter
    BY DEF OnlineIsRecent
  <2>1. nodes[d] = silence[d]
    BY DEF FeedInv, SeenIsHeard, RetainedFollows
  <2> QED BY <2>1 DEF FeedInv, RetainedFollows
<1> QED BY <1>1, InitFeed, FeedInvStep, PTL DEF FeedSpec
=============================================================================
