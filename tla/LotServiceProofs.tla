-------------------------- MODULE LotServiceProofs ---------------------------
(***************************************************************************)
(* No breach is lost between the gateway and the chain without a cause,    *)
(* and nothing is shown flagged without one, for any lots, any number of   *)
(* faults and restarts, and whatever others do on chain.                   *)
(*                                                                         *)
(* The service only ever takes steps of LotRegistry, so what that module's *)
(* theorems say of the chain holds beside it.  The invariant ServiceInv    *)
(* says why a flagLot cannot fail for want of its lot: the job that opens  *)
(* the lot is ahead of it in the queue (OpenedFirst), a job leaves the     *)
(* queue when its transaction took effect or was dropped (ReceiptCounts),  *)
(* and a flagLot is only sent for a lot that exists (SentFlagsExist).      *)
(***************************************************************************)
EXTENDS LotService, LotRegistryProofs

QueueShape ==
  /\ ServiceTypeOK
  /\ poll \in [todo : SUBSET LotId, found : SUBSET LotId, running : BOOLEAN]
  /\ seen \in SUBSET LotId
  /\ created \subseteq seen
  /\ flagSent \subseteq breaches

Warranted ==
  /\ ShownIsWarranted
  /\ \A l \in poll.found : flagged[l]

Queued(kind, l) == \E i \in DOMAIN txQueue : txQueue[i].kind = kind /\ txQueue[i].lot = l

(* A lot the gateway has a record of is open, or being opened, unless a    *)
(* call for it failed.                                                     *)
SeenIsOpened == \A l \in seen : Exists(l) \/ l \in dropped \/ Queued("createLot", l)

OpenedFirst ==
  \A i, j \in DOMAIN txQueue :
    txQueue[i].kind = "flagLot" /\ txQueue[j].kind = "createLot" /\ txQueue[i].lot = txQueue[j].lot
      => j < i

JobsInOrder ==
  \A i \in DOMAIN txQueue :
    /\ txQueue[i].lot \in seen
    /\ i > 1 => txQueue[i].step # "receipt"
    /\ txQueue[i].kind = "flagLot" => txQueue[i].step # "check"

SentFlagsExist ==
  \A k \in DOMAIN mempool : mempool[k].kind = "flagLot" => Exists(mempool[k].lot)

TookEffect(tx) == IF tx.kind = "createLot" THEN Exists(tx.lot) ELSE flagged[tx.lot]

Sent(tx) == \E k \in DOMAIN mempool : mempool[k] = tx

ReceiptCounts ==
  AtStep("receipt") =>
    LET tx == TxOf(Head(txQueue)) IN Sent(tx) \/ tx.lot \in dropped \/ TookEffect(tx)

CarryInv ==
  /\ SeenIsOpened /\ OpenedFirst /\ JobsInOrder /\ SentFlagsExist /\ ReceiptCounts
  /\ BreachIsCarried

ServiceInv == QueueShape /\ Warranted /\ CarryInv

-----------------------------------------------------------------------------
(* The three ways the queue changes: a job joins it, the job in progress   *)
(* moves on, the job in progress leaves.                                   *)
LEMMA JoinFacts ==
  ASSUME NEW S, NEW s \in Seq(S), NEW x \in S
  PROVE  /\ Append(s, x) \in Seq(S) /\ DOMAIN Append(s, x) = 1 .. Len(s) + 1
         /\ DOMAIN s = 1 .. Len(s) /\ Len(s) \in Nat
         /\ \A i \in DOMAIN s : Append(s, x)[i] = s[i]
         /\ Append(s, x)[Len(s) + 1] = x
OBVIOUS

LEMMA MoveFacts ==
  ASSUME NEW S, NEW s \in Seq(S), NEW x \in S, s # <<>>
  PROVE  /\ <<x>> \o Tail(s) \in Seq(S) /\ DOMAIN (<<x>> \o Tail(s)) = DOMAIN s
         /\ (<<x>> \o Tail(s))[1] = x /\ 1 \in DOMAIN s
         /\ \A i \in DOMAIN s \ {1} : (<<x>> \o Tail(s))[i] = s[i]
OBVIOUS

LEMMA LeaveFacts ==
  ASSUME NEW S, NEW s \in Seq(S), s # <<>>
  PROVE  /\ Tail(s) \in Seq(S) /\ Head(s) = s[1] /\ s[1] \in S /\ 1 \in DOMAIN s
         /\ DOMAIN s \subseteq Nat \ {0} /\ DOMAIN Tail(s) \subseteq Nat \ {0}
         /\ \A i \in DOMAIN Tail(s) : i + 1 \in DOMAIN s /\ Tail(s)[i] = s[i + 1]
         /\ \A i \in DOMAIN s \ {1} : i - 1 \in DOMAIN Tail(s) /\ Tail(s)[i - 1] = s[i]
OBVIOUS

LEMMA OnItsWayIs ==
  ASSUME NEW l \in LotId
  PROVE  OnItsWay(l) <=> Queued("flagLot", l) \/ Sent([kind |-> "flagLot", lot |-> l])
BY DEF OnItsWay, Queued, Sent, ToSet

-----------------------------------------------------------------------------
(* The shape of the state.                                                 *)
LEMMA ShapeInit == ServiceInit => QueueShape
BY DEF ServiceInit, FreshGateway, QueueShape, ServiceTypeOK, NoPoll, Job, Tx

LEMMA ShapeStep == QueueShape /\ [ServiceNext]_serviceVars => QueueShape'
<1> SUFFICES ASSUME QueueShape, [ServiceNext]_serviceVars PROVE QueueShape'
  OBVIOUS
<1> USE DEF QueueShape, ServiceTypeOK
<1>1. ASSUME NEW l \in LotId, Sight(l) PROVE QueueShape'
  <2> DEFINE job == [kind |-> "createLot", lot |-> l, step |-> "check"]
  <2>1. job \in Job
    BY DEF Job
  <2>2. txQueue' = txQueue \/ txQueue' = Append(txQueue, job)
    BY <1>1 DEF Sight, Enqueue
  <2> HIDE DEF job
  <2>3. txQueue' \in Seq(Job)
    BY <2>1, <2>2, JoinFacts
  <2> QED BY <1>1, <2>3 DEF Sight
<1>2. ASSUME NEW l \in LotId, Breach(l) PROVE QueueShape'
  <2> DEFINE job == [kind |-> "flagLot", lot |-> l, step |-> "send"]
  <2>1. job \in Job
    BY DEF Job
  <2>2. txQueue' = txQueue \/ txQueue' = Append(txQueue, job)
    BY <1>2 DEF Breach, Enqueue
  <2> HIDE DEF job
  <2>3. txQueue' \in Seq(Job)
    BY <2>1, <2>2, JoinFacts
  <2> QED BY <1>2, <2>3 DEF Breach
<1>3. ASSUME NEW st \in {"check", "send", "receipt"}, txQueue # <<>>
      PROVE  <<[Head(txQueue) EXCEPT !.step = st]>> \o Tail(txQueue) \in Seq(Job)
  <2>1. Head(txQueue) \in Job
    BY <1>3, LeaveFacts
  <2>2. [Head(txQueue) EXCEPT !.step = st] \in Job
    BY <2>1 DEF Job
  <2> QED BY <1>3, <2>2, MoveFacts
<1>4. txQueue # <<>> => /\ Tail(txQueue) \in Seq(Job) /\ Head(txQueue) \in Job
                        /\ TxOf(Head(txQueue)) \in Tx /\ Head(txQueue).lot \in LotId
  <2>1. txQueue # <<>> => Tail(txQueue) \in Seq(Job) /\ Head(txQueue) \in Job
    BY LeaveFacts
  <2> QED BY <2>1 DEF TxOf, Tx, Job
<1>5. CASE CheckLot
  BY <1>3, <1>4, <1>5 DEF CheckLot, AtStep, GoTo
<1>6. CASE Send
  <2>1. mempool' \in Seq(Tx)
    BY <1>4, <1>6, JoinFacts DEF Send, AtStep
  <2> QED BY <1>3, <1>6, <2>1 DEF Send, AtStep, GoTo
<1>7. CASE JobFails
  <2>1. txQueue # <<>>
    BY <1>7 DEF JobFails, AtStep
  <2>2. mempool' \in Seq(Tx)
    <3>1. mempool' = mempool \/ mempool' = Append(mempool, TxOf(Head(txQueue)))
      BY <1>7 DEF JobFails
    <3> QED BY <1>4, <2>1, <3>1, JoinFacts
  <2> QED BY <1>4, <1>7, <2>1, <2>2 DEF JobFails, Unlatch
<1>8. CASE Receipt
  BY <1>4, <1>8 DEF Receipt, AtStep
<1>9. CASE Mine
  BY <1>9, LeaveFacts DEF Mine, gatewayState
<1>10. CASE StartPoll
  BY <1>10 DEF StartPoll, Candidates
<1>11. ASSUME NEW l \in LotId, PollRead(l) PROVE QueueShape'
  <2>1. \E todo \in SUBSET poll.todo, found \in SUBSET (poll.found \cup {l}) :
          poll' = [poll EXCEPT !.todo = todo, !.found = found]
    <3>1. CASE poll' = [poll EXCEPT !.todo = @ \ {l}]
      <4>1. poll' = [poll EXCEPT !.todo = @ \ {l}, !.found = poll.found]
        BY <3>1
      <4> QED BY <4>1
    <3>2. CASE poll' = [poll EXCEPT !.todo = @ \ {l}, !.found = IF IsTainted(l) THEN @ \cup {l} ELSE @]
      BY <3>2
    <3> QED BY <1>11, <3>1, <3>2 DEF PollRead
  <2>2. l \in seen
    BY <1>11 DEF PollRead
  <2>3. /\ poll' \in [todo : SUBSET LotId, found : SUBSET LotId, running : BOOLEAN]
        /\ poll'.todo \cup poll'.found \subseteq seen
    BY <2>1, <2>2
  <2> QED BY <1>11, <2>3 DEF PollRead
<1>12. CASE EndPoll
  BY <1>12 DEF EndPoll, MarkFound, NoPoll
<1>13. CASE Restart
  BY <1>13 DEF Restart, NoPoll
<1>14. CASE Admin \/ Outside \/ UNCHANGED serviceVars
  BY <1>14 DEF Admin, Outside, serviceVars, gatewayState
<1> QED
  BY <1>1, <1>2, <1>5, <1>6, <1>7, <1>8, <1>9, <1>10, <1>11, <1>12, <1>13, <1>14
     DEF ServiceNext, Work, Polling

(* Whatever the gateway and the others do is a transaction of LotRegistry  *)
(* or leaves the contract alone.                                           *)
LEMMA RegistryStep == QueueShape /\ [ServiceNext]_serviceVars => [Next]_vars
<1> SUFFICES ASSUME QueueShape, [ServiceNext]_serviceVars, ~UNCHANGED vars PROVE Next
  OBVIOUS
<1>1. CASE Mine
  <2>1. Head(mempool) \in Tx /\ Execute(Head(mempool))
    BY <1>1, LeaveFacts DEF Mine, QueueShape, ServiceTypeOK
  <2>2. Gateway \in Address /\ Head(mempool).lot \in LotId
    BY <2>1, ServiceAssumption DEF Tx
  <2> QED BY <2>1, <2>2 DEF Execute, Next
<1>2. CASE Admin
  BY <1>2 DEF Admin, Next
<1>3. CASE Outside
  BY <1>3 DEF Outside, Next
<1> QED
  BY <1>1, <1>2, <1>3
     DEF ServiceNext, Work, Polling, Sight, Breach, CheckLot, Send, JobFails, Receipt,
         StartPoll, PollRead, EndPoll, Restart, serviceVars

LEMMA ServiceShape == ServiceSpec => []QueueShape
<1> QED BY ShapeInit, ShapeStep, PTL DEF ServiceSpec

(* The gateway, its queue and the other parties run the contract as it is: *)
(* every behaviour of theirs is one of LotRegistry, and what that module's *)
(* theorems say holds here.                                                *)
THEOREM ServiceRunsRegistry == ServiceSpec => Spec
<1>1. ServiceInit => Init
  BY DEF ServiceInit
<1> QED BY <1>1, ServiceShape, RegistryStep, PTL DEF ServiceSpec, Spec

-----------------------------------------------------------------------------
(* What the chain said stays true: a flag once read is never cleared.      *)
LEMMA RegistryKeeps ==
  ASSUME LotInv, QueueShape, [ServiceNext]_serviceVars
  PROVE  \A l \in LotId : (flagged[l] => flagged'[l]) /\ (Exists(l) => Exists(l)')
BY RegistryStep, EvidenceStep DEF LotInv, EvidenceStays

LEMMA WarrantedStep ==
  LotInv /\ QueueShape /\ Warranted /\ [ServiceNext]_serviceVars => Warranted'
<1> SUFFICES ASSUME LotInv, QueueShape, Warranted, [ServiceNext]_serviceVars PROVE Warranted'
  OBVIOUS
<1>0. /\ \A l \in LotId : flagged[l] => flagged'[l]
      /\ flaggedLots \subseteq LotId /\ poll.found \subseteq LotId
  BY RegistryKeeps DEF QueueShape, ServiceTypeOK
<1>1. ASSUME flaggedLots' \subseteq flaggedLots \cup (breaches' \ breaches) \cup poll.found,
             breaches \subseteq breaches' \/ flaggedLots' = {},
             \A l \in poll'.found : l \in poll.found \/ flagged[l],
             poll'.found \subseteq LotId
      PROVE  Warranted'
  BY <1>0, <1>1 DEF Warranted, ShownIsWarranted
<1>2. QueueShape'
  BY ShapeStep
<1>3. ASSUME NEW l \in LotId, PollRead(l) PROVE Warranted'
  <2>1. \A x \in poll'.found : x \in poll.found \/ flagged[x]
    <3>1. \/ poll'.found = poll.found
          \/ poll'.found = poll.found \cup {l} /\ flagged[l]
      BY <1>3 DEF PollRead, IsTainted, QueueShape
    <3> QED BY <3>1
  <2> QED BY <1>1, <1>2, <1>3, <2>1 DEF PollRead, QueueShape
<1>4. ASSUME UNCHANGED <<flaggedLots, poll, breaches>> PROVE Warranted'
  BY <1>0, <1>1, <1>4
<1>5. CASE EndPoll
  BY <1>0, <1>1, <1>5 DEF EndPoll, MarkFound, NoPoll
<1>6. CASE StartPoll
  BY <1>0, <1>1, <1>6 DEF StartPoll
<1>7. CASE Restart
  BY <1>0, <1>1, <1>7 DEF Restart, NoPoll
<1>8. ASSUME NEW l \in LotId, Breach(l) PROVE Warranted'
  <2>1. /\ flaggedLots' = flaggedLots \cup {l} /\ breaches' = breaches \cup {l}
        /\ poll' = poll
    BY <1>8 DEF Breach
  <2> QED BY <1>0, <2>1 DEF Warranted, ShownIsWarranted
<1> QED
  BY <1>3, <1>4, <1>5, <1>6, <1>7, <1>8
     DEF ServiceNext, Work, Polling, Sight, CheckLot, Send, JobFails, Receipt, Mine,
         Admin, Outside, serviceVars, gatewayState

-----------------------------------------------------------------------------
(* The way of a breach to the chain.                                       *)

LEMMA HeadJob ==
  ASSUME QueueShape, txQueue # <<>>
  PROVE  /\ Head(txQueue) = txQueue[1] /\ 1 \in DOMAIN txQueue
         /\ Head(txQueue) \in Job /\ Head(txQueue).lot \in LotId
         /\ TxOf(Head(txQueue)) \in Tx
<1>1. Head(txQueue) \in Job /\ Head(txQueue) = txQueue[1] /\ 1 \in DOMAIN txQueue
  BY LeaveFacts DEF QueueShape, ServiceTypeOK
<1> QED BY <1>1 DEF Job, Tx, TxOf

LEMMA MempoolTx ==
  ASSUME QueueShape, NEW k \in DOMAIN mempool
  PROVE  mempool[k] \in Tx /\ mempool[k].lot \in LotId
<1>1. mempool[k] \in Tx
  BY DEF QueueShape, ServiceTypeOK
<1> QED BY <1>1 DEF Tx

(* A step that leaves the queue alone, mines nothing and forgets nothing.  *)
LEMMA OthersKeepCarry ==
  ASSUME QueueShape, CarryInv,
         UNCHANGED <<txQueue, mempool, seen, breaches, dropped>>,
         \A l \in LotId : (flagged[l] => flagged'[l]) /\ (Exists(l) => Exists(l)')
  PROVE  CarryInv'
<1>0. breaches \subseteq LotId /\ seen \subseteq LotId
  BY DEF QueueShape, ServiceTypeOK
<1>1. AtStep("receipt") => Head(txQueue).lot \in LotId
  BY HeadJob DEF AtStep
<1>2. \A k \in DOMAIN mempool : mempool[k].lot \in LotId
  BY MempoolTx
<1>3. SeenIsOpened' /\ OpenedFirst' /\ JobsInOrder'
  BY <1>0 DEF CarryInv, SeenIsOpened, OpenedFirst, JobsInOrder, Queued
<1>4. SentFlagsExist'
  BY <1>2 DEF CarryInv, SentFlagsExist
<1>5. ReceiptCounts'
  BY <1>1 DEF CarryInv, ReceiptCounts, AtStep, TookEffect, Sent, TxOf
<1>6. BreachIsCarried'
  BY <1>0 DEF CarryInv, BreachIsCarried, OnItsWay
<1> QED BY <1>3, <1>4, <1>5, <1>6 DEF CarryInv

(* A lot seen for the first time has no job yet, so the one that opens it  *)
(* comes before any that flags it.                                         *)
LEMMA SightKeepsCarry ==
  ASSUME QueueShape, CarryInv, NEW l \in LotId, Sight(l)
  PROVE  CarryInv'
<1> DEFINE job == [kind |-> "createLot", lot |-> l, step |-> "check"]
<1>1. /\ l \notin seen /\ seen' = seen \cup {l} /\ txQueue' = Append(txQueue, job)
      /\ UNCHANGED <<lotState, flagged, mempool, breaches, dropped>>
  BY DEF Sight, Enqueue, QueueShape, vars, lotVars
<1>2. job \in Job /\ job.kind = "createLot" /\ job.lot = l /\ job.step = "check"
  BY DEF Job
<1> HIDE DEF job
<1> DEFINE n == Len(txQueue) + 1
<1>3. /\ DOMAIN txQueue' = 1 .. n /\ DOMAIN txQueue = 1 .. n - 1 /\ n \in Nat \ {0}
      /\ \A i \in DOMAIN txQueue : txQueue'[i] = txQueue[i]
      /\ txQueue'[n] = job
  BY <1>1, <1>2, JoinFacts DEF QueueShape, ServiceTypeOK
<1> HIDE DEF n
<1>4. \A kind \in {"createLot", "flagLot"}, x \in LotId : Queued(kind, x) => Queued(kind, x)'
  BY <1>3 DEF Queued
<1>5. SeenIsOpened'
  <2>1. Queued("createLot", l)'
    BY <1>2, <1>3 DEF Queued
  <2> QED BY <1>1, <1>4, <2>1 DEF CarryInv, SeenIsOpened, QueueShape, Exists
<1>6. OpenedFirst'
  <2> SUFFICES ASSUME NEW i \in 1 .. n, NEW j \in 1 .. n, txQueue'[i].kind = "flagLot",
                      txQueue'[j].kind = "createLot", txQueue'[i].lot = txQueue'[j].lot
               PROVE  j < i
    BY <1>3 DEF OpenedFirst
  <2>1. i # n /\ i \in DOMAIN txQueue /\ txQueue'[i] = txQueue[i]
    BY <1>2, <1>3
  <2>2. j # n
    BY <1>1, <1>2, <1>3, <2>1 DEF CarryInv, JobsInOrder
  <2>3. j \in DOMAIN txQueue /\ txQueue'[j] = txQueue[j]
    BY <1>3, <2>2
  <2> QED BY <2>1, <2>3 DEF CarryInv, OpenedFirst
<1>7. JobsInOrder'
  BY <1>1, <1>2, <1>3 DEF CarryInv, JobsInOrder
<1>8. SentFlagsExist'
  BY <1>1 DEF CarryInv, SentFlagsExist, Exists
<1>9. ReceiptCounts'
  <2> SUFFICES ASSUME AtStep("receipt")' PROVE ReceiptCounts'
    BY DEF ReceiptCounts
  <2>1. Head(txQueue') = txQueue'[1] /\ txQueue'[1].step = "receipt"
    BY DEF AtStep
  <2>2. 1 \in DOMAIN txQueue /\ txQueue'[1] = txQueue[1]
    BY <1>2, <1>3, <2>1
  <2>3. Head(txQueue') = Head(txQueue) /\ AtStep("receipt")
    BY <2>1, <2>2 DEF AtStep, QueueShape, ServiceTypeOK
  <2> QED BY <1>1, <2>3 DEF CarryInv, ReceiptCounts, TookEffect, Sent, TxOf, Exists
<1>10. BreachIsCarried'
  <2>1. breaches \subseteq LotId
    BY DEF QueueShape, ServiceTypeOK
  <2> QED BY <1>1, <1>4, <2>1, OnItsWayIs DEF CarryInv, BreachIsCarried, OnItsWay, Queued
<1> QED BY <1>5, <1>6, <1>7, <1>8, <1>9, <1>10 DEF CarryInv

(* A breach of a lot not known as flagged puts its job at the end of the   *)
(* queue, behind the job that opens the lot.                               *)
LEMMA BreachKeepsCarry ==
  ASSUME QueueShape, Warranted, CarryInv, NEW l \in LotId, Breach(l)
  PROVE  CarryInv'
<1> DEFINE job == [kind |-> "flagLot", lot |-> l, step |-> "send"]
<1>1. /\ l \in seen /\ breaches' = breaches \cup {l}
      /\ UNCHANGED <<lotState, flagged, mempool, seen, dropped>>
  BY DEF Breach, vars, lotVars
<1>2. CASE l \in flaggedLots \cup flagSent
  <2>1. UNCHANGED txQueue
    BY <1>2 DEF Breach
  <2>2. l \in breaches \/ flagged[l]
    BY <1>2 DEF Warranted, ShownIsWarranted, QueueShape
  <2>3. BreachIsCarried'
    BY <1>1, <2>1, <2>2 DEF CarryInv, BreachIsCarried, OnItsWay
  <2>4. SeenIsOpened' /\ OpenedFirst' /\ JobsInOrder' /\ SentFlagsExist' /\ ReceiptCounts'
    BY <1>1, <2>1 DEF CarryInv, SeenIsOpened, OpenedFirst, JobsInOrder, SentFlagsExist, ReceiptCounts,
       Queued, Sent, TookEffect, TxOf, AtStep, Exists
  <2> QED BY <2>3, <2>4 DEF CarryInv
<1>3. CASE l \notin flaggedLots \cup flagSent
  <2>1. txQueue' = Append(txQueue, job)
    BY <1>3 DEF Breach, Enqueue
  <2>2. job \in Job /\ job.kind = "flagLot" /\ job.lot = l /\ job.step = "send"
    BY DEF Job
  <2> HIDE DEF job
  <2> DEFINE n == Len(txQueue) + 1
  <2>3. /\ DOMAIN txQueue' = 1 .. n /\ DOMAIN txQueue = 1 .. n - 1 /\ n \in Nat \ {0}
        /\ \A i \in DOMAIN txQueue : txQueue'[i] = txQueue[i]
        /\ txQueue'[n] = job
    BY <2>1, <2>2, JoinFacts DEF QueueShape, ServiceTypeOK
  <2> HIDE DEF n
  <2>4. \A kind \in {"createLot", "flagLot"}, x \in LotId : Queued(kind, x) => Queued(kind, x)'
    BY <2>3 DEF Queued
  <2>5. SeenIsOpened'
    BY <1>1, <2>4 DEF CarryInv, SeenIsOpened, QueueShape, Exists
  <2>6. OpenedFirst'
    <3> SUFFICES ASSUME NEW i \in 1 .. n, NEW j \in 1 .. n, txQueue'[i].kind = "flagLot",
                        txQueue'[j].kind = "createLot", txQueue'[i].lot = txQueue'[j].lot
                 PROVE  j < i
      BY <2>3 DEF OpenedFirst
    <3>1. j # n /\ j \in DOMAIN txQueue /\ txQueue'[j] = txQueue[j]
      BY <2>2, <2>3
    <3>2. CASE i = n
      BY <2>3, <3>1, <3>2
    <3>3. CASE i # n
      <4>1. i \in DOMAIN txQueue /\ txQueue'[i] = txQueue[i]
        BY <2>3, <3>3
      <4> QED BY <3>1, <4>1 DEF CarryInv, OpenedFirst
    <3> QED BY <3>2, <3>3
  <2>7. JobsInOrder'
    BY <1>1, <2>2, <2>3 DEF CarryInv, JobsInOrder
  <2>8. SentFlagsExist'
    BY <1>1 DEF CarryInv, SentFlagsExist, Exists
  <2>9. ReceiptCounts'
    <3> SUFFICES ASSUME AtStep("receipt")' PROVE ReceiptCounts'
      BY DEF ReceiptCounts
    <3>1. Head(txQueue') = txQueue'[1] /\ txQueue'[1].step = "receipt"
      BY DEF AtStep
    <3>2. 1 \in DOMAIN txQueue /\ txQueue'[1] = txQueue[1]
      BY <2>2, <2>3, <3>1
    <3>3. Head(txQueue') = Head(txQueue) /\ AtStep("receipt")
      BY <3>1, <3>2 DEF AtStep, QueueShape, ServiceTypeOK
    <3> QED BY <1>1, <3>3 DEF CarryInv, ReceiptCounts, TookEffect, Sent, TxOf, Exists
  <2>10. BreachIsCarried'
    <3>1. Queued("flagLot", l)'
      BY <2>2, <2>3 DEF Queued
    <3>2. breaches \subseteq LotId
      BY DEF QueueShape, ServiceTypeOK
    <3> QED BY <1>1, <2>4, <3>1, <3>2 DEF CarryInv, BreachIsCarried, OnItsWay, Queued
  <2> QED BY <2>5, <2>6, <2>7, <2>8, <2>9, <2>10 DEF CarryInv
<1> QED BY <1>2, <1>3

(* The job in progress moves on: the jobs are the same.                    *)
LEMMA MoveKeepsCarry ==
  ASSUME QueueShape, CarryInv, txQueue # <<>>, NEW st \in {"send", "receipt"}, GoTo(st),
         UNCHANGED <<lotState, flagged, seen, breaches, dropped>>,
         \A tx \in Tx : Sent(tx) => Sent(tx)',
         SentFlagsExist',
         st = "receipt" => Sent(TxOf(Head(txQueue)))'
  PROVE  CarryInv'
<1> DEFINE job == [Head(txQueue) EXCEPT !.step = st]
<1>1. job \in Job /\ job.kind = txQueue[1].kind /\ job.lot = txQueue[1].lot /\ job.step = st
  BY HeadJob DEF Job
<1>2. txQueue' = <<job>> \o Tail(txQueue)
  BY DEF GoTo
<1> HIDE DEF job
<1>3. /\ DOMAIN txQueue' = DOMAIN txQueue /\ txQueue'[1] = job /\ 1 \in DOMAIN txQueue
      /\ \A i \in DOMAIN txQueue \ {1} : txQueue'[i] = txQueue[i]
  BY <1>1, <1>2, MoveFacts DEF QueueShape, ServiceTypeOK
<1>4. \A i \in DOMAIN txQueue : txQueue'[i].kind = txQueue[i].kind /\ txQueue'[i].lot = txQueue[i].lot
  BY <1>1, <1>3
<1>5. SeenIsOpened' /\ OpenedFirst'
  BY <1>3, <1>4 DEF CarryInv, SeenIsOpened, OpenedFirst, Queued, Exists
<1>6. JobsInOrder'
  BY <1>1, <1>3, <1>4, LeaveFacts DEF CarryInv, JobsInOrder, QueueShape, ServiceTypeOK
<1>7. ReceiptCounts'
  <2>1. Head(txQueue') = job
    BY <1>1, <1>2, <1>3
  <2>2. TxOf(job) = TxOf(Head(txQueue))
    BY <1>1, HeadJob DEF TxOf
  <2>3. AtStep("receipt")' => Sent(TxOf(Head(txQueue)))'
    BY <1>1, <2>1 DEF AtStep
  <2>4. TxOf(Head(txQueue))' = TxOf(Head(txQueue))
    BY <2>1, <2>2 DEF TxOf
  <2> QED BY <2>3, <2>4 DEF ReceiptCounts, Sent
<1>8. BreachIsCarried'
  <2> SUFFICES ASSUME NEW l \in breaches PROVE flagged[l] \/ OnItsWay(l)' \/ l \in dropped
    BY DEF BreachIsCarried
  <2>1. l \in LotId /\ [kind |-> "flagLot", lot |-> l] \in Tx
    BY DEF QueueShape, ServiceTypeOK, Tx
  <2>2. Queued("flagLot", l) => Queued("flagLot", l)'
    BY <1>3, <1>4 DEF Queued
  <2>3. OnItsWay(l) => OnItsWay(l)'
    BY <2>1, <2>2, OnItsWayIs DEF OnItsWay, Queued, Sent, ToSet
  <2> QED BY <2>3 DEF CarryInv, BreachIsCarried
<1> QED BY <1>5, <1>6, <1>7, <1>8 DEF CarryInv

(* A job leaves the queue for a cause: its transaction took effect, or a   *)
(* failure is on record.                                                   *)
LEMMA LeaveKeepsCarry ==
  ASSUME QueueShape, CarryInv, txQueue # <<>>, txQueue' = Tail(txQueue),
         UNCHANGED <<lotState, flagged, seen, breaches>>, dropped \subseteq dropped',
         \A tx \in Tx : Sent(tx) => Sent(tx)',
         SentFlagsExist',
         TookEffect(TxOf(Head(txQueue))) \/ Head(txQueue).lot \in dropped'
  PROVE  CarryInv'
<1>1. /\ \A i \in DOMAIN txQueue' : i + 1 \in DOMAIN txQueue /\ txQueue'[i] = txQueue[i + 1]
      /\ \A i \in DOMAIN txQueue \ {1} : i - 1 \in DOMAIN txQueue' /\ txQueue'[i - 1] = txQueue[i]
      /\ DOMAIN txQueue \subseteq Nat \ {0} /\ DOMAIN txQueue' \subseteq Nat \ {0}
  BY LeaveFacts DEF QueueShape, ServiceTypeOK
<1>2. ASSUME NEW kind \in {"createLot", "flagLot"}, NEW l \in LotId, Queued(kind, l), ~Queued(kind, l)'
      PROVE  l \in dropped' \/ TookEffect([kind |-> kind, lot |-> l])
  <2>1. PICK i \in DOMAIN txQueue : txQueue[i].kind = kind /\ txQueue[i].lot = l
    BY <1>2 DEF Queued
  <2>2. i = 1
    BY <1>1, <1>2, <2>1 DEF Queued
  <2>3. TxOf(Head(txQueue)) = [kind |-> kind, lot |-> l] /\ Head(txQueue).lot = l
    BY <2>1, <2>2, HeadJob DEF TxOf
  <2> QED BY <2>3
<1>3. SeenIsOpened'
  <2> SUFFICES ASSUME NEW l \in seen
               PROVE  Exists(l) \/ l \in dropped' \/ Queued("createLot", l)'
    BY DEF SeenIsOpened, Exists
  <2>1. l \in LotId
    BY DEF QueueShape
  <2>2. TookEffect([kind |-> "createLot", lot |-> l]) => Exists(l)
    BY DEF TookEffect
  <2> QED BY <1>2, <2>1, <2>2 DEF CarryInv, SeenIsOpened
<1>4. OpenedFirst'
  <2> SUFFICES ASSUME NEW i \in DOMAIN txQueue', NEW j \in DOMAIN txQueue', txQueue'[i].kind = "flagLot",
                      txQueue'[j].kind = "createLot", txQueue'[i].lot = txQueue'[j].lot
               PROVE  j < i
    BY DEF OpenedFirst
  <2>1. j + 1 < i + 1
    BY <1>1 DEF CarryInv, OpenedFirst
  <2> QED BY <1>1, <2>1
<1>5. JobsInOrder' /\ ~AtStep("receipt")'
  <2>1. ASSUME NEW i \in DOMAIN txQueue'
        PROVE  /\ txQueue'[i].lot \in seen /\ txQueue'[i].step # "receipt"
               /\ txQueue'[i].kind = "flagLot" => txQueue'[i].step # "check"
    <3>1. i + 1 \in DOMAIN txQueue /\ txQueue'[i] = txQueue[i + 1] /\ i + 1 > 1
      BY <1>1
    <3> QED BY <3>1 DEF CarryInv, JobsInOrder
  <2>2. txQueue' # <<>> => 1 \in DOMAIN txQueue' /\ Head(txQueue') = txQueue'[1]
    BY LeaveFacts DEF QueueShape, ServiceTypeOK
  <2> QED BY <2>1, <2>2 DEF JobsInOrder, AtStep
<1>6. BreachIsCarried'
  <2> SUFFICES ASSUME NEW l \in breaches PROVE flagged[l] \/ OnItsWay(l)' \/ l \in dropped'
    BY DEF BreachIsCarried
  <2>1. l \in LotId /\ [kind |-> "flagLot", lot |-> l] \in Tx
    BY DEF QueueShape, ServiceTypeOK, Tx
  <2>2. TookEffect([kind |-> "flagLot", lot |-> l]) => flagged[l]
    BY DEF TookEffect
  <2>3. OnItsWay(l) => OnItsWay(l)' \/ l \in dropped' \/ flagged[l]
    BY <1>2, <2>1, <2>2, OnItsWayIs DEF OnItsWay, Queued, Sent, ToSet
  <2> QED BY <2>3 DEF CarryInv, BreachIsCarried
<1> QED BY <1>3, <1>4, <1>5, <1>6 DEF CarryInv, ReceiptCounts

(* A transaction leaves the mempool with its effect, or is on record as    *)
(* dropped: one that opens a lot fails when someone opened the lot before, *)
(* one that flags it is only sent when the lot exists.                     *)
LEMMA MineKeepsCarry ==
  ASSUME LotInv, QueueShape, CarryInv, Mine,
         \A l \in LotId : (flagged[l] => flagged'[l]) /\ (Exists(l) => Exists(l)')
  PROVE  CarryInv'
<1>0. PICK tx \in Tx : tx = Head(mempool)
  BY LeaveFacts DEF Mine, QueueShape, ServiceTypeOK
<1>1. /\ mempool # <<>> /\ mempool' = Tail(mempool)
      /\ UNCHANGED <<txQueue, seen, breaches>> /\ dropped \subseteq dropped'
  BY DEF Mine, gatewayState
<1>2. /\ tx = mempool[1] /\ 1 \in DOMAIN mempool /\ tx.lot \in LotId
      /\ DOMAIN mempool' \subseteq Nat \ {0} /\ DOMAIN mempool \subseteq Nat \ {0}
      /\ \A k \in DOMAIN mempool' : k + 1 \in DOMAIN mempool /\ mempool'[k] = mempool[k + 1]
      /\ \A k \in DOMAIN mempool \ {1} : k - 1 \in DOMAIN mempool' /\ mempool'[k - 1] = mempool[k]
  BY <1>0, <1>1, LeaveFacts, MempoolTx DEF QueueShape, ServiceTypeOK
<1>3. TookEffect(tx)' \/ tx.lot \in dropped'
  <2>1. CASE Succeeds(tx)
    <3>1. Execute(tx)
      BY <1>0, <2>1 DEF Mine
    <3>2. CASE tx.kind = "createLot"
      BY <1>2, <3>1, <3>2 DEF Execute, CreateLot, TookEffect, Exists, LotInv, TypeOK
    <3>3. CASE tx.kind # "createLot"
      BY <1>2, <3>1, <3>3 DEF Execute, FlagLot, TookEffect
    <3> QED BY <3>2, <3>3
  <2>2. CASE ~Succeeds(tx)
    <3>1. dropped' = IF Excused(tx) THEN dropped \cup {tx.lot} ELSE dropped
      BY <1>0, <2>2 DEF Mine
    <3>2. CASE Excused(tx)
      BY <3>1, <3>2
    <3>3. CASE ~Excused(tx)
      <4>1. tx.kind \in {"createLot", "flagLot"} /\ (tx.kind = "flagLot" => Exists(tx.lot))
        BY <1>2 DEF CarryInv, SentFlagsExist, Tx
      <4>2. tx.kind = "createLot" /\ Exists(tx.lot)
        BY <2>2, <3>3, <4>1 DEF Succeeds, Excused
      <4> QED BY <1>2, <4>2 DEF TookEffect
    <3> QED BY <3>2, <3>3
  <2> QED BY <2>1, <2>2
<1>4. ASSUME NEW t \in Tx, Sent(t) PROVE Sent(t)' \/ t = tx
  <2>1. PICK k \in DOMAIN mempool : mempool[k] = t
    BY <1>4 DEF Sent
  <2> QED BY <1>2, <2>1 DEF Sent
<1>5. breaches \subseteq LotId /\ seen \subseteq LotId
  BY DEF QueueShape, ServiceTypeOK
<1>6. SeenIsOpened' /\ OpenedFirst' /\ JobsInOrder'
  BY <1>1, <1>5 DEF CarryInv, SeenIsOpened, OpenedFirst, JobsInOrder, Queued
<1>7. SentFlagsExist'
  BY <1>2, MempoolTx DEF CarryInv, SentFlagsExist
<1>8. ReceiptCounts'
  <2> SUFFICES ASSUME AtStep("receipt")
               PROVE  \/ Sent(TxOf(Head(txQueue)))' \/ Head(txQueue).lot \in dropped'
                      \/ TookEffect(TxOf(Head(txQueue)))'
    BY <1>1 DEF ReceiptCounts, AtStep, TxOf, Sent, TookEffect
  <2>1. PICK t \in Tx : t = TxOf(Head(txQueue))
    BY HeadJob DEF AtStep
  <2>2. t.lot = Head(txQueue).lot /\ t.lot \in LotId
    BY <2>1, HeadJob DEF AtStep, TxOf
  <2>3. Sent(t) \/ t.lot \in dropped \/ TookEffect(t)
    BY <2>1 DEF CarryInv, ReceiptCounts
  <2>4. TookEffect(t) => TookEffect(t)'
    BY <2>2 DEF TookEffect
  <2>5. Sent(t)' \/ t.lot \in dropped' \/ TookEffect(t)'
    BY <1>1, <1>3, <1>4, <2>3, <2>4
  <2>6. t = TxOf(Head(txQueue))'
    BY <1>1, <2>1 DEF TxOf
  <2> QED BY <2>2, <2>5, <2>6 DEF Sent, TookEffect
<1>9. BreachIsCarried'
  <2> SUFFICES ASSUME NEW l \in breaches PROVE flagged'[l] \/ OnItsWay(l)' \/ l \in dropped'
    BY <1>1 DEF BreachIsCarried
  <2> DEFINE t == [kind |-> "flagLot", lot |-> l]
  <2>1. l \in LotId /\ t \in Tx
    BY <1>5 DEF Tx
  <2>2. Queued("flagLot", l) => Queued("flagLot", l)'
    BY <1>1 DEF Queued
  <2>3. Sent(t) => Sent(t)' \/ t = tx
    BY <1>4, <2>1
  <2>4. t = tx => flagged'[l] \/ l \in dropped'
    BY <1>3 DEF TookEffect
  <2>5. OnItsWay(l) => OnItsWay(l)' \/ flagged'[l] \/ l \in dropped'
    BY <2>1, <2>2, <2>3, <2>4, OnItsWayIs DEF OnItsWay, Queued, Sent, ToSet
  <2> QED BY <1>1, <2>1, <2>5 DEF CarryInv, BreachIsCarried
<1> QED BY <1>6, <1>7, <1>8, <1>9 DEF CarryInv

(* Whatever is sent was checked a moment before to succeed; a transaction  *)
(* that flags is thus one of a lot that exists.                            *)
LEMMA SendingKeepsTruth ==
  ASSUME QueueShape, SentFlagsExist, txQueue # <<>>, UNCHANGED lotState,
         Succeeds(TxOf(Head(txQueue))), mempool' = Append(mempool, TxOf(Head(txQueue)))
  PROVE  /\ SentFlagsExist' /\ \A tx \in Tx : Sent(tx) => Sent(tx)'
         /\ \E k \in DOMAIN mempool' : mempool'[k] = TxOf(Head(txQueue))
<1>1. PICK tx \in Tx : tx = TxOf(Head(txQueue))
  BY HeadJob
<1>2. /\ DOMAIN mempool' = 1 .. Len(mempool) + 1 /\ DOMAIN mempool = 1 .. Len(mempool)
      /\ \A k \in DOMAIN mempool : mempool'[k] = mempool[k]
      /\ mempool'[Len(mempool) + 1] = tx /\ Len(mempool) \in Nat
  BY <1>1, JoinFacts DEF QueueShape, ServiceTypeOK
<1>3. tx.kind = "flagLot" => Exists(tx.lot)
  BY <1>1 DEF Succeeds, MayFlag
<1>4. SentFlagsExist'
  BY <1>2, <1>3 DEF SentFlagsExist, Exists
<1> QED BY <1>1, <1>2, <1>4 DEF Sent

LEMMA CheckKeepsCarry == QueueShape /\ CarryInv /\ CheckLot => CarryInv'
<1> SUFFICES ASSUME QueueShape, CarryInv, CheckLot PROVE CarryInv'
  OBVIOUS
<1>1. /\ txQueue # <<>> /\ Head(txQueue).step = "check"
      /\ UNCHANGED <<lotState, flagged, mempool, seen, breaches, dropped>>
  BY DEF CheckLot, AtStep, vars, lotVars
<1>2. SentFlagsExist' /\ \A tx \in Tx : Sent(tx) => Sent(tx)'
  BY <1>1 DEF CarryInv, SentFlagsExist, Sent, Exists
<1>3. CASE GoTo("send")
  BY <1>1, <1>2, <1>3, MoveKeepsCarry
<1>4. CASE txQueue' = Tail(txQueue) /\ Exists(Head(txQueue).lot)
  <2>1. Head(txQueue).kind = "createLot"
    BY <1>1, HeadJob DEF CarryInv, JobsInOrder, Job
  <2>2. TookEffect(TxOf(Head(txQueue)))
    BY <1>4, <2>1 DEF TookEffect, TxOf
  <2> QED BY <1>1, <1>2, <1>4, <2>2, LeaveKeepsCarry
<1> QED BY <1>3, <1>4 DEF CheckLot

LEMMA SendKeepsCarry == QueueShape /\ CarryInv /\ Send => CarryInv'
<1> SUFFICES ASSUME QueueShape, CarryInv, Send PROVE CarryInv'
  OBVIOUS
<1>1. /\ txQueue # <<>> /\ GoTo("receipt")
      /\ UNCHANGED <<lotState, flagged, seen, breaches, dropped>>
      /\ Succeeds(TxOf(Head(txQueue))) /\ mempool' = Append(mempool, TxOf(Head(txQueue)))
  BY DEF Send, AtStep, vars, lotVars
<1>2. /\ SentFlagsExist' /\ \A tx \in Tx : Sent(tx) => Sent(tx)'
      /\ \E k \in DOMAIN mempool' : mempool'[k] = TxOf(Head(txQueue))
  BY <1>1, SendingKeepsTruth DEF CarryInv
<1>3. TxOf(Head(txQueue))' = TxOf(Head(txQueue))
  <2>1. Head(txQueue') = [Head(txQueue) EXCEPT !.step = "receipt"]
    BY <1>1, HeadJob, MoveFacts DEF GoTo, QueueShape, ServiceTypeOK
  <2> QED BY <1>1, <2>1, HeadJob DEF TxOf, Job
<1>4. Sent(TxOf(Head(txQueue)))'
  BY <1>2, <1>3 DEF Sent
<1> QED BY <1>1, <1>2, <1>4, MoveKeepsCarry

(* A failed job is on record, unless it reverts for a cause that the order *)
(* of the queue rules out.                                                 *)
LEMMA FailureKeepsCarry == QueueShape /\ CarryInv /\ JobFails => CarryInv'
<1> SUFFICES ASSUME QueueShape, CarryInv, JobFails PROVE CarryInv'
  OBVIOUS
<1> DEFINE tx == TxOf(Head(txQueue))
<1>1. /\ txQueue # <<>> /\ txQueue' = Tail(txQueue) /\ dropped \subseteq dropped'
      /\ UNCHANGED <<lotState, flagged, seen, breaches>>
  BY DEF JobFails, AtStep, vars, lotVars
<1>2. SentFlagsExist' /\ \A t \in Tx : Sent(t) => Sent(t)'
  <2>1. CASE UNCHANGED mempool
    BY <1>1, <2>1 DEF CarryInv, SentFlagsExist, Sent, Exists
  <2>2. CASE Succeeds(tx) /\ mempool' = Append(mempool, tx)
    BY <1>1, <2>2, SendingKeepsTruth DEF CarryInv
  <2> QED BY <2>1, <2>2 DEF JobFails
<1>3. TookEffect(tx) \/ Head(txQueue).lot \in dropped'
  <2>1. CASE dropped' = dropped \cup {Head(txQueue).lot}
    BY <2>1
  <2>2. CASE ~Succeeds(tx) /\ ~Excused(tx) /\ dropped' = dropped
    <3>1. CASE tx.kind = "createLot"
      BY <2>2, <3>1 DEF Succeeds, Excused, TookEffect
    <3>2. CASE tx.kind # "createLot"
      <4>1. tx.kind = "flagLot" /\ ~Exists(tx.lot) /\ tx.lot = Head(txQueue).lot
            /\ Head(txQueue).kind = "flagLot"
        BY <1>1, <2>2, <3>2, HeadJob DEF Excused, TxOf, Job, Succeeds
      <4>2. tx.lot \in seen /\ ~Queued("createLot", tx.lot)
        <5>1. Head(txQueue) = txQueue[1] /\ 1 \in DOMAIN txQueue /\ DOMAIN txQueue \subseteq Nat \ {0}
          BY <1>1, HeadJob, LeaveFacts DEF QueueShape, ServiceTypeOK
        <5> QED BY <4>1, <5>1 DEF CarryInv, OpenedFirst, JobsInOrder, Queued
      <4> QED BY <4>1, <4>2, <1>1 DEF CarryInv, SeenIsOpened
    <3> QED BY <3>1, <3>2
  <2> QED BY <2>1, <2>2 DEF JobFails
<1> HIDE DEF tx
<1> QED BY <1>1, <1>2, <1>3, LeaveKeepsCarry DEF tx

LEMMA ReceiptKeepsCarry == QueueShape /\ CarryInv /\ Receipt => CarryInv'
<1> SUFFICES ASSUME QueueShape, CarryInv, Receipt PROVE CarryInv'
  OBVIOUS
<1>1. /\ txQueue # <<>> /\ txQueue' = Tail(txQueue)
      /\ UNCHANGED <<lotState, flagged, mempool, seen, breaches, dropped>>
  BY DEF Receipt, AtStep, vars, lotVars
<1>2. SentFlagsExist' /\ \A tx \in Tx : Sent(tx) => Sent(tx)'
  BY <1>1 DEF CarryInv, SentFlagsExist, Sent, Exists
<1>3. TookEffect(TxOf(Head(txQueue))) \/ Head(txQueue).lot \in dropped
  <2>1. ~Sent(TxOf(Head(txQueue)))
    BY DEF Receipt, Sent, ToSet
  <2> QED BY <2>1 DEF Receipt, CarryInv, ReceiptCounts, TxOf
<1> QED BY <1>1, <1>2, <1>3, LeaveKeepsCarry

(* A new process has seen nothing and owes nothing.                        *)
LEMMA RestartKeepsCarry == QueueShape /\ CarryInv /\ Restart => CarryInv'
<1> SUFFICES ASSUME QueueShape, CarryInv, Restart PROVE CarryInv'
  OBVIOUS
<1>1. seen' = {} /\ breaches' = {} /\ txQueue' = <<>> /\ UNCHANGED <<lotState, mempool>>
  BY DEF Restart, vars, lotVars
<1>2. SentFlagsExist'
  BY <1>1 DEF CarryInv, SentFlagsExist, Exists
<1> QED
  BY <1>1, <1>2
     DEF CarryInv, SeenIsOpened, OpenedFirst, JobsInOrder, ReceiptCounts, AtStep, BreachIsCarried

LEMMA ServiceStep == LotInv /\ ServiceInv /\ [ServiceNext]_serviceVars => ServiceInv'
<1> SUFFICES ASSUME LotInv, QueueShape, Warranted, CarryInv, [ServiceNext]_serviceVars
             PROVE  ServiceInv'
  BY DEF ServiceInv
<1>1. QueueShape' /\ Warranted'
  BY ShapeStep, WarrantedStep
<1>2. \A l \in LotId : (flagged[l] => flagged'[l]) /\ (Exists(l) => Exists(l)')
  BY RegistryKeeps
<1>3. CarryInv'
  <2>1. ASSUME NEW l \in LotId, Sight(l) PROVE CarryInv'
    BY <2>1, SightKeepsCarry
  <2>2. ASSUME NEW l \in LotId, Breach(l) PROVE CarryInv'
    BY <2>2, BreachKeepsCarry
  <2>3. CASE Work
    BY <2>3, CheckKeepsCarry, SendKeepsCarry, FailureKeepsCarry, ReceiptKeepsCarry DEF Work
  <2>4. CASE Mine
    BY <1>2, <2>4, MineKeepsCarry
  <2>5. CASE Restart
    BY <2>5, RestartKeepsCarry
  <2>6. CASE Polling \/ Admin \/ Outside \/ UNCHANGED serviceVars
    <3>1. UNCHANGED <<txQueue, mempool, seen, breaches, dropped>>
      BY <2>6 DEF Polling, StartPoll, PollRead, EndPoll, Admin, Outside, serviceVars, gatewayState
    <3> QED BY <1>2, <3>1, OthersKeepCarry
  <2> QED BY <2>1, <2>2, <2>3, <2>4, <2>5, <2>6 DEF ServiceNext
<1> QED BY <1>1, <1>3 DEF ServiceInv

LEMMA ServiceInvariance == ServiceSpec => []ServiceInv
<1>1. ServiceInit => ServiceInv
  <2> SUFFICES ASSUME ServiceInit PROVE ServiceInv
    OBVIOUS
  <2>1. /\ seen = {} /\ breaches = {} /\ flaggedLots = {} /\ txQueue = <<>>
        /\ mempool = <<>> /\ poll.found = {}
    BY DEF ServiceInit, FreshGateway, NoPoll
  <2>2. Warranted /\ CarryInv
    BY <2>1 DEF Warranted, ShownIsWarranted, CarryInv, SeenIsOpened, OpenedFirst, JobsInOrder,
       SentFlagsExist, ReceiptCounts, AtStep, BreachIsCarried
  <2> QED BY <2>2, ShapeInit DEF ServiceInv
<1>2. ServiceSpec => []LotInv
  BY ServiceRunsRegistry, Invariance
<1> QED BY <1>1, <1>2, ServiceStep, PTL DEF ServiceSpec

(* What the gateway shows flagged had a breach or is flagged on chain,     *)
(* whatever the poll read before others wrote (markFlagged, store.ts).     *)
THEOREM ShownIsWarrantedAlways == ServiceSpec => []ShownIsWarranted
<1>1. ServiceInv => ShownIsWarranted
  BY DEF ServiceInv, Warranted
<1> QED BY <1>1, ServiceInvariance, PTL

(* A breach reaches the chain, or is on its way there, or a call for its   *)
(* lot failed (TxQueue and LotService, chain.ts).                          *)
THEOREM BreachIsCarriedAlways == ServiceSpec => []BreachIsCarried
<1>1. ServiceInv => BreachIsCarried
  BY DEF ServiceInv, CarryInv
<1> QED BY <1>1, ServiceInvariance, PTL

(* No flag on chain is without a report, whoever uses the contract beside  *)
(* the gateway.                                                            *)
THEOREM ServiceFlagsAreTraceable == ServiceSpec => []FlagIsTraceable
<1> QED BY ServiceRunsRegistry, NoFlagWithoutReport
=============================================================================
