------------------------------ MODULE LotService -----------------------------
(***************************************************************************)
(* How a breach the gateway sees reaches the chain, and a flag the chain   *)
(* holds reaches the gateway: LotService and TxQueue                       *)
(* (apps/gateway/src/chain.ts), handleFinding, the lots POST /ingest opens *)
(* and the flag poll (index.ts), markFlagged (store.ts), over              *)
(* LotRegistry.                                                            *)
(*                                                                         *)
(* A job of the queue is one call of ensureLot or flagLot; its step is the *)
(* await it is at.  Transactions wait in the mempool in nonce order and    *)
(* are mined to their effect, or to none when they revert.  Every RPC call *)
(* may fail, MaxFaults times in all.  Batches share the queue (module      *)
(* Anchoring); a job of theirs only delays these.                          *)
(***************************************************************************)
EXTENDS LotRegistry, SequencesExt

CONSTANTS Gateway,        \* the address of the gateway's key
          MaxFaults,      \* bound: failed RPC calls and restarts of the gateway
          MaxOutside      \* bound: transactions of others, registrations aside

ASSUME ServiceAssumption ==
  Gateway \in Address /\ MaxFaults \in Nat /\ MaxOutside \in Nat

VARIABLES seen,           \* lots of which the store holds a record
          flaggedLots,    \* GatewayStore.flaggedLots: what the badge shows
          created,        \* LotService.created
          flagSent,       \* LotService.flagged
          txQueue,        \* TxQueue, the job in progress first
          poll,           \* the flag poll in progress
          mempool,        \* transactions sent and not mined yet
          breaches,       \* lots with an incident of severity breach
          dropped,        \* lots that a failure kept from the chain
          faults, outside

gatewayState == <<seen, flaggedLots, created, flagSent, txQueue, poll, breaches>>
serviceVars == <<vars, gatewayState, mempool, dropped, faults, outside>>

Job == [kind : {"createLot", "flagLot"}, lot : LotId, step : {"check", "send", "receipt"}]
Tx == [kind : {"createLot", "flagLot"}, lot : LotId]

NoPoll == [todo |-> {}, found |-> {}, running |-> FALSE]

FreshGateway ==
  /\ seen = {} /\ flaggedLots = {} /\ created = {} /\ flagSent = {}
  /\ txQueue = <<>> /\ poll = NoPoll /\ breaches = {}

ServiceInit ==
  /\ Init
  /\ FreshGateway
  /\ mempool = <<>> /\ dropped = {} /\ faults = 0 /\ outside = 0

-----------------------------------------------------------------------------
(* What ingest does with a lot.                                            *)

EnqueueFirst(job) == <<job>> \o txQueue        \* variant: newest first

Enqueue(job) == Append(txQueue, job)

(* The first record of a lot the store sees opens the lot on chain, unless *)
(* this process believes it did.                                           *)
Sight(l) ==
  /\ l \notin seen /\ l # ZeroLot
  /\ seen' = seen \cup {l}
  /\ created' = created \cup {l}
  /\ txQueue' = IF l \in created THEN txQueue
                ELSE Enqueue([kind |-> "createLot", lot |-> l, step |-> "check"])
  /\ UNCHANGED <<vars, flaggedLots, flagSent, poll, breaches, mempool, dropped, faults, outside>>

(* handleFinding of a breach: latch the lot as flagged and, the first      *)
(* time, send flagLot behind a latch of its own.                           *)
Breach(l) ==
  /\ l \in seen
  /\ breaches' = breaches \cup {l}
  /\ flaggedLots' = flaggedLots \cup {l}
  /\ IF l \in flaggedLots \cup flagSent THEN UNCHANGED <<flagSent, txQueue>>
     ELSE /\ flagSent' = flagSent \cup {l}
          /\ txQueue' = Enqueue([kind |-> "flagLot", lot |-> l, step |-> "send"])
  /\ UNCHANGED <<vars, seen, created, poll, mempool, dropped, faults, outside>>

-----------------------------------------------------------------------------
(* The queue's job in progress.                                            *)

AtStep(step) == txQueue # <<>> /\ Head(txQueue).step = step

GoTo(step) == txQueue' = <<[Head(txQueue) EXCEPT !.step = step]>> \o Tail(txQueue)

Fault == faults < MaxFaults /\ faults' = faults + 1

(* getLot answers undefined both for a lot that is not there and for a     *)
(* call that failed.                                                       *)
CheckLot ==
  /\ AtStep("check")
  /\ \/ /\ Exists(Head(txQueue).lot)
        /\ txQueue' = Tail(txQueue)
        /\ UNCHANGED faults
     \/ ~Exists(Head(txQueue).lot) /\ GoTo("send") /\ UNCHANGED faults
     \/ Fault /\ GoTo("send")
  /\ UNCHANGED <<vars, seen, flaggedLots, created, flagSent, poll, breaches, mempool, dropped, outside>>

MayFlag(l) == Exists(l) /\ ZeroLot \in AncestorChain(l)

Succeeds(tx) ==
  /\ IsActive(Gateway)
  /\ IF tx.kind = "createLot" THEN ~Exists(tx.lot) ELSE MayFlag(tx.lot)

(* What is to blame when tx reverts, if it is not its place in the queue.  *)
Excused(tx) == ~IsActive(Gateway) \/ (tx.kind = "flagLot" /\ Exists(tx.lot))

TxOf(job) == [kind |-> job.kind, lot |-> job.lot]

(* The client estimates gas first, so a call that would revert is not sent *)
Send ==
  /\ AtStep("send")
  /\ Succeeds(TxOf(Head(txQueue)))
  /\ mempool' = Append(mempool, TxOf(Head(txQueue)))
  /\ GoTo("receipt")
  /\ UNCHANGED <<vars, seen, flaggedLots, created, flagSent, poll, breaches, dropped, faults, outside>>

Unlatch(job) ==
  IF job.kind = "createLot" THEN created' = created \ {job.lot} /\ UNCHANGED flagSent
  ELSE flagSent' = flagSent \ {job.lot} /\ UNCHANGED created

(* The catch of ensureLot and flagLot: the estimate reverts, or the call   *)
(* or the wait for the receipt fails.  What was sent stays sent; a failed  *)
(* send may have been accepted all the same.                               *)
JobFails ==
  /\ AtStep("send") \/ AtStep("receipt")
  /\ \/ /\ AtStep("send") /\ ~Succeeds(TxOf(Head(txQueue)))
        /\ dropped' = IF Excused(TxOf(Head(txQueue))) THEN dropped \cup {Head(txQueue).lot} ELSE dropped
        /\ UNCHANGED <<mempool, faults>>
     \/ /\ Fault
        /\ dropped' = dropped \cup {Head(txQueue).lot}
        /\ \/ UNCHANGED mempool
           \/ /\ AtStep("send") /\ Succeeds(TxOf(Head(txQueue)))
              /\ mempool' = Append(mempool, TxOf(Head(txQueue)))
  /\ Unlatch(Head(txQueue))
  /\ txQueue' = Tail(txQueue)
  /\ UNCHANGED <<vars, seen, flaggedLots, poll, breaches, outside>>

(* A receipt ends the job; whether the transaction reverted is not read.   *)
Receipt ==
  /\ AtStep("receipt")
  /\ TxOf(Head(txQueue)) \notin ToSet(mempool)
  /\ txQueue' = Tail(txQueue)
  /\ UNCHANGED <<vars, seen, flaggedLots, created, flagSent, poll, breaches, mempool, dropped, faults, outside>>

Execute(tx) == IF tx.kind = "createLot" THEN CreateLot(Gateway, tx.lot) ELSE FlagLot(Gateway, tx.lot)

Mine ==
  /\ mempool # <<>>
  /\ mempool' = Tail(mempool)
  /\ \/ Succeeds(Head(mempool)) /\ Execute(Head(mempool)) /\ UNCHANGED dropped
     \/ /\ ~Succeeds(Head(mempool))
        /\ dropped' = IF Excused(Head(mempool)) THEN dropped \cup {Head(mempool).lot} ELSE dropped
        /\ UNCHANGED vars
  /\ UNCHANGED <<gatewayState, faults, outside>>

-----------------------------------------------------------------------------
(* The flag poll: which of the lots not known as flagged the chain holds   *)
(* flagged, read one after the other, a failed read being no flag.         *)

Candidates == seen \ flaggedLots

StartPoll ==
  /\ ~poll.running
  /\ Candidates # {}
  /\ poll' = [todo |-> Candidates, found |-> {}, running |-> TRUE]
  /\ UNCHANGED <<vars, seen, flaggedLots, created, flagSent, txQueue, breaches, mempool, dropped, faults, outside>>

TaintedExists(l) == Exists(l)                  \* variant: existence for flagged

IsTainted(l) == Exists(l) /\ flagged[l]

PollRead(l) ==
  /\ l \in poll.todo
  /\ \/ /\ poll' = [poll EXCEPT !.todo = @ \ {l}, !.found = IF IsTainted(l) THEN @ \cup {l} ELSE @]
        /\ UNCHANGED faults
     \/ Fault /\ poll' = [poll EXCEPT !.todo = @ \ {l}]
  /\ UNCHANGED <<vars, seen, flaggedLots, created, flagSent, txQueue, breaches, mempool, dropped, outside>>

(* An incident for every lot marked here is one of severity breach, and    *)
(* no transaction.                                                         *)
MarkNone == flaggedLots                        \* variant: answers dropped

MarkFound == flaggedLots \cup poll.found

EndPoll ==
  /\ poll.running /\ poll.todo = {}
  /\ flaggedLots' = MarkFound
  /\ poll' = NoPoll
  /\ UNCHANGED <<vars, seen, created, flagSent, txQueue, breaches, mempool, dropped, faults, outside>>

(* A new process: nothing of this is persisted.                            *)
Restart ==
  /\ Fault
  /\ seen' = {} /\ flaggedLots' = {} /\ created' = {} /\ flagSent' = {}
  /\ txQueue' = <<>> /\ poll' = NoPoll /\ breaches' = {}
  /\ UNCHANGED <<vars, mempool, dropped, outside>>

(* Other tools and parties on the chain, the zero lot left alone.          *)
Admin ==
  /\ \E a \in Address : Register(a)
  /\ UNCHANGED <<gatewayState, mempool, dropped, faults, outside>>

Outside ==
  /\ outside < MaxOutside
  /\ outside' = outside + 1
  /\ \/ \E a \in Address : Revoke(a)
     \/ \E s \in Address, p \in LotId \ {ZeroLot} :
          \/ \E kids \in SUBSET (LotId \ {ZeroLot}) : Aggregate(s, p, kids)
          \/ CreateLot(s, p) \/ FlagLot(s, p)
  /\ UNCHANGED <<gatewayState, mempool, dropped, faults>>

Work == CheckLot \/ Send \/ JobFails \/ Receipt
Polling == StartPoll \/ (\E l \in LotId : PollRead(l)) \/ EndPoll

ServiceNext ==
  \/ \E l \in LotId : Sight(l) \/ Breach(l)
  \/ Work \/ Mine \/ Polling \/ Restart \/ Admin \/ Outside

(* The poll's timer keeps firing, the event loop keeps running the job in  *)
(* progress, and blocks are made.                                          *)
ServiceSpec ==
  /\ ServiceInit /\ [][ServiceNext]_serviceVars
  /\ WF_serviceVars(Polling) /\ WF_serviceVars(Work) /\ WF_serviceVars(Mine)

-----------------------------------------------------------------------------
ServiceTypeOK ==
  /\ txQueue \in Seq(Job) /\ mempool \in Seq(Tx)
  /\ breaches \cup flaggedLots \cup flagSent \subseteq seen
  /\ poll.todo \cup poll.found \subseteq seen

(* "Refusing to flag on weak evidence is as much a part of the product"    *)
(* (index.ts:309): what the gateway shows flagged had a breach or is       *)
(* flagged on chain, whatever was read before and marked after.            *)
ShownIsWarranted == \A l \in flaggedLots : l \in breaches \/ flagged[l]

(* A breach is on chain, or still on its way there, or a call for the lot  *)
(* failed, the gateway was revoked or the lot is on a cycle: that the lot  *)
(* is not open yet, or was opened by someone else, loses no flag.          *)
OnItsWay(l) ==
  \/ \E i \in DOMAIN txQueue : txQueue[i].kind = "flagLot" /\ txQueue[i].lot = l
  \/ [kind |-> "flagLot", lot |-> l] \in ToSet(mempool)

BreachIsCarried ==
  \A l \in breaches : flagged[l] \/ OnItsWay(l) \/ l \in dropped

(* "Without this poll the gateway would serve VERIFIED for a lot the chain *)
(* has already condemned" (index.ts:984): a flag on chain, whoever put it  *)
(* there, shows in the gateway in the end.                                 *)
CondemnedIsShown ==
  \A l \in LotId : (l \in seen /\ flagged[l]) ~> (l \in flaggedLots \/ l \notin seen)

-----------------------------------------------------------------------------
(* "Un-latch so a later record can retry: failing to open a lot must not   *)
(* permanently prevent it from ever being flagged" (chain.ts:338).  Nothing*)
(* calls ensureLot or flagLot for the lot again.                           *)
BreachReachesChain ==
  \A l \in LotId :
    (l \in breaches /\ [](l \in seen /\ IsActive(Gateway))) ~> flagged[l]
=============================================================================
