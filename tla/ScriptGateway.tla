---------------------------- MODULE ScriptGateway ----------------------------
(***************************************************************************)
(* The gateway as its HTTP clients meet it: the requests of the scripts,   *)
(* what each does to the gateway, and what it is answered.  The chain      *)
(* verdicts are module HashChain's, the store and the rules engine module  *)
(* Evidence's.  What it writes to the chain goes through one queue, and    *)
(* each job of it is one step here, which no fault disturbs: modules       *)
(* LotService and Anchoring have their awaits and failures.  A batch's     *)
(* leaves stand for its root (module MerkleTree: a proof leads to the root *)
(* from the leaves of its batch and from nothing else).  Nothing is        *)
(* revoked.                                                                *)
(***************************************************************************)
EXTENDS Evidence, Badges, Journey

CONSTANT DeviceLimit      \* the records GET /device/:dev shows at most

ASSUME DeviceLimitAssumption == DeviceLimit \in Nat \ {0}

ZeroDigest == <<>>
Chain == INSTANCE HashChain WITH Digest <- {}

VARIABLES chain,          \* Verifier.chains
          entries,        \* GatewayStore.records with their verdicts, of a lot and of a device
          pending,        \* the digests the batcher holds
          batches,        \* the digests of each closed batch
          resumed,        \* where the batcher began: its first index, and the root before it
          txQueue,        \* TxQueue
          anchors,        \* AnchorService.records, on disk: by index, from 1
          onChain         \* LotRegistry's lots, flags and parents, BatchAnchor's roots

memoryVars == <<evidenceVars, chain, entries, pending, batches, resumed, txQueue>>
gatewayVars == <<memoryVars, anchors, onChain>>
chainSide == <<anchors, onChain>>
anchoringVars == <<pending, batches, resumed, chainSide>>

NoRoot == {}

GatewayInit ==
  /\ Init
  /\ chain = [d \in Device |-> Chain!EmptyChain]
  /\ entries = [k \in Lot \cup Device |-> <<>>]
  /\ pending = {}
  /\ batches = <<>>
  /\ resumed = [index |-> 0, root |-> NoRoot, behind |-> FALSE]
  /\ txQueue = <<>>
  /\ anchors = <<>>
  /\ onChain = [lots |-> {}, flagged |-> {}, loads |-> {}, roots |-> <<>>]

PostDevice(d) ==
  IF d \in known THEN UNCHANGED gatewayVars
  ELSE Register(d) /\ UNCHANGED <<chain, entries, txQueue, anchoringVars>>

-----------------------------------------------------------------------------
(* What goes to the chain.                                                 *)

Job(kind, what) == [kind |-> kind, what |-> what]

When(condition, requests) == IF condition THEN requests ELSE <<>>

(* handleFinding: the first breach of a lot sends flagLot.                 *)
FlagJobs == SetToSeq({Job("flagLot", l) : l \in flaggedLots' \ flaggedLots})

-----------------------------------------------------------------------------
(* POST /ingest with one record.                                           *)

Refusal(r) ==
  CASE r.dev \notin known                  -> "UNKNOWN_DEVICE"
    [] r.dev \in known /\ ~r.signed        -> "BAD_SIGNATURE"
    [] r.dev \in known /\ r.signed         -> "none"

AckSeq(st) == IF st.seq = Chain!NoSeq THEN 0 ELSE st.seq

TurnOf(r) == Adopted(ObserveRecord(engine[r.lot], r), Waiting(r.digest))

Kinds(turn) == {f.kind : f \in turn.found}

IngestReply(r) ==
  LET refusal == Refusal(r)
      st == chain[r.dev]
  IN IF refusal = "none"
     THEN [status |-> 200, accepted |-> 1, reason |-> "none", verdict |-> Chain!Verdict(st, r),
           found |-> Kinds(TurnOf(r)), ackSeq |-> AckSeq(Chain!NextChain(st, r))]
     ELSE [status |-> IF refusal = "BAD_SIGNATURE" THEN 200 ELSE 401, accepted |-> 0,
           reason |-> refusal, verdict |-> "none", found |-> {}, ackSeq |-> AckSeq(st)]

IngestOne(r) ==
  IF Refusal(r) = "none"
  THEN /\ AddRecord(r)
       /\ LET entry == [rec |-> r, verdict |-> Chain!Verdict(chain[r.dev], r)]
          IN entries' = [entries EXCEPT ![r.lot] = Append(@, entry), ![r.dev] = Append(@, entry)]
       /\ pending' = pending \cup {r.digest}
       /\ chain' = [chain EXCEPT ![r.dev] = Chain!NextChain(@, r)]
       /\ txQueue' = txQueue \o When(entries[r.lot] = <<>>, <<Job("createLot", r.lot)>>) \o FlagJobs
       /\ UNCHANGED <<known, seen, batches, resumed, chainSide>>
  ELSE UNCHANGED gatewayVars

-----------------------------------------------------------------------------
(* POST /companion with one companion, its evidence shown or not; evidence *)
(* that is not what was signed is a lie.                                   *)

WitnessRefusal(c) ==
  CASE c.dev \notin known                                      -> "UNKNOWN_DEVICE"
    [] c.dev \in known /\ c.lies                               -> "PAYLOAD_MISMATCH"
    [] c.dev \in known /\ ~c.lies /\ Key(c) \in seen           -> "REPLAY"
    [] c.dev \in known /\ ~c.lies /\ Key(c) \notin seen        -> "none"

WitnessReply(c) ==
  LET subject == {r \in records : r.digest = c.subject}
      refusal == WitnessRefusal(c)
  IN [status |-> IF refusal = "UNKNOWN_DEVICE" THEN 401 ELSE 200, reason |-> refusal,
      found |-> IF refusal # "none" THEN {}
                ELSE UNION {Kinds(ObserveCompanion(NewTurn(engine[r.lot]),
                                                   StoredCompanion(c, c.shown, r.lot))) : r \in subject}]

PostWitness(c) ==
  IF WitnessRefusal(c) = "none"
  THEN /\ PostCompanion(c, c.shown)
       /\ txQueue' = txQueue \o FlagJobs
       /\ UNCHANGED <<chain, entries, anchoringVars>>
  ELSE UNCHANGED gatewayVars

-----------------------------------------------------------------------------
(* POST /anchor/flush, and the newest batch a record is in.                *)

Flush ==
  IF pending = {} THEN UNCHANGED gatewayVars
  ELSE /\ batches' = Append(batches, pending)
       /\ pending' = {}
       /\ txQueue' = Append(txQueue, Job("anchor", Len(batches) + 1))
       /\ UNCHANGED <<evidenceVars, chain, entries, resumed, chainSide>>

BatchesWith(digest) == {i \in DOMAIN batches : digest \in batches[i]}

IndexFromZero(i) == i                          \* variant: a restarted batcher begins at 0

(* Batch i's index on chain, from 1, and the root it was closed on.        *)
IndexOf(i) == resumed.index + i
PrevRootOf(i) == IF i = 1 THEN resumed.root ELSE batches[i - 1]

(* anchorFor: what is on record for the index, of this process or before.  *)
AnchorFor(i) == IF IndexOf(i) \in DOMAIN anchors THEN anchors[IndexOf(i)] ELSE "none"

IsAnchored(digest) ==
  /\ BatchesWith(digest) # {}
  /\ AnchorFor(Max(BatchesWith(digest))) = "ANCHORED"

Update(n, status) ==
  anchors' = [m \in DOMAIN anchors \cup {n} |-> IF m = n THEN status ELSE anchors[m]]

LatestRoot == IF onChain.roots = <<>> THEN NoRoot ELSE Last(onChain.roots)

(* anchorOne: an index that is taken tells by its root; a batch that is    *)
(* not closed on the latest root is refused, and stays unknown.            *)
AnchorBatch(i) ==
  LET n == IndexOf(i)
  IN \/ /\ Len(onChain.roots) >= n
        /\ Update(n, IF onChain.roots[n] = batches[i] THEN "ANCHORED" ELSE "FAILED")
        /\ UNCHANGED onChain
     \/ /\ Len(onChain.roots) < n /\ PrevRootOf(i) = LatestRoot
        /\ onChain' = [onChain EXCEPT !.roots = Append(@, batches[i])]
        /\ Update(n, "ANCHORED")
     \/ /\ Len(onChain.roots) < n /\ PrevRootOf(i) # LatestRoot
        /\ Update(n, "PENDING")
        /\ UNCHANGED onChain

(* ensureLot, flagLot and aggregate: a flag goes up to the shipment its    *)
(* lot is loaded on, and comes with a flagged lot that is loaded.  Bound:  *)
(* shipments are not loaded on others (module LotRegistry has it all).     *)
EnsureLot(l) == onChain' = [onChain EXCEPT !.lots = @ \cup {l}] /\ UNCHANGED anchors

ShipmentsOf(l) == {load[2] : load \in {x \in onChain.loads : x[1] = l}}

FlagLot(l) ==
  /\ onChain' = IF l \in onChain.lots
                THEN [onChain EXCEPT !.flagged = @ \cup {l} \cup ShipmentsOf(l)]
                ELSE onChain
  /\ UNCHANGED anchors

MayAggregate(parent, children) ==
  children \cup {parent} \subseteq onChain.lots /\ \A load \in onChain.loads : load[1] \notin children

Aggregate(parent, children) ==
  /\ MayAggregate(parent, children)
  /\ onChain' = [onChain EXCEPT !.loads = @ \cup (children \X {parent}),
                                !.flagged = @ \cup (IF children \cap @ = {} THEN {} ELSE {parent})]
  /\ UNCHANGED <<memoryVars, anchors>>

(* The queue's next job.                                                   *)
RunJob ==
  /\ txQueue # <<>>
  /\ LET job == Head(txQueue)
     IN \/ job.kind = "createLot" /\ EnsureLot(job.what)
        \/ job.kind = "flagLot" /\ FlagLot(job.what)
        \/ job.kind = "anchor" /\ AnchorBatch(job.what)
  /\ txQueue' = Tail(txQueue)
  /\ UNCHANGED <<evidenceVars, chain, entries, pending, batches, resumed>>

(* The flag poll: lots of the store that the chain holds flagged are       *)
(* flagged here, each with an incident that no record is evidence of.      *)
(* Its awaits are module LotService's.                                     *)
PollFlags(now) ==
  LET tainted == {l \in Lot : entries[l] # <<>> /\ l \in onChain.flagged \ flaggedLots}
  IN /\ tainted # {}
     /\ flaggedLots' = flaggedLots \cup tainted
     /\ incidents' = incidents \cup {[lot |-> l, kind |-> "CONSENSUS_BREACH", at |-> now, evidence |-> {}]
                                     : l \in tainted}
     /\ UNCHANGED <<known, records, seen, companions, orphans, engine, chain, entries, txQueue, anchoringVars>>

-----------------------------------------------------------------------------
(* GET /lot/:lotId, /lot/:lotId/epcis, and a row of /lot/:lotId/recall.    *)

ShownOf(l) == [i \in DOMAIN entries[l] |-> entries[l][i].rec @@ [verdict |-> entries[l][i].verdict]]

Badge(l) ==
  BadgeFor(\E e \in ToSet(entries[l]) : e.verdict \in Breaks,
           entries[l] # <<>> /\ \A e \in ToSet(entries[l]) : IsAnchored(e.rec.digest),
           l \in flaggedLots)

(* A gap or a fork is an incident beside the findings of the engine.       *)
ChainIncidents(stored) ==
  {[lot |-> e.rec.lot, kind |-> e.verdict, at |-> e.rec.at, evidence |-> {e.rec.digest}] :
     e \in {x \in stored : x.verdict \in Breaks}}

(* Incidents of severity breach: findings that are, and every fork.        *)
BreachesOf(l) ==
  {i \in incidents : i.lot = l /\ Severity(i.kind) = "breach"}
    \cup {i \in ChainIncidents(ToSet(entries[l])) : i.kind = "CHAIN_FORK"}

Summarise(l) ==
  [badge |-> Badge(l), flagged |-> l \in flaggedLots, recordCount |-> Len(entries[l]),
   devices |-> {e.rec.dev : e \in ToSet(entries[l])}, breaches |-> Cardinality(BreachesOf(l))]

(* GET /lots.                                                              *)
LotIndex == {l \in Lot : entries[l] # <<>>}

(* GET /device/:dev, what it holds of the device's own records: the newest *)
(* of them, and every incident.                                            *)
NewestOf(s) == SubSeq(s, Max({1, Len(s) - DeviceLimit + 1}), Len(s))

DeviceView(d) ==
  [chain |-> chain[d], recordCount |-> Len(entries[d]), records |-> NewestOf(entries[d]),
   incidents |-> ChainIncidents(ToSet(entries[d])),
   witnessed |-> Cardinality({w \in companions : w.dev = d})]

(* A new process: all of it starts empty, but for the anchors on disk; it  *)
(* goes on from the head of the contract, or from 0 if that was not read.  *)
RestartGateway(headRead) ==
  /\ known' = {} /\ records' = {} /\ seen' = {} /\ companions' = {} /\ orphans' = <<>>
  /\ engine' = [l \in Lot |-> NewLotState] /\ incidents' = {} /\ flaggedLots' = {}
  /\ chain' = [d \in Device |-> Chain!EmptyChain] /\ entries' = [k \in Lot \cup Device |-> <<>>]
  /\ pending' = {} /\ batches' = <<>> /\ txQueue' = <<>>
  /\ resumed' = [index |-> IF headRead THEN Len(onChain.roots) ELSE 0,
                 root |-> IF headRead THEN LatestRoot ELSE NoRoot,
                 behind |-> ~headRead /\ onChain.roots # <<>>]
  /\ UNCHANGED chainSide
=============================================================================
