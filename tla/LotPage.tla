------------------------------- MODULE LotPage -------------------------------
(***************************************************************************)
(* What a lot is said to be, and to whom: the badge the gateway computes   *)
(* (GatewayStore.lotState, badgeFor), the one it publishes (publishLot),   *)
(* and the consumer's page (apps/web/app/verify), which fetches the lot    *)
(* and a proof, decides on a badge of its own (Badge.tsx, lib/incidents)   *)
(* and on a click checks the proof against a root read from the chain      *)
(* (VerifyPanel.tsx).                                                      *)
(*                                                                         *)
(* The batcher, the anchor service, the contract and the restarts under it *)
(* are module Anchoring, action for action.  A digest stands for the       *)
(* record it is the hash of.                                               *)
(***************************************************************************)
EXTENDS Anchoring, Badges

CONSTANTS Lot,
          LotOf,          \* digest -> the lot of its record
          Hot,            \* the records above the consumer page's threshold
          Path            \* the proofs somebody may make up

(* No record's digest is the hash of a pair.                               *)
ASSUME PageAssumption ==
  /\ LotOf \in [Leaf -> Lot]
  /\ \A d \in Leaf : d[1] = "leaf"
  /\ \A p \in Path : Len(p) \in Nat
  /\ MaxAdds \in Nat

VARIABLES records,        \* GatewayStore.records, oldest first
          flaggedLots,    \* GatewayStore.flaggedLots
          published,      \* Lot -> the badge of its state retained at the broker
          page            \* the consumer page being looked at

pageVars == <<records, flaggedLots, published, page>>
allVars == <<vars, pageVars>>

NoPage == [step |-> "none"]
NoProof == [path |-> "none"]

LotPageInit ==
  /\ Init
  /\ records = <<>>
  /\ flaggedLots = {}
  /\ published = [l \in Lot |-> "none"]
  /\ page = NoPage

-----------------------------------------------------------------------------
(* The two badges.                                                         *)
RecordsForLot(l) == {i \in DOMAIN records : LotOf[records[i].digest] = l}

LotState(l) ==
  LET ofLot == RecordsForLot(l)
  IN BadgeFor(\E i \in ofLot : records[i].broken,
              ofLot # {} /\ \A i \in ofLot : IsAnchored(records[i].digest),
              l \in flaggedLots)

(* The page's own, of the records it is served: each with its verdict and  *)
(* whether it is anchored.                                                 *)
DecideVerificationStatus(l) ==
  LET shown == RecordsForLot(l)
  IN CASE \E i \in shown : records[i].broken -> "UNVERIFIABLE"
       [] OTHER -> IF \E i \in shown : records[i].digest \in Hot THEN "FLAGGED"
                   ELSE IF \E i \in shown : ~IsAnchored(records[i].digest) THEN "PENDING_ANCHOR"
                   ELSE "VERIFIED"

-----------------------------------------------------------------------------
(* The gateway: what the steps of Anchoring mean for the lots.             *)
LotsOf(rs) == {LotOf[rs[i].digest] : i \in DOMAIN rs}

(* publishLot of these lots, after the rest of the step.                   *)
PublishLots(lots) == published' = [l \in Lot |-> IF l \in lots THEN LotState(l)' ELSE published[l]]

(* POST /ingest with one accepted record, broken by a gap or a fork before *)
(* it, and perhaps a breach found with it.  A batch that fills up publishes*)
(* every lot, the request its own.                                         *)
Ingest(d, broken, found) ==
  /\ broken => \A i \in DOMAIN records : records[i].digest # d
  /\ Add(d)
  /\ records' = Append(records, [digest |-> d, broken |-> broken])
  /\ flaggedLots' = IF found THEN flaggedLots \cup {LotOf[d]} ELSE flaggedLots
  /\ PublishLots(IF pending' = <<>> THEN LotsOf(records') ELSE {LotOf[d]})
  /\ UNCHANGED page

(* The batcher's timer, or POST /anchor/flush.                             *)
CloseAndPublish ==
  /\ CloseEarly
  /\ UNCHANGED <<records, flaggedLots, page>>
  /\ PublishLots(LotsOf(records))

(* A companion's breach, or the flag poll.                                 *)
Flag(l) ==
  /\ l \in LotsOf(records) \ flaggedLots
  /\ flaggedLots' = flaggedLots \cup {l}
  /\ UNCHANGED <<vars, records, page>>
  /\ PublishLots({l})

LotsOfPending == {LotOf[l] : l \in ToSet(pending)}

PublishedOnAnchorOnly == LotsOfPending        \* variant: the wrong lots

LotsToPublish == LotsOf(records)

(* publishAnchor: lots follow only a record that says ANCHORED.            *)
PublishAnchor(index) ==
  PublishLots(IF anchors'[index].status = "ANCHORED" THEN LotsToPublish ELSE {})

AnchorAndPublish ==
  /\ ReadCount \/ ReadReceipt
  /\ UNCHANGED <<records, flaggedLots, page>>
  /\ IF job' = Idle THEN PublishAnchor(job.batch.index) ELSE UNCHANGED published

ReconcileAndPublish ==
  /\ ReconcileOne
  /\ UNCHANGED <<records, flaggedLots, page>>
  /\ \E r \in reconciling.todo :
       (\A q \in reconciling.todo : r.index <= q.index) /\ PublishAnchor(r.index)

(* The broker keeps what is retained, a browser its page.                  *)
RestartStore ==
  /\ Restart
  /\ records' = <<>> /\ flaggedLots' = {}
  /\ UNCHANGED <<published, page>>

Unpublished ==
  /\ \/ BeginAnchor \/ SendAnchor \/ Mine \/ RpcError
     \/ BeginReconcile \/ ReconcileCount \/ ReconcileError
     \/ BootReconciled \/ BootCount \/ BootRoot \/ BootError
  /\ UNCHANGED pageVars

-----------------------------------------------------------------------------
(* GET /proof/:digest: the proof in the newest batch closed with it.       *)
Position(d, leaves) ==
  CHOOSE i \in DOMAIN leaves : leaves[i] = d /\ \A j \in DOMAIN leaves : leaves[j] = d => i <= j

ProofIn(d, batch) ==
  [index |-> batch.index, path |-> GetProof(batch.leaves, Position(d, batch.leaves) - 1)]

ProofFor(d) == IF batchOf[d] = NoBatch THEN NoProof ELSE ProofIn(d, batchOf[d])

(* The page trusts none of it: an answer may be any index and path.        *)
MadeUp == [index : Index, path : Path]

-----------------------------------------------------------------------------
(* The page.  GET /lot/:lotId gives the record it will check, whose fields *)
(* may be any, beside the digest of the stored one.                        *)
FetchLot(l, first) ==
  /\ page = NoPage
  /\ RecordsForLot(l) # {}
  /\ page' = [step |-> "lot", first |-> first, digest |-> records[Min(RecordsForLot(l))].digest]
  /\ UNCHANGED <<vars, records, flaggedLots, published>>

(* A failed fetch is no proof.                                             *)
FetchProof ==
  /\ page.step = "lot"
  /\ \E proof \in {ProofFor(page.digest), NoProof} \cup MadeUp :
       page' = [step |-> "ready", first |-> page.first, digest |-> page.digest,
                proof |-> proof, result |-> "idle"]
  /\ UNCHANGED <<vars, records, flaggedLots, published>>

CheckDigest(shown, root) ==                   \* variant: the gateway's digest is checked
  VerifyProof(shown.digest, shown.proof.path, root)

CheckLeaf(shown, root) == VerifyProof(shown.first, shown.proof.path, root)

(* run(): the root is read from the chain, an index the chain does not     *)
(* have reverts, and the read may fail.  The button can be pressed again.  *)
Click ==
  /\ page.step = "ready"
  /\ page.proof # NoProof
  /\ \/ page' = [page EXCEPT !.result = "unread"]
     \/ /\ page.proof.index < AnchorCount
        /\ page' = [page EXCEPT !.result =
             IF CheckLeaf(page, roots[page.proof.index + 1]) THEN "verified" ELSE "failed"]
  /\ UNCHANGED <<vars, records, flaggedLots, published>>

Leave == page # NoPage /\ page' = NoPage /\ UNCHANGED <<vars, records, flaggedLots, published>>

LotPageNext ==
  \/ \E d \in Leaf, broken, found \in BOOLEAN : Ingest(d, broken, found)
  \/ CloseAndPublish \/ AnchorAndPublish \/ ReconcileAndPublish \/ RestartStore \/ Unpublished
  \/ \E l \in Lot : Flag(l) \/ \E first \in Leaf : FetchLot(l, first)
  \/ FetchProof \/ Click \/ Leave

LotPageSpec == LotPageInit /\ [][LotPageNext]_allVars

-----------------------------------------------------------------------------
(* What the panel calls verified is on chain whatever the gateway served:  *)
(* the record shown, not the one the gateway speaks of, is a leaf of a     *)
(* batch whose root the contract holds at the index of the proof ("verify  *)
(* the LOCALLY RECOMPUTED leaf", VerifyPanel.tsx:140).                     *)
Landed(batch, index) == HoldsAt(index, batch.root)

GreenMeansCommitted ==
  page # NoPage /\ page.step = "ready" /\ page.result = "verified" =>
    \E k \in DOMAIN closed :
      /\ Landed(closed[k].batch, page.proof.index)
      /\ page.first \in ToSet(closed[k].batch.leaves)

(* A gateway that restarts before the chain has its batches offers their   *)
(* indices again: then an index alone does not say which batch is meant.   *)
Sole(index) ==
  \A i, j \in DOMAIN closed :
    closed[i].batch.index = index /\ closed[j].batch.index = index => i = j

(* The honest proof of a record is not called invalid once the root could  *)
(* be read: proofs of trees of every size, promoted nodes included, lead   *)
(* to the root the contract holds, also after a retry moved the record     *)
(* into a later batch, or a restart, while the page was open.              *)
HonestProof ==
  \E k \in DOMAIN closed :
    /\ page.first \in ToSet(closed[k].batch.leaves)
    /\ page.proof = ProofIn(page.first, closed[k].batch)

HonestIsGreen ==
  page # NoPage /\ page.step = "ready" /\ page.result \in {"verified", "failed"}
    /\ HonestProof /\ RootsDiffer /\ Sole(page.proof.index)
    => page.result = "verified"

(* "Use badgeFor() from core rather than reimplementing the precedence"    *)
(* (docs/SWARM-API.md:193): the page's own badge never says more than the  *)
(* gateway's of the same records, flags aside.                             *)
BadgesAgree ==
  \A l \in LotsOf(records) :
    LET own == DecideVerificationStatus(l)  gateway == LotState(l)
    IN /\ own = "UNVERIFIABLE" <=> gateway = "UNVERIFIABLE"
       /\ own = "VERIFIED" => gateway \in {"VERIFIED", "FLAGGED"}
       /\ gateway = "VERIFIED" => own \in {"VERIFIED", "FLAGGED"}

(* "It must mean the anchor transaction CONFIRMED, not the Merkle batch    *)
(* closed" (store.ts:302): every record of a lot the gateway calls         *)
(* VERIFIED is in a batch whose root is on chain, retried records and      *)
(* restarts included, if its batch's index was offered once.               *)
Clear(l) == \A r \in RecordsForLot(l) :
  batchOf[records[r].digest] # NoBatch => Sole(batchOf[records[r].digest].index)

AllCommitted(l) == \A r \in RecordsForLot(l) :
  batchOf[records[r].digest] # NoBatch /\ Committed(batchOf[records[r].digest].root)

VerifiedIsCommitted ==
  \A l \in Lot : LotState(l) = "VERIFIED" /\ Clear(l) => AllCommitted(l)

(* The retained state of a lot is its state: every change of a badge, by   *)
(* a request, a timer or an answer of the chain, is published with it      *)
(* ("immediately sees the current picture", publisher.ts:16).  But when    *)
(* anchorOne gives up on a batch that a reconcile() has found, the lot is  *)
(* pending again and stays published as VERIFIED, which is still true.     *)
LiveIsCurrent ==
  \A l \in LotsOf(records) : Clear(l) =>
    \/ published[l] = LotState(l)
    \/ published[l] = "VERIFIED" /\ LotState(l) = "PENDING_ANCHOR" /\ AllCommitted(l)

-----------------------------------------------------------------------------
(* "FLAGGED: a breach was recorded" (docs/SWARM-API.md:200), on the page   *)
(* as in the gateway.  The page never reads the flag.                      *)
FlagIsShown ==
  \A l \in LotsOf(records) : LotState(l) = "FLAGGED" => DecideVerificationStatus(l) # "VERIFIED"

(* "If status is not ANCHORED the page must say PENDING ANCHOR"            *)
(* (index.ts:882).  The page never reads the status of a proof: it calls   *)
(* a root that is not there yet an invalid proof.                          *)
PendingIsSaid ==
  page # NoPage /\ page.step = "ready" /\ page.result # "idle" /\ HonestProof =>
    page.proof.index < AnchorCount

(* "The record was altered after anchoring, or the gateway's proof was     *)
(* wrong" (VerifyPanel.tsx:150), of every proof the panel refuses.         *)
RefusedIsWrong ==
  page # NoPage /\ page.step = "ready" /\ page.result = "failed" => ~HonestProof
=============================================================================
