------------------------------ MODULE Anchoring ------------------------------
(***************************************************************************)
(* From an accepted record to a root on chain: the gateway's Merkle        *)
(* batcher (apps/gateway/src/batcher.ts), its anchor service (anchor.ts),  *)
(* the start-up and the badge rule of index.ts, and the BatchAnchor        *)
(* contract behind an RPC that may fail or time out at every call.         *)
(*                                                                         *)
(* Each await of the gateway ends a step: other requests run in between.   *)
(* The batcher, the queue and the proofs are lost when the process         *)
(* restarts; the anchor state file, the mempool and the chain are not.     *)
(***************************************************************************)
EXTENDS BatchAnchor, MerkleTree, SequencesExt

CONSTANTS Leaf,           \* record digests
          MaxLeaves,      \* BATCH_MAX_LEAVES
          MaxAdds,        \* bound: digests given to the batcher
          MaxRestarts,    \* bound: restarts of the gateway process
          Retries         \* whether a record may be posted, and batched, again

RootOf(leaves) == TreeRoot(leaves)

(* A batch closes with a record in it, and no tree hashes to the zero root.*)
Leaves == BoundedSeq(Leaf, MaxLeaves) \ {<<>>}

ASSUME LeafBound == MaxLeaves \in Nat \ {0}
ASSUME ZeroRootAssumption == \A s \in Leaves : RootOf(s) # ZeroRoot

VARIABLES pending,        \* MerkleBatcher.pending
          nextIndex,      \* MerkleBatcher.index
          prevRoot,       \* MerkleBatcher.prevRoot
          batchOf,        \* the proofs map: Leaf -> the batch it is proved in
          queue,          \* closed batches waiting in the TxQueue
          job,            \* the batch anchorOne is working on, and how far it is
          anchors,        \* the state file: index -> AnchorRecord
          reconciling,    \* the reconcile() in progress
          boot,           \* how far start-up is, and the count it has read
          mempool,        \* transactions sent and not yet mined, by nonce
          closed,         \* every batch any process closed, oldest first (a history)
          adds, restarts  \* how often each happened

batcherVars == <<pending, nextIndex, prevRoot, batchOf>>
serviceVars == <<job, anchors, reconciling>>
vars == <<roots, batcherVars, queue, serviceVars, boot, mempool, closed, adds, restarts>>

Root == {RootOf(s) : s \in Leaves}
Index == 0 .. MaxAdds - 1
BatchRec == [index : Index, root : Root, prevRoot : Root \cup {ZeroRoot}, leaves : Leaves]
Status == {"PENDING", "ANCHORED", "FAILED"}
Idle == [step |-> "idle"]
NoBatch == [index |-> -1]
NoRecord == [status |-> "none"]

JobStep == {"count", "send", "receipt", "success", "reverted"}

AnchoringTypeOK ==
  /\ roots \in Seq(Root)
  /\ pending \in Seq(Leaf) /\ Len(pending) < MaxLeaves
  /\ nextIndex \in 0 .. MaxAdds
  /\ prevRoot \in Root \cup {ZeroRoot}
  /\ \A l \in Leaf : batchOf[l] = NoBatch \/ batchOf[l] \in BatchRec
  /\ queue \in Seq(BatchRec)
  /\ job = Idle \/ (job.step \in JobStep /\ job.batch \in BatchRec)
  /\ \A i \in Index : anchors[i] = NoRecord \/ anchors[i] \in [status : Status, root : Root]
  /\ reconciling = Idle \/ reconciling.step \in {"count", "resolve"}
  /\ boot.step \in {"reconcile", "count", "root", "done"}
  /\ \A i \in DOMAIN mempool : mempool[i] \in [root : Root, prevRoot : Root \cup {ZeroRoot}]

Init ==
  /\ AnchorInit
  /\ pending = <<>> /\ nextIndex = 0 /\ prevRoot = ZeroRoot
  /\ batchOf = [l \in Leaf |-> NoBatch]
  /\ queue = <<>>
  /\ job = Idle
  /\ anchors = [i \in Index |-> NoRecord]
  /\ reconciling = Idle
  /\ boot = [step |-> "reconcile"]
  /\ mempool = <<>>
  /\ closed = <<>>
  /\ adds = 0 /\ restarts = 0

-----------------------------------------------------------------------------
(* The batcher.                                                            *)

(* MerkleBatcher.close and onBatch, up to their first await: the index and *)
(* prevRoot move on before the batch is anchored.                          *)
CloseWith(leaves) ==
  LET batch == [index |-> nextIndex, root |-> RootOf(leaves), prevRoot |-> prevRoot,
                leaves |-> leaves]
  IN /\ pending' = <<>>
     /\ nextIndex' = nextIndex + 1
     /\ prevRoot' = batch.root
     /\ batchOf' = [l \in Leaf |-> IF l \in ToSet(leaves) THEN batch ELSE batchOf[l]]
     /\ queue' = Append(queue, batch)
     /\ closed' = Append(closed, [batch |-> batch, process |-> restarts])

Batched ==
  ToSet(pending) \cup {l \in Leaf : \E i \in DOMAIN closed : l \in ToSet(closed[i].batch.leaves)}

Full(leaves) == Len(leaves) >= MaxLeaves

Add(l) ==
  /\ adds < MaxAdds
  /\ Retries \/ l \notin Batched
  /\ adds' = adds + 1
  /\ IF Full(Append(pending, l))
     THEN CloseWith(Append(pending, l))
     ELSE /\ pending' = Append(pending, l)
          /\ UNCHANGED <<nextIndex, prevRoot, batchOf, queue, closed>>
  /\ UNCHANGED <<roots, serviceVars, boot, mempool, restarts>>

(* The timer fires, or an operator flushes.                                *)
CloseEarly ==
  /\ pending # <<>>
  /\ CloseWith(pending)
  /\ UNCHANGED <<roots, serviceVars, boot, mempool, adds, restarts>>

-----------------------------------------------------------------------------
(* The anchor service: one batch at a time.                                *)

Settle(status) ==
  /\ anchors' = [anchors EXCEPT ![job.batch.index] = [status |-> status, root |-> job.batch.root]]
  /\ job' = Idle

(* The intent goes to disk first.                                          *)
BeginAnchor ==
  /\ job = Idle /\ queue # <<>>
  /\ job' = [step |-> "count", batch |-> Head(queue)]
  /\ anchors' = [anchors EXCEPT ![Head(queue).index] =
                   [status |-> "PENDING", root |-> Head(queue).root]]
  /\ queue' = Tail(queue)
  /\ UNCHANGED <<roots, batcherVars, reconciling, boot, mempool, closed, adds, restarts>>

OutcomeTrusting(index, root) == "ANCHORED"    \* variant: the root there is not compared

Outcome(index, root) == IF HoldsAt(index, root) THEN "ANCHORED" ELSE "FAILED"

(* The count, and the root at the index when the chain is past it: what    *)
(* the chain holds at an index never changes, so the two reads are one.    *)
ReadCount ==
  /\ job.step = "count"
  /\ IF AnchorCount > job.batch.index
     THEN Settle(Outcome(job.batch.index, job.batch.root))
     ELSE job' = [job EXCEPT !.step = "send"] /\ UNCHANGED anchors
  /\ UNCHANGED <<roots, batcherVars, queue, reconciling, boot, mempool, closed, adds, restarts>>

(* Gas is estimated first, against the latest or the pending block as the  *)
(* node is made: a call that would revert there is not sent at all, and    *)
(* throws (RpcError).                                                      *)
PendingBlock == FoldLeft(Executed, roots, mempool)

Estimated == \E rs \in {roots, PendingBlock} : Extends(rs, job.batch.prevRoot)

Submit == mempool' = Append(mempool, [root |-> job.batch.root, prevRoot |-> job.batch.prevRoot])

SendAnchor ==
  /\ job.step = "send"
  /\ Estimated
  /\ Submit
  /\ job' = [job EXCEPT !.step = "receipt"]
  /\ UNCHANGED <<roots, batcherVars, queue, anchors, reconciling, boot, closed, adds, restarts>>

(* A block.  The sender's own transaction is the newest of the mempool.    *)
Mine ==
  /\ mempool # <<>>
  /\ ExecuteAnchor(Head(mempool))
  /\ mempool' = Tail(mempool)
  /\ job' = IF Len(mempool) = 1 /\ job.step = "receipt"
            THEN [job EXCEPT !.step = IF Extends(roots, Head(mempool).prevRoot)
                                      THEN "success" ELSE "reverted"]
            ELSE job
  /\ UNCHANGED <<batcherVars, queue, anchors, reconciling, boot, closed, adds, restarts>>

ReceiptUnread ==           \* variant: a mined transaction is taken for a success
  /\ job.step \in {"success", "reverted"}
  /\ Settle("ANCHORED")
  /\ UNCHANGED <<roots, batcherVars, queue, reconciling, boot, mempool, closed, adds, restarts>>

ReadReceipt ==
  /\ job.step \in {"success", "reverted"}
  /\ Settle(IF job.step = "success" THEN "ANCHORED" ELSE "FAILED")
  /\ UNCHANGED <<roots, batcherVars, queue, reconciling, boot, mempool, closed, adds, restarts>>

ResendBlindly ==           \* variant: a timeout sends the batch again
  /\ job # Idle
  /\ job' = [job EXCEPT !.step = "send"]
  /\ UNCHANGED <<roots, batcherVars, queue, anchors, reconciling, boot, mempool, closed, adds, restarts>>

(* A call fails or times out: "we know we stopped waiting".  The call that *)
(* sends may have reached the node all the same.                           *)
RpcError ==
  /\ job # Idle
  /\ Settle("PENDING")
  /\ \/ UNCHANGED mempool
     \/ job.step = "send" /\ Estimated /\ Submit
  /\ UNCHANGED <<roots, batcherVars, queue, reconciling, boot, closed, adds, restarts>>

-----------------------------------------------------------------------------
(* reconcile() works on the records it saw when it began.                  *)

PendingRecords ==
  {[index |-> i, root |-> anchors[i].root] : i \in {j \in Index : anchors[j].status = "PENDING"}}

Reconciliation ==
  IF PendingRecords = {} THEN Idle ELSE [step |-> "count", todo |-> PendingRecords]

(* POST /ops/reconcile.                                                    *)
BeginReconcile ==
  /\ reconciling = Idle
  /\ PendingRecords # {}
  /\ reconciling' = Reconciliation
  /\ UNCHANGED <<roots, batcherVars, queue, job, anchors, boot, mempool, closed, adds, restarts>>

DueLate(r) == r.index + 1 < AnchorCount     \* variant: off by one

Due(r) == r.index < AnchorCount

ReconcileCount ==
  /\ reconciling.step = "count"
  /\ LET due == {r \in reconciling.todo : Due(r)}
     IN reconciling' = IF due = {} THEN Idle ELSE [step |-> "resolve", todo |-> due]
  /\ UNCHANGED <<roots, batcherVars, queue, job, anchors, boot, mempool, closed, adds, restarts>>

ReconcileOne ==
  /\ reconciling.step = "resolve"
  /\ \E r \in reconciling.todo :
       /\ \A q \in reconciling.todo : r.index <= q.index
       /\ anchors' = [anchors EXCEPT ![r.index] =
                        [status |-> Outcome(r.index, r.root), root |-> r.root]]
       /\ reconciling' = IF reconciling.todo = {r} THEN Idle
                         ELSE [reconciling EXCEPT !.todo = @ \ {r}]
  /\ UNCHANGED <<roots, batcherVars, queue, job, boot, mempool, closed, adds, restarts>>

ReconcileError ==
  /\ reconciling # Idle
  /\ reconciling' = Idle
  /\ UNCHANGED <<roots, batcherVars, queue, job, anchors, boot, mempool, closed, adds, restarts>>

-----------------------------------------------------------------------------
(* Start-up: reconcile what the state file has, then resume the batcher    *)
(* from the chain's head, which is read in two calls.  Requests are served *)
(* meanwhile.                                                              *)

BootReconciled ==
  /\ boot.step = "reconcile"
  /\ reconciling = Idle
  /\ boot' = [step |-> "count"]
  /\ UNCHANGED <<roots, batcherVars, queue, serviceVars, mempool, closed, adds, restarts>>

Resume(index, root) ==
  /\ nextIndex' = IF nextIndex = 0 THEN index ELSE nextIndex
  /\ prevRoot' = IF nextIndex = 0 THEN root ELSE prevRoot
  /\ boot' = [step |-> "done"]

BootCount ==
  /\ boot.step = "count"
  /\ IF AnchorCount = 0
     THEN Resume(0, ZeroRoot)
     ELSE boot' = [step |-> "root", count |-> AnchorCount] /\ UNCHANGED <<nextIndex, prevRoot>>
  /\ UNCHANGED <<roots, pending, batchOf, queue, serviceVars, mempool, closed, adds, restarts>>

BootRoot ==
  /\ boot.step = "root"
  /\ Resume(boot.count, LatestRoot)
  /\ UNCHANGED <<roots, pending, batchOf, queue, serviceVars, mempool, closed, adds, restarts>>

(* The chain cannot be reached: the batcher stays where it is.             *)
BootError ==
  /\ boot.step \in {"count", "root"}
  /\ boot' = [step |-> "done"]
  /\ UNCHANGED <<roots, batcherVars, queue, serviceVars, mempool, closed, adds, restarts>>

Restart ==
  /\ restarts < MaxRestarts
  /\ restarts' = restarts + 1
  /\ pending' = <<>> /\ nextIndex' = 0 /\ prevRoot' = ZeroRoot
  /\ batchOf' = [l \in Leaf |-> NoBatch]
  /\ queue' = <<>>
  /\ job' = Idle
  /\ reconciling' = Reconciliation
  /\ boot' = [step |-> "reconcile"]
  /\ UNCHANGED <<roots, anchors, mempool, closed, adds>>

-----------------------------------------------------------------------------
Next ==
  \/ \E l \in Leaf : Add(l)
  \/ CloseEarly
  \/ BeginAnchor \/ ReadCount \/ SendAnchor \/ Mine \/ ReadReceipt \/ RpcError
  \/ BeginReconcile \/ ReconcileCount \/ ReconcileOne \/ ReconcileError
  \/ BootReconciled \/ BootCount \/ BootRoot \/ BootError
  \/ Restart

Spec == Init /\ [][Next]_vars

(* A reconcile() that runs gets an answer, or an error, to every call.     *)
(* Nothing makes an operator ask for one.                                  *)
ReconcileFairness == WF_vars(ReconcileCount \/ ReconcileOne \/ ReconcileError)

ReconcilingSpec == Spec /\ ReconcileFairness

(* Beside it everything else runs: blocks are made, queued batches are     *)
(* taken, and calls that are made again and again succeed once.            *)
Fairness ==
  /\ SF_vars(ReconcileCount) /\ SF_vars(ReconcileOne)
  /\ WF_vars(CloseEarly) /\ WF_vars(BeginAnchor) /\ WF_vars(Mine)
  /\ SF_vars(ReadCount) /\ SF_vars(SendAnchor) /\ SF_vars(ReadReceipt)

FairSpec == Spec /\ Fairness

(* And an operator keeps asking for a reconcile().                         *)
OperatedSpec == FairSpec /\ SF_vars(BeginReconcile)

-----------------------------------------------------------------------------
(* Anchoring implements AnchorLog: no batch is committed twice, whatever   *)
(* times out, is retried by a node or restarts, and nothing is reported as *)
(* anchored before it is on chain (anchor.ts:8-31).                        *)
Copies(r, s) == Cardinality({i \in DOMAIN s : s[i] = r})
ClosedRoots == [i \in DOMAIN closed |-> closed[i].batch.root]
Owed == [r \in Root |-> Copies(r, ClosedRoots) - Copies(r, roots)]
Reported == {anchors[i].root : i \in {j \in Index : anchors[j].status = "ANCHORED"}}

Log == INSTANCE AnchorLog WITH owed <- Owed, committed <- roots, reported <- Reported

AnchorsOnce == Log!LogSpec

(* What the state file calls ANCHORED the contract has committed, for ever *)
(* and whatever failed or restarted since: nothing is "VERIFIED" on the    *)
(* strength of a promise (index.ts:284-288).                               *)
Committed(root) == \E k \in DOMAIN roots : roots[k] = root

AnchoredIsCommitted ==
  \A i \in Index : anchors[i].status = "ANCHORED" => Committed(anchors[i].root)

(* Two batches have the same root when a record is posted again, alone, as *)
(* after a lost answer; the next properties exempt that case.              *)
RootsDiffer ==
  \A i, j \in DOMAIN closed : closed[i].batch.root = closed[j].batch.root => i = j

(* A batch is not called FAILED while the chain holds its root at its      *)
(* index: giving up waiting is never mistaken for a failure.               *)
FailedIsNotThere ==
  RootsDiffer => \A i \in Index :
    anchors[i].status = "FAILED" => ~HoldsAt(i, anchors[i].root)

(* A batch called ANCHORED is at the index by which its inclusion proofs   *)
(* look it up (BatchAnchor.sol:55).                                        *)
AnchoredIsInPlace ==
  RootsDiffer => \A i \in Index :
    anchors[i].status = "ANCHORED" => HoldsAt(i, anchors[i].root)

(* The prevRoot check makes a dropped batch detectable (BatchAnchor.sol,   *)
(* anchor): unless two batches have the same root, a batch is on chain     *)
(* only if every earlier batch of the same process is.                     *)
NoBatchSkipped ==
  RootsDiffer => \A i, j \in DOMAIN closed :
    i < j /\ closed[i].process = closed[j].process /\ Committed(closed[j].batch.root)
      => Committed(closed[i].batch.root)

(* A batch that landed while nobody was listening is found by the          *)
(* reconcile() that looks for it, at start-up or an operator's, whatever   *)
(* anchorOne writes and whichever process ends meanwhile, unless a call of *)
(* it fails (anchor.ts:334-364).                                           *)
Unnoticed(i) == anchors[i].status = "PENDING" /\ HoldsAt(i, anchors[i].root)

Sought(i) == reconciling # Idle /\ Unnoticed(i) /\ \E r \in reconciling.todo : r.index = i

LandedIsReported ==
  /\ \A i \in Index : Sought(i) ~> ~Sought(i)
  /\ [][\A i \in Index : Sought(i) /\ ~Sought(i)' => ~Unnoticed(i)' \/ ReconcileError]_vars

-----------------------------------------------------------------------------
Promised(l) == batchOf[l] # NoBatch           \* variant: a closed batch is enough

(* isAnchored, which turns a lot's badge to VERIFIED: "until the anchor    *)
(* transaction confirms, nothing outside this process has committed to     *)
(* anything" (index.ts:284-287).                                           *)
IsAnchored(l) ==
  batchOf[l] # NoBatch /\ anchors[batchOf[l].index].status = "ANCHORED"

AnchoredHasLanded ==
  \A l \in Leaf : IsAnchored(l) => HoldsAt(batchOf[l].index, batchOf[l].root)

(* "On timeout or any unknown outcome, leave the intent on disk and        *)
(* reconcile on the next tick - step 2 will resolve it" (anchor.ts:23-24). *)
UnknownIsResolved ==
  \A i \in Index : anchors[i].status = "PENDING" ~> anchors[i].status # "PENDING"

(* The same of a batch that did land ("safe to call on a timer",           *)
(* anchor.ts:331).  No timer calls reconcile().                            *)
LandedIsFound == \A i \in Index : Unnoticed(i) ~> ~Unnoticed(i)
=============================================================================
