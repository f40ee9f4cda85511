--------------------------- MODULE AnchoringProofs ---------------------------
(***************************************************************************)
(* What the anchor service reports is on chain, for any leaves, any number *)
(* of batches and restarts, and whatever the RPC calls do.                 *)
(*                                                                         *)
(* A status of ANCHORED is given on three grounds: the contract was asked  *)
(* for the root at the index, by anchorOne or by reconcile, or a receipt   *)
(* says success.  The invariant AnchorInv says why the receipt may be      *)
(* believed: while anchorOne waits for it, its transaction is the newest   *)
(* of the mempool, so the block that mines it commits the root of the      *)
(* batch at hand.                                                          *)
(*                                                                         *)
(* The second half shows that Anchoring implements AnchorLog, and that     *)
(* every batch has its place.  FullInv adds to AnchorInv a count of what   *)
(* may still commit a root (OnceInv), how the batches of one process       *)
(* follow each other (ProcessInv), and, when no two batches have the same  *)
(* root, where each transaction can land (SlotsInv) and on which evidence  *)
(* each outcome rests (RecordsInv).                                        *)
(***************************************************************************)
EXTENDS Anchoring, SequenceTheorems, FiniteSetTheorems, WellFoundedInduction, TLAPS

AnyRoot == Root \cup {ZeroRoot}
AnyBatch == [index : Nat, root : Root, prevRoot : AnyRoot, leaves : Leaves]
Tx == [root : Root, prevRoot : AnyRoot]
Doubt == [index : Index, root : Root]

BatcherShape ==
  /\ pending \in Seq(Leaf) /\ Len(pending) < MaxLeaves
  /\ nextIndex \in Nat
  /\ prevRoot \in AnyRoot
  /\ queue \in Seq(AnyBatch)

ServiceShape ==
  /\ job = Idle \/ job \in [step : JobStep, batch : AnyBatch]
  /\ anchors \in [Index -> {NoRecord} \cup [status : Status, root : Root]]
  /\ reconciling = Idle \/ reconciling \in [step : {"count", "resolve"}, todo : SUBSET Doubt]

ChainShape ==
  /\ roots \in Seq(AnyRoot)
  /\ mempool \in Seq(Tx)
  /\ boot.step = "root" => boot.count \in Nat

Shape == BatcherShape /\ ServiceShape /\ ChainShape

(* The transaction whose receipt is awaited is the newest in the mempool.  *)
AwaitedIsNewest ==
  job.step = "receipt" => mempool # <<>> /\ mempool[Len(mempool)].root = job.batch.root

SuccessIsCommitted == job.step = "success" => Committed(job.batch.root)

AnchorInv == Shape /\ AwaitedIsNewest /\ SuccessIsCommitted /\ AnchoredIsCommitted

-----------------------------------------------------------------------------
(* Closing a batch of at most MaxLeaves digests makes a proper root.       *)
LEMMA RootOfBatch ==
  ASSUME NEW s \in Seq(Leaf), s # <<>>, Len(s) <= MaxLeaves
  PROVE  s \in Leaves /\ RootOf(s) \in Root
<1>1. s \in BoundedSeq(Leaf, MaxLeaves)
  BY LeafBound DEF BoundedSeq, SeqOf
<1> QED BY <1>1 DEF Root, Leaves

LEMMA CloseKeepsShape ==
  ASSUME BatcherShape, NEW s \in Seq(Leaf), s # <<>>, Len(s) <= MaxLeaves, CloseWith(s)
  PROVE  BatcherShape'
<1> DEFINE batch == [index |-> nextIndex, root |-> RootOf(s), prevRoot |-> prevRoot, leaves |-> s]
<1>1. batch \in AnyBatch /\ RootOf(s) \in Root
  BY RootOfBatch DEF BatcherShape, AnyBatch
<1>2. /\ pending' = <<>> /\ nextIndex' = nextIndex + 1 /\ prevRoot' = RootOf(s)
      /\ queue' = Append(queue, batch)
  BY DEF CloseWith
<1>3. queue' \in Seq(AnyBatch)
  BY <1>1, <1>2 DEF BatcherShape
<1> HIDE DEF batch
<1> QED BY <1>1, <1>2, <1>3, LeafBound DEF BatcherShape, AnyRoot

(* A transaction only ever adds to the roots, and adds its own if it       *)
(* extends the newest.                                                     *)
LEMMA ExecutedGrows ==
  ASSUME ChainShape, mempool # <<>>, ExecuteAnchor(Head(mempool))
  PROVE  /\ roots' \in Seq(AnyRoot)
         /\ \A k \in DOMAIN roots : k \in DOMAIN roots' /\ roots'[k] = roots[k]
         /\ Extends(roots, Head(mempool).prevRoot)
              => \E k \in DOMAIN roots' : roots'[k] = Head(mempool).root
<1> DEFINE tx == Head(mempool)
<1>1. tx \in Tx
  BY DEF ChainShape
<1>2. CASE Extends(roots, tx.prevRoot)
  <2>1. roots' = Append(roots, tx.root) /\ tx.root \in AnyRoot
    BY <1>1, <1>2 DEF ExecuteAnchor, Executed, Tx, AnyRoot
  <2> HIDE DEF tx
  <2>2. /\ roots' \in Seq(AnyRoot)
        /\ \A k \in DOMAIN roots : k \in DOMAIN roots' /\ roots'[k] = roots[k]
        /\ roots'[Len(roots) + 1] = tx.root /\ Len(roots) + 1 \in DOMAIN roots'
    BY <2>1 DEF ChainShape
  <2> QED BY <2>2 DEF tx
<1>3. CASE ~Extends(roots, tx.prevRoot)
  BY <1>3 DEF ExecuteAnchor, Executed, ChainShape
<1> QED BY <1>2, <1>3

(* Whatever a step does to the roots, what was committed stays so.         *)
LEMMA RootsGrow ==
  ASSUME ChainShape, [Next]_vars
  PROVE  \A k \in DOMAIN roots : k \in DOMAIN roots' /\ roots'[k] = roots[k]
<1>1. CASE Mine
  BY <1>1, ExecutedGrows DEF Mine
<1>2. CASE UNCHANGED roots
  BY <1>2
<1> QED
  BY <1>1, <1>2 DEF Next, vars, Add, CloseEarly, BeginAnchor, ReadCount, SendAnchor,
     ReadReceipt, RpcError, BeginReconcile, ReconcileCount, ReconcileOne, ReconcileError,
     BootReconciled, BootCount, BootRoot, BootError, Restart

LEMMA CommittedStays ==
  ASSUME ChainShape, [Next]_vars, NEW b \in Root, Committed(b)
  PROVE  Committed(b)'
BY RootsGrow DEF Committed

-----------------------------------------------------------------------------
(* The shape of the state: its initial form, and one step per group of     *)
(* actions that leave the same part alone.                                 *)
LEMMA ShapeInit == Init => Shape
<1> SUFFICES ASSUME Init PROVE Shape
  OBVIOUS
<1>1. BatcherShape
  BY LeafBound DEF Init, BatcherShape, AnyRoot
<1>2. ServiceShape
  BY DEF Init, ServiceShape
<1>3. ChainShape
  BY DEF Init, AnchorInit, ChainShape
<1> QED BY <1>1, <1>2, <1>3 DEF Shape

LEMMA BatcherStep == Shape /\ [Next]_vars => BatcherShape'
<1> SUFFICES ASSUME Shape, [Next]_vars PROVE BatcherShape'
  OBVIOUS
<1>0. BatcherShape /\ ChainShape
  BY DEF Shape
<1>1. ASSUME NEW l \in Leaf, Add(l) PROVE BatcherShape'
  <2>1. /\ Append(pending, l) \in Seq(Leaf) /\ Append(pending, l) # <<>>
        /\ Len(Append(pending, l)) = Len(pending) + 1
    BY <1>0 DEF BatcherShape
  <2>2. CASE Full(Append(pending, l))
    <3>1. CloseWith(Append(pending, l)) /\ Len(Append(pending, l)) <= MaxLeaves
      BY <1>0, <1>1, <2>1, <2>2, LeafBound DEF Add, BatcherShape
    <3> QED BY <1>0, <2>1, <3>1, CloseKeepsShape
  <2>3. CASE ~Full(Append(pending, l))
    <3>1. pending' = Append(pending, l) /\ UNCHANGED <<nextIndex, prevRoot, queue>>
      BY <1>1, <2>3 DEF Add
    <3>2. Len(Append(pending, l)) < MaxLeaves
      BY <1>0, <2>1, <2>3, LeafBound DEF BatcherShape, Full
    <3> QED BY <1>0, <2>1, <3>1, <3>2 DEF BatcherShape
  <2> QED BY <2>2, <2>3
<1>2. CASE CloseEarly
  <2>1. pending \in Seq(Leaf) /\ Len(pending) <= MaxLeaves
    BY <1>0, LeafBound DEF BatcherShape
  <2> QED BY <1>0, <1>2, <2>1, CloseKeepsShape DEF CloseEarly
<1>3. CASE BeginAnchor
  BY <1>0, <1>3 DEF BeginAnchor, BatcherShape, batcherVars
<1>4. CASE BootCount
  BY <1>0, <1>4 DEF BootCount, Resume, BatcherShape, AnyRoot
<1>5. CASE BootRoot
  <2>1. LatestRoot \in AnyRoot
    BY <1>0 DEF LatestRoot, Tip, ChainShape, AnyRoot
  <2> QED BY <1>0, <1>5, <2>1 DEF BootRoot, Resume, BatcherShape, ChainShape
<1>6. CASE Restart
  BY <1>6, LeafBound DEF Restart, BatcherShape, AnyRoot
<1>7. CASE UNCHANGED <<batcherVars, queue>>
  BY <1>0, <1>7 DEF batcherVars, BatcherShape
<1> QED
  BY <1>1, <1>2, <1>3, <1>4, <1>5, <1>6, <1>7 DEF Next, vars, ReadCount, SendAnchor, Mine,
     ReadReceipt, RpcError, BeginReconcile, ReconcileCount, ReconcileOne, ReconcileError,
     BootReconciled, BootError

(* Submit puts the transaction of the batch at hand last in the mempool.   *)
LEMMA SubmitAppends ==
  ASSUME Shape, job \in [step : JobStep, batch : AnyBatch], Submit
  PROVE  /\ mempool' \in Seq(Tx) /\ mempool' # <<>>
         /\ mempool'[Len(mempool')].root = job.batch.root
<1> DEFINE tx == [root |-> job.batch.root, prevRoot |-> job.batch.prevRoot]
<1>1. tx \in Tx /\ tx.root = job.batch.root
  BY DEF Tx, AnyBatch
<1>2. mempool \in Seq(Tx) /\ mempool' = Append(mempool, tx)
  BY DEF Shape, ChainShape, Submit
<1> HIDE DEF tx
<1> QED BY <1>1, <1>2

LEMMA ChainStep == Shape /\ [Next]_vars => ChainShape'
<1> SUFFICES ASSUME Shape, [Next]_vars PROVE ChainShape'
  OBVIOUS
<1>0. ChainShape
  BY DEF Shape
<1>1. CASE SendAnchor
  <2>1. job \in [step : JobStep, batch : AnyBatch]
    BY <1>1 DEF SendAnchor, Shape, ServiceShape, Idle
  <2> QED BY <1>0, <1>1, <2>1, SubmitAppends DEF SendAnchor, ChainShape
<1>2. CASE Mine
  BY <1>0, <1>2, ExecutedGrows DEF Mine, ChainShape
<1>3. CASE RpcError
  <2>1. job \in [step : JobStep, batch : AnyBatch]
    BY <1>3 DEF RpcError, Shape, ServiceShape
  <2> QED BY <1>0, <1>3, <2>1, SubmitAppends DEF RpcError, ChainShape
<1>4. CASE BootReconciled \/ BootRoot \/ BootError \/ Restart
  BY <1>0, <1>4 DEF BootReconciled, BootRoot, BootError, Restart, Resume, ChainShape
<1>5. CASE BootCount
  BY <1>0, <1>5 DEF BootCount, Resume, AnchorCount, ChainShape
<1>6. CASE UNCHANGED <<roots, mempool, boot>>
  BY <1>0, <1>6 DEF ChainShape
<1> QED
  BY <1>1, <1>2, <1>3, <1>4, <1>5, <1>6 DEF Next, vars, Add, CloseEarly, BeginAnchor,
     ReadCount, ReadReceipt, BeginReconcile, ReconcileCount, ReconcileOne, ReconcileError

(* A batch that has its outcome: the record is one of the state file's.    *)
LEMMA SettleKeepsShape ==
  ASSUME ServiceShape, job \in [step : JobStep, batch : AnyBatch], NEW status \in Status,
         Settle(status), UNCHANGED reconciling
  PROVE  ServiceShape'
<1>1. job.batch.root \in Root
  BY DEF AnyBatch
<1> QED BY <1>1 DEF Settle, ServiceShape

LEMMA ServiceStep == Shape /\ [Next]_vars => ServiceShape'
<1> SUFFICES ASSUME Shape, [Next]_vars PROVE ServiceShape'
  OBVIOUS
<1>0. ServiceShape
  BY DEF Shape
<1>b. job # Idle => job \in [step : JobStep, batch : AnyBatch]
  BY <1>0 DEF ServiceShape
<1>1. CASE BeginAnchor
  <2> DEFINE b == Head(queue)
  <2>1. b \in AnyBatch
    BY <1>1 DEF BeginAnchor, Shape, BatcherShape
  <2>2. /\ job' = [step |-> "count", batch |-> b]
        /\ anchors' = [anchors EXCEPT ![b.index] = [status |-> "PENDING", root |-> b.root]]
        /\ UNCHANGED reconciling
    BY <1>1 DEF BeginAnchor
  <2> HIDE DEF b
  <2>3. b.root \in Root
    BY <2>1 DEF AnyBatch
  <2> QED BY <1>0, <2>1, <2>2, <2>3 DEF ServiceShape, JobStep, Status
<1>2. CASE ReadCount
  <2>1. job # Idle
    BY <1>2 DEF ReadCount, Idle
  <2>2. Outcome(job.batch.index, job.batch.root) \in Status
    BY DEF Outcome, Status
  <2>3. CASE AnchorCount > job.batch.index
    BY <1>0, <1>b, <1>2, <2>1, <2>2, <2>3, SettleKeepsShape DEF ReadCount
  <2>4. CASE ~(AnchorCount > job.batch.index)
    BY <1>0, <1>b, <1>2, <2>1, <2>4 DEF ReadCount, ServiceShape, JobStep
  <2> QED BY <2>3, <2>4
<1>3. CASE SendAnchor
  BY <1>0, <1>b, <1>3 DEF SendAnchor, ServiceShape, JobStep, Idle
<1>4. CASE Mine
  BY <1>0, <1>b, <1>4 DEF Mine, ServiceShape, JobStep, Idle
<1>5. CASE ReadReceipt
  <2>1. job # Idle
    BY <1>5 DEF ReadReceipt, Idle
  <2> QED BY <1>0, <1>b, <1>5, <2>1, SettleKeepsShape DEF ReadReceipt, Status
<1>6. CASE RpcError
  BY <1>0, <1>b, <1>6, SettleKeepsShape DEF RpcError, Status
<1>7. CASE BeginReconcile
  <2>1. PendingRecords \in SUBSET Doubt
    BY <1>0 DEF PendingRecords, Doubt, ServiceShape, NoRecord
  <2> QED BY <1>0, <1>7, <2>1 DEF BeginReconcile, Reconciliation, ServiceShape
<1>8. CASE ReconcileCount
  <2>1. reconciling \in [step : {"count", "resolve"}, todo : SUBSET Doubt]
    BY <1>0, <1>8 DEF ReconcileCount, ServiceShape, Idle
  <2> QED BY <1>0, <1>8, <2>1 DEF ReconcileCount, ServiceShape
<1>9. CASE ReconcileOne
  <2>1. reconciling \in [step : {"count", "resolve"}, todo : SUBSET Doubt]
    BY <1>0, <1>9 DEF ReconcileOne, ServiceShape, Idle
  <2>2. PICK r \in reconciling.todo :
          /\ anchors' = [anchors EXCEPT ![r.index] =
                           [status |-> Outcome(r.index, r.root), root |-> r.root]]
          /\ reconciling' = IF reconciling.todo = {r} THEN Idle
                            ELSE [reconciling EXCEPT !.todo = @ \ {r}]
    BY <1>9 DEF ReconcileOne
  <2>3. r.root \in Root /\ Outcome(r.index, r.root) \in Status
    BY <2>1 DEF Doubt, Outcome, Status
  <2>4. reconciling' = Idle \/ reconciling' \in [step : {"count", "resolve"}, todo : SUBSET Doubt]
    BY <2>1, <2>2
  <2>5. anchors' \in [Index -> {NoRecord} \cup [status : Status, root : Root]]
    BY <1>0, <2>2, <2>3 DEF ServiceShape
  <2> QED BY <1>0, <1>9, <2>4, <2>5 DEF ReconcileOne, ServiceShape
<1>10. CASE ReconcileError \/ Restart
  <2>1. PendingRecords \in SUBSET Doubt
    BY <1>0 DEF PendingRecords, Doubt, ServiceShape, NoRecord
  <2> QED BY <1>0, <1>10, <2>1 DEF ReconcileError, Restart, Reconciliation, ServiceShape
<1>11. CASE UNCHANGED serviceVars
  BY <1>0, <1>11 DEF serviceVars, ServiceShape
<1> QED
  BY <1>1, <1>2, <1>3, <1>4, <1>5, <1>6, <1>7, <1>8, <1>9, <1>10, <1>11
     DEF Next, vars, serviceVars, Add, CloseEarly, BootReconciled, BootCount, BootRoot, BootError

LEMMA ShapeStep == Shape /\ [Next]_vars => Shape'
BY BatcherStep, ServiceStep, ChainStep DEF Shape

(* The type facts the run checks, and more, for every instance.            *)
THEOREM ShapeKept == Spec => []Shape
<1> QED BY ShapeInit, ShapeStep, PTL DEF Spec

-----------------------------------------------------------------------------
(* Mining the oldest transaction of several leaves the newest the newest.  *)
LEMMA TailKeepsLast ==
  ASSUME NEW S, NEW s \in Seq(S), s # <<>>, Len(s) # 1
  PROVE  Tail(s) # <<>> /\ Tail(s)[Len(Tail(s))] = s[Len(s)]
<1> DEFINE n == Len(s)
           t == Tail(s)
<1>1. n \in Nat \ {0}
  BY EmptySeq
<1>2. n # 1
  OBVIOUS
<1>3. Len(t) = n - 1 /\ \A i \in 1 .. n - 1 : t[i] = s[i + 1]
  OBVIOUS
<1> HIDE DEF n, t
<1>4. t = <<>> => Len(t) = 0
  <2>1. Len(<<>>) = 0
    BY EmptySeq
  <2> QED BY <2>1, Zenon
<1>5. n - 1 \in 1 .. n - 1 /\ (n - 1) + 1 = n /\ n - 1 # 0
  BY <1>1, <1>2
<1>6. t # <<>> /\ t[Len(t)] = s[n]
  BY <1>3, <1>4, <1>5
<1> QED BY <1>6 DEF n, t

(* Why a receipt may be believed.                                          *)
LEMMA AwaitedStep == AnchorInv /\ [Next]_vars => AwaitedIsNewest'
<1> SUFFICES ASSUME AnchorInv, [Next]_vars PROVE AwaitedIsNewest'
  OBVIOUS
<1>0. Shape /\ AwaitedIsNewest
  BY DEF AnchorInv
<1>1. CASE SendAnchor
  <2>1. job \in [step : JobStep, batch : AnyBatch]
    BY <1>0, <1>1 DEF SendAnchor, Shape, ServiceShape, Idle
  <2>2. job'.batch = job.batch
    BY <1>1, <2>1 DEF SendAnchor
  <2> QED BY <1>0, <1>1, <2>1, <2>2, SubmitAppends DEF SendAnchor, AwaitedIsNewest
<1>2. CASE Mine
  <2> SUFFICES ASSUME job'.step = "receipt"
               PROVE  mempool' # <<>> /\ mempool'[Len(mempool')].root = job'.batch.root
    BY DEF AwaitedIsNewest
  <2>1. job = Idle \/ job \in [step : JobStep, batch : AnyBatch]
    BY <1>0 DEF Shape, ServiceShape
  <2>2. job' = job /\ job.step = "receipt" /\ Len(mempool) # 1
    BY <1>2, <2>1 DEF Mine, Idle
  <2>3. mempool \in Seq(Tx) /\ mempool # <<>> /\ mempool' = Tail(mempool)
    BY <1>0, <1>2 DEF Mine, Shape, ChainShape
  <2>4. mempool' # <<>> /\ mempool'[Len(mempool')] = mempool[Len(mempool)]
    BY <2>2, <2>3, TailKeepsLast
  <2> QED BY <1>0, <2>2, <2>4 DEF AwaitedIsNewest
<1>3. CASE BeginAnchor \/ RpcError \/ Restart
  BY <1>3 DEF BeginAnchor, RpcError, Restart, Settle, AwaitedIsNewest, Idle
<1>4. CASE ReadCount
  <2>1. job \in [step : JobStep, batch : AnyBatch]
    BY <1>0, <1>4 DEF ReadCount, Shape, ServiceShape, Idle
  <2> QED BY <1>4, <2>1 DEF ReadCount, Settle, AwaitedIsNewest, Idle
<1>5. CASE ReadReceipt
  BY <1>5 DEF ReadReceipt, Settle, AwaitedIsNewest, Idle
<1>6. CASE UNCHANGED <<job, mempool>>
  BY <1>0, <1>6 DEF AwaitedIsNewest
<1> QED
  BY <1>1, <1>2, <1>3, <1>4, <1>5, <1>6 DEF Next, vars, serviceVars, Add, CloseEarly,
     BeginReconcile, ReconcileCount, ReconcileOne, ReconcileError, BootReconciled, BootCount,
     BootRoot, BootError

LEMMA SuccessStep == AnchorInv /\ [Next]_vars => SuccessIsCommitted'
<1> SUFFICES ASSUME AnchorInv, [Next]_vars, job'.step = "success"
             PROVE  Committed(job.batch.root)'
  BY DEF SuccessIsCommitted
<1>0. Shape /\ AwaitedIsNewest /\ SuccessIsCommitted
  BY DEF AnchorInv
<1>1. job = Idle \/ job \in [step : JobStep, batch : AnyBatch]
  BY <1>0 DEF Shape, ServiceShape
<1>2. CASE job' = job
  <2>1. job.batch.root \in Root /\ job.step = "success"
    BY <1>1, <1>2 DEF Idle, AnyBatch
  <2>2. Committed(job.batch.root)
    BY <1>0, <2>1 DEF SuccessIsCommitted
  <2>3. ChainShape
    BY <1>0 DEF Shape
  <2> QED BY <1>2, <2>1, <2>2, <2>3, RootsGrow DEF Committed
<1>3. CASE Mine /\ job' # job
  <2>1. /\ job.step = "receipt" /\ Len(mempool) = 1 /\ mempool # <<>>
        /\ Extends(roots, Head(mempool).prevRoot)
    BY <1>1, <1>3 DEF Mine, Idle
  <2>2. job'.batch = job.batch
    BY <1>1, <1>3, <2>1 DEF Mine, Idle
  <2>3. Head(mempool).root = job.batch.root
    BY <1>0, <2>1 DEF AwaitedIsNewest, Shape, ChainShape
  <2>4. \E k \in DOMAIN roots' : roots'[k] = Head(mempool).root
    BY <1>0, <1>3, <2>1, ExecutedGrows DEF Mine, Shape
  <2> QED BY <2>2, <2>3, <2>4 DEF Committed
<1>4. CASE SendAnchor
  BY <1>1, <1>4 DEF SendAnchor, Idle
<1>5. CASE ReadCount
  BY <1>1, <1>5 DEF ReadCount, Settle, Idle
<1>6. CASE BeginAnchor \/ ReadReceipt \/ RpcError \/ Restart
  BY <1>6 DEF BeginAnchor, ReadReceipt, RpcError, Restart, Settle, Idle
<1> QED
  BY <1>2, <1>3, <1>4, <1>5, <1>6 DEF Next, vars, serviceVars, Add, CloseEarly,
     BeginReconcile, ReconcileCount, ReconcileOne, ReconcileError, BootReconciled, BootCount,
     BootRoot, BootError

-----------------------------------------------------------------------------
(* A record of the state file that is not rewritten stays true, and one    *)
(* that is has its ground.                                                 *)
LEMMA HoldsIsCommitted ==
  ASSUME ChainShape, NEW i \in Nat, NEW r \in Root, HoldsAt(i, r)
  PROVE  Committed(r)
BY DEF HoldsAt, Committed, ChainShape

LEMMA RewriteKeepsTruth ==
  ASSUME Shape, AnchoredIsCommitted, [Next]_vars,
         NEW x, NEW status \in Status, NEW r \in Root,
         anchors' = [anchors EXCEPT ![x] = [status |-> status, root |-> r]],
         status = "ANCHORED" => Committed(r)
  PROVE  AnchoredIsCommitted'
<1> SUFFICES ASSUME NEW i \in Index, anchors'[i].status = "ANCHORED"
             PROVE  \E k \in DOMAIN roots' : roots'[k] = anchors'[i].root
  BY DEF AnchoredIsCommitted, Committed, Index
<1>1. ChainShape /\ anchors \in [Index -> {NoRecord} \cup [status : Status, root : Root]]
  BY DEF Shape, ServiceShape
<1>2. \E k \in DOMAIN roots : roots[k] = anchors'[i].root
  <2>1. CASE i = x
    BY <1>1, <2>1 DEF Committed
  <2>2. CASE i # x
    BY <1>1, <2>2 DEF AnchoredIsCommitted, Committed
  <2> QED BY <2>1, <2>2
<1> QED BY <1>1, <1>2, RootsGrow

(* A step rewrites at most one record, and calls it ANCHORED only if the   *)
(* root is committed.                                                      *)
Rewrites(x, status, r) ==
  /\ status \in Status /\ r \in Root
  /\ anchors' = [anchors EXCEPT ![x] = [status |-> status, root |-> r]]
  /\ status = "ANCHORED" => Committed(r)
  /\ UNCHANGED <<roots, closed>>

LEMMA OneRewrite ==
  ASSUME AnchorInv, [Next]_vars
  PROVE  UNCHANGED anchors \/ \E x, status, r : Rewrites(x, status, r)
<1>0. Shape /\ SuccessIsCommitted /\ ChainShape
  BY DEF AnchorInv, Shape
<1>b. job # Idle => /\ job.batch.root \in Root /\ job.batch.index \in Nat
  BY <1>0 DEF Shape, ServiceShape, AnyBatch
<1>1. CASE BeginAnchor
  <2>1. Head(queue) \in AnyBatch
    BY <1>0, <1>1 DEF BeginAnchor, Shape, BatcherShape
  <2>2. Rewrites(Head(queue).index, "PENDING", Head(queue).root)
    BY <1>1, <2>1 DEF BeginAnchor, Rewrites, Status, AnyBatch
  <2> QED BY <2>2
<1>2. CASE ReadCount
  <2> DEFINE status == Outcome(job.batch.index, job.batch.root)
  <2>1. job # Idle /\ (UNCHANGED anchors \/ Settle(status)) /\ UNCHANGED <<roots, closed>>
    BY <1>2 DEF ReadCount, Idle
  <2>2. status \in Status /\ (status = "ANCHORED" => Committed(job.batch.root))
    BY <1>0, <1>b, <2>1, HoldsIsCommitted DEF Outcome, Status
  <2> HIDE DEF status
  <2>3. UNCHANGED anchors \/ Rewrites(job.batch.index, status, job.batch.root)
    BY <1>b, <2>1, <2>2 DEF Settle, Rewrites
  <2> QED BY <2>3
<1>3. CASE ReadReceipt
  <2> DEFINE status == IF job.step = "success" THEN "ANCHORED" ELSE "FAILED"
  <2>1. job # Idle /\ Settle(status) /\ UNCHANGED <<roots, closed>>
    BY <1>3 DEF ReadReceipt, Idle
  <2>2. status \in Status /\ (status = "ANCHORED" => Committed(job.batch.root))
    BY <1>0 DEF SuccessIsCommitted, Status
  <2> HIDE DEF status
  <2>3. Rewrites(job.batch.index, status, job.batch.root)
    BY <1>b, <2>1, <2>2 DEF Settle, Rewrites
  <2> QED BY <2>3
<1>4. CASE RpcError
  <2>1. Rewrites(job.batch.index, "PENDING", job.batch.root)
    BY <1>b, <1>4 DEF RpcError, Settle, Rewrites, Status
  <2> QED BY <2>1
<1>5. CASE ReconcileOne
  <2>1. reconciling \in [step : {"count", "resolve"}, todo : SUBSET Doubt]
    BY <1>0, <1>5 DEF ReconcileOne, Shape, ServiceShape, Idle
  <2>2. PICK r \in reconciling.todo :
          anchors' = [anchors EXCEPT ![r.index] =
                        [status |-> Outcome(r.index, r.root), root |-> r.root]]
    BY <1>5 DEF ReconcileOne
  <2>3. r.index \in Nat /\ r.root \in Root
    BY <2>1 DEF Doubt, Index
  <2>4. /\ Outcome(r.index, r.root) \in Status
        /\ Outcome(r.index, r.root) = "ANCHORED" => Committed(r.root)
    BY <1>0, <2>3, HoldsIsCommitted DEF Outcome, Status
  <2>5. Rewrites(r.index, Outcome(r.index, r.root), r.root)
    BY <1>5, <2>2, <2>3, <2>4 DEF ReconcileOne, Rewrites
  <2> QED BY <2>5
<1> QED
  BY <1>1, <1>2, <1>3, <1>4, <1>5 DEF Next, vars, serviceVars, Add, CloseEarly,
     SendAnchor, Mine, BeginReconcile, ReconcileCount, ReconcileError, BootReconciled,
     BootCount, BootRoot, BootError, Restart

LEMMA AnchoredStep == AnchorInv /\ [Next]_vars => AnchoredIsCommitted'
<1> SUFFICES ASSUME AnchorInv, [Next]_vars PROVE AnchoredIsCommitted'
  OBVIOUS
<1>0. Shape /\ AnchoredIsCommitted /\ ChainShape
  BY DEF AnchorInv, Shape
<1>1. CASE UNCHANGED anchors
  <2> SUFFICES ASSUME NEW i \in Index, anchors[i].status = "ANCHORED"
               PROVE  \E k \in DOMAIN roots' : roots'[k] = anchors[i].root
    BY <1>1 DEF AnchoredIsCommitted, Committed, Index
  <2> QED BY <1>0, RootsGrow DEF AnchoredIsCommitted, Committed
<1>2. ASSUME NEW x, NEW status, NEW r, Rewrites(x, status, r) PROVE AnchoredIsCommitted'
  BY <1>0, <1>2, RewriteKeepsTruth DEF Rewrites
<1> QED BY <1>1, <1>2, OneRewrite

-----------------------------------------------------------------------------
LEMMA AnchorInvInit == Init => AnchorInv
<1> SUFFICES ASSUME Init PROVE AnchorInv
  OBVIOUS
<1>1. AwaitedIsNewest /\ SuccessIsCommitted
  BY DEF Init, AwaitedIsNewest, SuccessIsCommitted, Idle
<1>2. AnchoredIsCommitted
  BY DEF Init, AnchoredIsCommitted, NoRecord
<1> QED BY ShapeInit, <1>1, <1>2 DEF AnchorInv

LEMMA AnchorInvStep == AnchorInv /\ [Next]_vars => AnchorInv'
BY ShapeStep, AwaitedStep, SuccessStep, AnchoredStep DEF AnchorInv

(* What the state file calls ANCHORED has been committed: no badge rests   *)
(* on a transaction that timed out, was retried, or reverted.              *)
THEOREM AnchoredMeansCommitted == Spec => []AnchoredIsCommitted
<1>1. AnchorInv => AnchoredIsCommitted
  BY DEF AnchorInv
<1> QED BY <1>1, AnchorInvInit, AnchorInvStep, PTL DEF Spec

-----------------------------------------------------------------------------
(* Once, and in place.  No transaction is sent for a batch more often than *)
(* it was closed: what waits, is being sent, is in the mempool or on chain *)
(* never exceeds what was closed (OnceInv).  And a transaction that was    *)
(* sent lands at the index of its batch or not at all, for the batch whose *)
(* root it extends has the index before (SlotsInv).                        *)
AllClosed == {closed[i].batch : i \in DOMAIN closed}

ClosedEntry == [batch : AnyBatch, process : Nat]

HistoryShape ==
  /\ closed \in Seq(ClosedEntry) /\ restarts \in Nat
  /\ \A c \in AllClosed : c.root # ZeroRoot
  /\ boot.step = "root" => boot.count \in 1 .. Len(roots)

(* How many transactions with this root there are, or may still be.        *)
QueueCopies(r) == Cardinality({i \in DOMAIN queue : queue[i].root = r})
InHand(r) == IF job.step \in {"count", "send"} /\ job.batch.root = r THEN 1 ELSE 0
MempoolCopies(r) == Cardinality({i \in DOMAIN mempool : mempool[i].root = r})
Live(r) == QueueCopies(r) + InHand(r) + MempoolCopies(r) + Copies(r, roots)

OnceInv == \A r \in Root : Live(r) <= Copies(r, ClosedRoots)

FromClosed ==
  /\ \A i \in DOMAIN queue : queue[i] \in AllClosed
  /\ job # Idle => job.batch \in AllClosed

(* Batches of one process follow each other.                               *)
ProcessInv ==
  /\ \A i, j \in DOMAIN closed : i < j => closed[i].process <= closed[j].process
  /\ \A i \in DOMAIN closed : closed[i].process <= restarts
  /\ \A i, j \in DOMAIN closed : j = i + 1 /\ closed[i].process = closed[j].process =>
       closed[j].batch.prevRoot = closed[i].batch.root
  /\ closed # <<>> /\ closed[Len(closed)].process = restarts =>
       nextIndex > 0 /\ prevRoot = closed[Len(closed)].batch.root

(* A batch of this index and prevRoot comes right after a closed batch, or *)
(* is the first; or else the chain is past its index, and it is never      *)
(* sent: the head was read in two calls, and moved in between.             *)
Follows(index, prev) ==
  \/ index = 0 /\ prev = ZeroRoot
  \/ \E c \in AllClosed : prev = c.root /\ index = c.index + 1

MayFollow(index, prev) == Follows(index, prev) \/ index < Len(roots)

RootBefore(k) == IF k = 1 THEN ZeroRoot ELSE roots[k - 1]

SlotsInv ==
  /\ MayFollow(nextIndex, prevRoot)
  /\ \A c \in AllClosed : MayFollow(c.index, c.prevRoot)
  /\ \A i \in DOMAIN mempool : \E c \in AllClosed :
       c.root = mempool[i].root /\ c.prevRoot = mempool[i].prevRoot /\ Follows(c.index, c.prevRoot)
  /\ job.step = "send" => Follows(job.batch.index, job.batch.prevRoot)
  /\ \A k \in DOMAIN roots : \E c \in AllClosed :
       c.root = roots[k] /\ c.index = k - 1 /\ c.prevRoot = RootBefore(k)

(* The root is not at the index and never will be.                         *)
Gone(index, r) ==
  \/ index < Len(roots) /\ roots[index + 1] # r
  \/ (\E c \in AllClosed : c.root = r) /\ Live(r) = 0

RecordsInv ==
  /\ job.step = "success" => HoldsAt(job.batch.index, job.batch.root)
  /\ job.step = "reverted" => Gone(job.batch.index, job.batch.root)
  /\ reconciling.step = "resolve" => \A r \in reconciling.todo : r.index < Len(roots)
  /\ \A i \in Index :
       /\ anchors[i].status = "ANCHORED" => HoldsAt(i, anchors[i].root)
       /\ anchors[i].status = "FAILED" => Gone(i, anchors[i].root)

-----------------------------------------------------------------------------
(* Counting in a sequence.                                                 *)
CountIn(s, T) == Cardinality({i \in DOMAIN s : s[i] \in T})

LEMMA CountIsNat ==
  ASSUME NEW S, NEW s \in Seq(S), NEW T
  PROVE  IsFiniteSet({i \in DOMAIN s : s[i] \in T}) /\ CountIn(s, T) \in Nat
<1>1. {i \in DOMAIN s : s[i] \in T} \in SUBSET (1 .. Len(s)) /\ Len(s) \in Nat
  OBVIOUS
<1>2. IsFiniteSet(1 .. Len(s))
  BY <1>1, FS_Interval
<1>3. IsFiniteSet({i \in DOMAIN s : s[i] \in T})
  BY <1>1, <1>2, FS_Subset
<1> QED BY <1>3, FS_CardinalityType DEF CountIn

LEMMA CountAppend ==
  ASSUME NEW S, NEW s \in Seq(S), NEW x \in S, NEW T
  PROVE  CountIn(Append(s, x), T) = IF x \in T THEN CountIn(s, T) + 1 ELSE CountIn(s, T)
<1> DEFINE A == {i \in DOMAIN s : s[i] \in T}
           B == {i \in DOMAIN Append(s, x) : Append(s, x)[i] \in T}
<1>1. /\ DOMAIN s = 1 .. Len(s) /\ Len(s) \in Nat
      /\ DOMAIN Append(s, x) = 1 .. Len(s) + 1
      /\ Append(s, x)[Len(s) + 1] = x
      /\ \A i \in 1 .. Len(s) : Append(s, x)[i] = s[i]
  OBVIOUS
<1>2. B = IF x \in T THEN A \cup {Len(s) + 1} ELSE A
  BY <1>1
<1>3. Len(s) + 1 \notin A /\ IsFiniteSet(A)
  <2>1. IsFiniteSet(A)
    BY CountIsNat
  <2>2. Len(s) + 1 \notin A
    BY <1>1
  <2> QED BY <2>1, <2>2
<1> HIDE DEF A, B
<1>4. Cardinality(A \cup {Len(s) + 1}) = Cardinality(A) + 1
  BY <1>3, FS_AddElement
<1> QED BY <1>2, <1>4 DEF CountIn, A, B

LEMMA CountTail ==
  ASSUME NEW S, NEW s \in Seq(S), s # <<>>, NEW T
  PROVE  CountIn(Tail(s), T) = IF Head(s) \in T THEN CountIn(s, T) - 1 ELSE CountIn(s, T)
<1> DEFINE n == Len(s)
           A == {i \in 1 .. n : s[i] \in T}
           B == {i \in 1 .. n - 1 : s[i + 1] \in T}
           f == [i \in B |-> i + 1]
<1>1. /\ n \in Nat \ {0} /\ DOMAIN s = 1 .. n /\ Head(s) = s[1]
      /\ DOMAIN Tail(s) = 1 .. n - 1 /\ \A i \in 1 .. n - 1 : Tail(s)[i] = s[i + 1]
  BY EmptySeq
<1>2. CountIn(s, T) = Cardinality(A) /\ CountIn(Tail(s), T) = Cardinality(B)
  <2>1. {i \in DOMAIN Tail(s) : Tail(s)[i] \in T} = B
    BY <1>1
  <2> QED BY <1>1, <2>1 DEF CountIn
<1>3. IsFiniteSet(A)
  BY <1>1, CountIsNat
<1>4. IsFiniteSet(B)
  <2>1. B \in SUBSET (1 .. n - 1)
    OBVIOUS
  <2>2. IsFiniteSet(1 .. n - 1)
    BY <1>1, FS_Interval
  <2> QED BY <2>1, <2>2, FS_Subset
<1>5. Cardinality(A \ {1}) = Cardinality(B)
  <2>1. f \in Bijection(B, A \ {1})
    <3>1. f \in [B -> A \ {1}]
      BY <1>1
    <3>2. ASSUME NEW a \in B, NEW b \in B, f[a] = f[b] PROVE a = b
      BY <3>2
    <3>3. ASSUME NEW t \in A \ {1} PROVE \E a \in B : f[a] = t
      <4>1. t - 1 \in B /\ (t - 1) + 1 = t
        BY <1>1
      <4> QED BY <4>1
    <3> HIDE DEF f, A, B
    <3> QED BY <3>1, <3>2, <3>3 DEF Bijection, Injection, Surjection, IsInjective
  <2>2. ExistsBijection(B, A \ {1})
    BY <2>1 DEF ExistsBijection
  <2> HIDE DEF A, B
  <2> QED BY <1>4, <2>2, FS_Bijection
<1>6. 1 \in A <=> Head(s) \in T
  BY <1>1
<1>7. Cardinality(A \ {1}) = IF 1 \in A THEN Cardinality(A) - 1 ELSE Cardinality(A)
  <2> HIDE DEF A
  <2> QED BY <1>3, FS_RemoveElement
<1> HIDE DEF A, B
<1> QED BY <1>2, <1>5, <1>6, <1>7

LEMMA CountPositive ==
  ASSUME NEW S, NEW s \in Seq(S), NEW T
  PROVE  CountIn(s, T) = 0 <=> \A i \in DOMAIN s : s[i] \notin T
<1> DEFINE A == {i \in DOMAIN s : s[i] \in T}
<1>1. IsFiniteSet(A)
  BY CountIsNat
<1>2. A = {} <=> \A i \in DOMAIN s : s[i] \notin T
  OBVIOUS
<1>3. Cardinality(A) = 0 <=> A = {}
  <2> HIDE DEF A
  <2> QED BY <1>1, FS_EmptySet
<1> QED BY <1>2, <1>3 DEF CountIn

LEMMA CountAtMostOne ==
  ASSUME NEW S, NEW s \in Seq(S), NEW T,
         \A i, j \in DOMAIN s : s[i] \in T /\ s[j] \in T => i = j
  PROVE  CountIn(s, T) <= 1
<1> DEFINE A == {i \in DOMAIN s : s[i] \in T}
<1>1. IsFiniteSet(A)
  BY CountIsNat
<1>2. CASE A = {}
  <2>1. Cardinality(A) = 0
    BY <1>2, FS_EmptySet
  <2> QED BY <2>1 DEF CountIn
<1>3. CASE A # {}
  <2>0. PICK i \in DOMAIN s : s[i] \in T
    BY <1>3
  <2>1. A = {i}
    BY <2>0
  <2>2. Cardinality(A) = 1
    BY <2>1, FS_Singleton
  <2> QED BY <2>2 DEF CountIn
<1> QED BY <1>2, <1>3

-----------------------------------------------------------------------------
(* Closing a batch, and every other step.                                  *)
NewBatch(leaves) ==
  [index |-> nextIndex, root |-> RootOf(leaves), prevRoot |-> prevRoot, leaves |-> leaves]

Closing(leaves) ==
  /\ leaves \in Seq(Leaf) /\ leaves # <<>> /\ Len(leaves) <= MaxLeaves
  /\ CloseWith(leaves)
  /\ UNCHANGED <<roots, serviceVars, boot, mempool, restarts>>

LEMMA AddOrClose ==
  ASSUME Shape, (\E l \in Leaf : Add(l)) \/ CloseEarly
  PROVE  \/ \E leaves : Closing(leaves)
         \/ UNCHANGED <<roots, nextIndex, prevRoot, batchOf, queue, serviceVars, boot, mempool,
                         closed, restarts>>
<1>0. pending \in Seq(Leaf) /\ Len(pending) < MaxLeaves /\ MaxLeaves \in Nat
  BY LeafBound DEF Shape, BatcherShape
<1>1. ASSUME NEW l \in Leaf, Add(l), Full(Append(pending, l))
      PROVE  Closing(Append(pending, l))
  <2>1. /\ Append(pending, l) \in Seq(Leaf) /\ Append(pending, l) # <<>>
        /\ Len(Append(pending, l)) = Len(pending) + 1
    <3>1. Append(pending, l) \in Seq(Leaf) /\ Len(Append(pending, l)) = Len(pending) + 1
      BY <1>0
    <3> QED BY <1>0, <3>1, EmptySeq
  <2>2. CloseWith(Append(pending, l)) /\ UNCHANGED <<roots, serviceVars, boot, mempool, restarts>>
    BY <1>1 DEF Add
  <2> QED BY <1>0, <2>1, <2>2 DEF Closing
<1>2. ASSUME NEW l \in Leaf, Add(l), ~ Full(Append(pending, l))
      PROVE  UNCHANGED <<roots, nextIndex, prevRoot, batchOf, queue, serviceVars, boot, mempool,
                         closed, restarts>>
  BY <1>2 DEF Add
<1>3. CASE CloseEarly
  <2>1. Closing(pending)
    BY <1>0, <1>3 DEF CloseEarly, Closing
  <2> QED BY <2>1
<1> QED BY <1>1, <1>2, <1>3

LEMMA ClosedBy ==
  ASSUME Shape, [Next]_vars
  PROVE  UNCHANGED <<closed, nextIndex, prevRoot, queue>> \/ (\E leaves : Closing(leaves))
           \/ (UNCHANGED closed /\ (BeginAnchor \/ BootCount \/ BootRoot \/ Restart))
<1>1. CASE (\E l \in Leaf : Add(l)) \/ CloseEarly
  BY <1>1, AddOrClose
<1> QED
  BY <1>1 DEF Next, vars, batcherVars, BeginAnchor, ReadCount, SendAnchor, Mine,
     ReadReceipt, RpcError, BeginReconcile, ReconcileCount, ReconcileOne, ReconcileError,
     BootReconciled, BootCount, BootRoot, BootError, Restart

LEMMA ClosingAdds ==
  ASSUME Shape, HistoryShape, NEW leaves, Closing(leaves)
  PROVE  /\ NewBatch(leaves) \in AnyBatch /\ NewBatch(leaves).root # ZeroRoot
         /\ closed' = Append(closed, [batch |-> NewBatch(leaves), process |-> restarts])
         /\ [batch |-> NewBatch(leaves), process |-> restarts] \in ClosedEntry
         /\ closed' \in Seq(ClosedEntry) /\ Len(closed') = Len(closed) + 1
         /\ closed'[Len(closed) + 1] = [batch |-> NewBatch(leaves), process |-> restarts]
         /\ \A i \in 1 .. Len(closed) : closed'[i] = closed[i]
         /\ AllClosed' = AllClosed \cup {NewBatch(leaves)}
<1> DEFINE b == NewBatch(leaves)
           e == [batch |-> b, process |-> restarts]
<1>1. b \in AnyBatch /\ b.root # ZeroRoot
  <2>1. RootOf(leaves) \in Root /\ RootOf(leaves) # ZeroRoot /\ leaves \in Leaves
    BY RootOfBatch, ZeroRootAssumption DEF Closing
  <2> QED BY <2>1 DEF NewBatch, AnyBatch, Shape, BatcherShape
<1>2. closed' = Append(closed, e)
  BY DEF Closing, CloseWith, NewBatch
<1> HIDE DEF b
<1>3. e \in ClosedEntry /\ e.batch = b
  BY <1>1 DEF ClosedEntry, HistoryShape
<1> HIDE DEF e
<1>4. /\ closed' \in Seq(ClosedEntry) /\ Len(closed') = Len(closed) + 1
      /\ closed'[Len(closed) + 1] = e /\ \A i \in 1 .. Len(closed) : closed'[i] = closed[i]
      /\ DOMAIN closed = 1 .. Len(closed) /\ DOMAIN closed' = 1 .. Len(closed) + 1
      /\ Len(closed) \in Nat
  BY <1>2, <1>3 DEF HistoryShape
<1>5. AllClosed' = AllClosed \cup {b}
  BY <1>3, <1>4 DEF AllClosed
<1> QED BY <1>1, <1>2, <1>3, <1>4, <1>5 DEF b, e

LEMMA ClosedGrows ==
  ASSUME Shape, HistoryShape, [Next]_vars
  PROVE  AllClosed \subseteq AllClosed'
<1>1. CASE UNCHANGED closed
  BY <1>1 DEF AllClosed
<1>2. ASSUME NEW leaves, Closing(leaves) PROVE AllClosed \subseteq AllClosed'
  BY <1>2, ClosingAdds
<1> QED BY <1>1, <1>2, ClosedBy

LEMMA RootsOnlyGrow ==
  ASSUME Shape, [Next]_vars
  PROVE  Len(roots) \in Nat /\ Len(roots') \in Nat /\ Len(roots) <= Len(roots')
           /\ \A k \in 1 .. Len(roots) : roots'[k] = roots[k]
<1>1. roots \in Seq(AnyRoot) /\ roots' \in Seq(AnyRoot)
  BY ChainStep DEF Shape, ChainShape
<1>2. \A k \in 1 .. Len(roots) : k \in 1 .. Len(roots') /\ roots'[k] = roots[k]
  BY <1>1, RootsGrow DEF Shape
<1> QED BY <1>1, <1>2

LEMMA HistoryInit == Init => HistoryShape
BY DEF Init, HistoryShape, AllClosed

LEMMA HistoryStep ==
  ASSUME Shape, HistoryShape, [Next]_vars
  PROVE  HistoryShape'
<1>1. closed' \in Seq(ClosedEntry) /\ \A c \in AllClosed' : c.root # ZeroRoot
  <2>1. CASE UNCHANGED closed
    BY <2>1 DEF HistoryShape, AllClosed
  <2>2. ASSUME NEW leaves, Closing(leaves)
        PROVE  closed' \in Seq(ClosedEntry) /\ \A c \in AllClosed' : c.root # ZeroRoot
    BY <2>2, ClosingAdds DEF HistoryShape
  <2> QED BY <2>1, <2>2, ClosedBy
<1>2. restarts' \in Nat
  BY DEF HistoryShape, Next, vars, Add, CloseEarly, BeginAnchor, ReadCount, SendAnchor, Mine,
     ReadReceipt, RpcError, BeginReconcile, ReconcileCount, ReconcileOne, ReconcileError,
     BootReconciled, BootCount, BootRoot, BootError, Restart
<1>3. boot'.step = "root" => boot'.count \in 1 .. Len(roots')
  <2>1. CASE boot' = boot
    BY <2>1, RootsOnlyGrow DEF HistoryShape
  <2>2. CASE BootCount
    BY <2>2, RootsOnlyGrow DEF BootCount, Resume, AnchorCount
  <2>3. CASE BootReconciled \/ BootRoot \/ BootError \/ Restart
    BY <2>3 DEF BootReconciled, BootRoot, BootError, Restart, Resume
  <2> QED
    BY <2>1, <2>2, <2>3 DEF Next, vars, Add, CloseEarly, BeginAnchor, ReadCount, SendAnchor, Mine,
       ReadReceipt, RpcError, BeginReconcile, ReconcileCount, ReconcileOne, ReconcileError
<1> QED BY <1>1, <1>2, <1>3 DEF HistoryShape

(* What is queued or worked on was closed.                                 *)
LEMMA FromClosedStep ==
  ASSUME Shape, HistoryShape, FromClosed, [Next]_vars
  PROVE  FromClosed'
<1>0. queue \in Seq(AnyBatch) /\ AllClosed \subseteq AllClosed'
  BY ClosedGrows DEF Shape, BatcherShape
<1>1. CASE BeginAnchor
  <2>1. /\ queue # <<>> /\ queue' = Tail(queue)
        /\ job' = [step |-> "count", batch |-> Head(queue)]
    BY <1>1 DEF BeginAnchor
  <2>2. /\ Head(queue) = queue[1] /\ 1 \in DOMAIN queue
        /\ \A i \in DOMAIN queue' : i + 1 \in DOMAIN queue /\ queue'[i] = queue[i + 1]
    BY <1>0, <2>1
  <2> QED BY <1>0, <2>1, <2>2 DEF FromClosed
<1>2. ASSUME NEW leaves, Closing(leaves) PROVE FromClosed'
  <2>1. queue' = Append(queue, NewBatch(leaves)) /\ UNCHANGED job
    BY <1>2 DEF Closing, CloseWith, NewBatch, serviceVars
  <2>2. NewBatch(leaves) \in AllClosed' /\ NewBatch(leaves) \in AnyBatch
    BY <1>2, ClosingAdds
  <2>3. \A i \in DOMAIN queue' : \/ i \in DOMAIN queue /\ queue'[i] = queue[i]
                                \/ queue'[i] = NewBatch(leaves)
    BY <1>0, <2>1, <2>2
  <2> QED BY <1>0, <2>1, <2>2, <2>3 DEF FromClosed
<1>3. CASE Restart
  BY <1>3 DEF Restart, FromClosed
<1>4. ASSUME UNCHANGED queue, job' = Idle \/ job' = job PROVE FromClosed'
  BY <1>0, <1>4 DEF FromClosed
<1>5. ASSUME UNCHANGED queue, job # Idle, job'.batch = job.batch PROVE FromClosed'
  BY <1>0, <1>5 DEF FromClosed
<1>6. job # Idle => job \in [step : JobStep, batch : AnyBatch]
  BY DEF Shape, ServiceShape
<1>7. CASE ReadCount
  <2>1. job # Idle
    BY <1>7 DEF ReadCount, Idle
  <2>2. job' = Idle \/ job'.batch = job.batch
    BY <1>6, <1>7, <2>1 DEF ReadCount, Settle
  <2> QED BY <1>4, <1>5, <1>7, <2>1, <2>2 DEF ReadCount
<1>8. CASE SendAnchor
  <2>1. job # Idle
    BY <1>8 DEF SendAnchor, Idle
  <2>2. job'.batch = job.batch
    BY <1>6, <1>8, <2>1 DEF SendAnchor
  <2> QED BY <1>5, <1>8, <2>1, <2>2 DEF SendAnchor
<1>9. CASE Mine
  <2>1. job' = job \/ (job # Idle /\ job'.batch = job.batch)
    BY <1>6, <1>9 DEF Mine, Idle
  <2> QED BY <1>4, <1>5, <1>9, <2>1 DEF Mine
<1>10. CASE ReadReceipt \/ RpcError
  BY <1>4, <1>10 DEF ReadReceipt, RpcError, Settle
<1>11. CASE UNCHANGED <<queue, job>>
  BY <1>4, <1>11
<1> QED
  BY <1>1, <1>2, <1>3, <1>7, <1>8, <1>9, <1>10, <1>11, ClosedBy
     DEF Next, vars, serviceVars, BeginReconcile, ReconcileCount, ReconcileOne, ReconcileError,
     BootReconciled, BootCount, BootRoot, BootError, Add, CloseEarly

-----------------------------------------------------------------------------
(* How a step changes the numbers of Live: no more is added to what waits, *)
(* is sent or is on chain than is closed.                                  *)
RootCount(s, r) == Cardinality({i \in DOMAIN s : s[i].root = r})

LEMMA RootCountIs ==
  ASSUME NEW S, NEW s \in Seq(S), NEW r
  PROVE  RootCount(s, r) = CountIn(s, {b \in S : b.root = r}) /\ RootCount(s, r) \in Nat
<1>1. {i \in DOMAIN s : s[i].root = r} = {i \in DOMAIN s : s[i] \in {b \in S : b.root = r}}
  OBVIOUS
<1> QED BY <1>1, CountIsNat DEF RootCount, CountIn

LEMMA RootCountAppend ==
  ASSUME NEW S, NEW s \in Seq(S), NEW b \in S, NEW r
  PROVE  RootCount(Append(s, b), r) = RootCount(s, r) + (IF b.root = r THEN 1 ELSE 0)
<1> DEFINE T == {x \in S : x.root = r}
<1>1. Append(s, b) \in Seq(S)
  OBVIOUS
<1>2. b \in T <=> b.root = r
  OBVIOUS
<1>3. /\ RootCount(s, r) = CountIn(s, T) /\ RootCount(s, r) \in Nat
      /\ RootCount(Append(s, b), r) = CountIn(Append(s, b), T)
  BY <1>1, RootCountIs
<1> HIDE DEF T
<1>4. CountIn(Append(s, b), T) = IF b \in T THEN CountIn(s, T) + 1 ELSE CountIn(s, T)
  BY CountAppend
<1> QED BY <1>2, <1>3, <1>4

LEMMA RootCountTail ==
  ASSUME NEW S, NEW s \in Seq(S), s # <<>>, NEW r
  PROVE  RootCount(Tail(s), r) = RootCount(s, r) - (IF Head(s).root = r THEN 1 ELSE 0)
<1> DEFINE T == {x \in S : x.root = r}
<1>1. Tail(s) \in Seq(S) /\ Head(s) \in S
  OBVIOUS
<1>2. Head(s) \in T <=> Head(s).root = r
  BY <1>1
<1>3. /\ RootCount(s, r) = CountIn(s, T) /\ RootCount(s, r) \in Nat
      /\ RootCount(Tail(s), r) = CountIn(Tail(s), T)
  BY <1>1, RootCountIs
<1> HIDE DEF T
<1>4. CountIn(Tail(s), T) = IF Head(s) \in T THEN CountIn(s, T) - 1 ELSE CountIn(s, T)
  BY CountTail
<1> QED BY <1>2, <1>3, <1>4

LEMMA CopiesIs ==
  ASSUME NEW S, NEW s \in Seq(S), NEW r
  PROVE  Copies(r, s) = CountIn(s, {r}) /\ Copies(r, s) \in Nat
<1>1. {i \in DOMAIN s : s[i] = r} = {i \in DOMAIN s : s[i] \in {r}}
  OBVIOUS
<1> QED BY <1>1, CountIsNat DEF Copies, CountIn

LEMMA CopiesAppend ==
  ASSUME NEW S, NEW s \in Seq(S), NEW x \in S, NEW r
  PROVE  Copies(r, Append(s, x)) = Copies(r, s) + (IF x = r THEN 1 ELSE 0)
<1>1. Append(s, x) \in Seq(S)
  OBVIOUS
<1>2. /\ Copies(r, s) = CountIn(s, {r}) /\ Copies(r, s) \in Nat
      /\ Copies(r, Append(s, x)) = CountIn(Append(s, x), {r})
  BY <1>1, CopiesIs
<1>3. CountIn(Append(s, x), {r}) = IF x \in {r} THEN CountIn(s, {r}) + 1 ELSE CountIn(s, {r})
  BY CountAppend
<1> QED BY <1>2, <1>3

(* The roots of the closed batches, as a sequence.                         *)
LEMMA ClosedRootsIs ==
  ASSUME HistoryShape
  PROVE  /\ ClosedRoots \in Seq(Root) /\ Len(ClosedRoots) = Len(closed)
         /\ DOMAIN closed = 1 .. Len(closed) /\ DOMAIN ClosedRoots = 1 .. Len(closed)
         /\ \A i \in 1 .. Len(closed) : /\ ClosedRoots[i] = closed[i].batch.root
                                        /\ closed[i].batch \in AnyBatch
<1>1. closed \in Seq(ClosedEntry)
  BY DEF HistoryShape
<1>2. ASSUME NEW i \in 1 .. Len(closed)
      PROVE  closed[i].batch.root \in Root /\ closed[i].batch \in AnyBatch
  <2>1. closed[i] \in ClosedEntry
    BY <1>1
  <2>2. closed[i].batch \in AnyBatch
    BY <2>1 DEF ClosedEntry
  <2> QED BY <2>2 DEF AnyBatch
<1> QED BY <1>1, <1>2 DEF ClosedRoots

LEMMA ClosingCounts ==
  ASSUME Shape, HistoryShape, NEW leaves, Closing(leaves), NEW r
  PROVE  /\ Copies(r, ClosedRoots)' =
              Copies(r, ClosedRoots) + (IF NewBatch(leaves).root = r THEN 1 ELSE 0)
         /\ QueueCopies(r)' = QueueCopies(r) + (IF NewBatch(leaves).root = r THEN 1 ELSE 0)
         /\ ClosedRoots' = Append(ClosedRoots, NewBatch(leaves).root)
<1> DEFINE b == NewBatch(leaves)
           n == Len(closed)
<1>1. /\ b \in AnyBatch /\ Len(closed') = n + 1 /\ closed'[n + 1].batch = b
      /\ closed' \in Seq(ClosedEntry) /\ \A i \in 1 .. n : closed'[i] = closed[i]
  <2>1. b \in AnyBatch /\ closed' \in Seq(ClosedEntry) /\ Len(closed') = n + 1
    BY ClosingAdds
  <2>2. closed'[n + 1] = [batch |-> b, process |-> restarts]
    BY ClosingAdds
  <2>3. \A i \in 1 .. n : closed'[i] = closed[i]
    BY ClosingAdds
  <2> QED BY <2>1, <2>2, <2>3
<1>2. queue' = Append(queue, b) /\ queue \in Seq(AnyBatch)
  BY DEF Closing, CloseWith, NewBatch, Shape, BatcherShape
<1> HIDE DEF b
<1>3. b.root \in Root /\ n \in Nat /\ DOMAIN closed' = 1 .. n + 1
  BY <1>1, ClosedRootsIs DEF AnyBatch, HistoryShape
<1>4. ClosedRoots' = Append(ClosedRoots, b.root)
  <2>1. ClosedRoots' = [i \in 1 .. n + 1 |-> closed'[i].batch.root]
    BY <1>3 DEF ClosedRoots
  <2>2. /\ ClosedRoots \in Seq(Root) /\ Len(ClosedRoots) = n
        /\ \A i \in 1 .. n : ClosedRoots[i] = closed[i].batch.root
    BY ClosedRootsIs
  <2>3. Append(ClosedRoots, b.root) = [i \in 1 .. n + 1 |-> IF i = n + 1 THEN b.root ELSE ClosedRoots[i]]
    BY <1>3, <2>2
  <2>4. \A i \in 1 .. n + 1 :
          closed'[i].batch.root = IF i = n + 1 THEN b.root ELSE ClosedRoots[i]
    BY <1>1, <1>3, <2>2
  <2> QED BY <2>1, <2>3, <2>4
<1>5. Copies(r, ClosedRoots)' = Copies(r, ClosedRoots) + (IF b.root = r THEN 1 ELSE 0)
  <2>1. Copies(r, ClosedRoots)' = Copies(r, ClosedRoots')
    BY DEF Copies
  <2> QED BY <1>3, <1>4, <2>1, ClosedRootsIs, CopiesAppend
<1>6. QueueCopies(r)' = QueueCopies(r) + (IF b.root = r THEN 1 ELSE 0)
  <2>1. QueueCopies(r)' = RootCount(queue', r) /\ QueueCopies(r) = RootCount(queue, r)
    BY DEF QueueCopies, RootCount
  <2>2. RootCount(Append(queue, b), r) = RootCount(queue, r) + (IF b.root = r THEN 1 ELSE 0)
    BY <1>1, <1>2, RootCountAppend
  <2> QED BY <1>2, <2>1, <2>2
<1> QED BY <1>4, <1>5, <1>6 DEF b

LEMMA CountsAreNat ==
  ASSUME Shape, HistoryShape, NEW r
  PROVE  /\ QueueCopies(r) \in Nat /\ MempoolCopies(r) \in Nat /\ Copies(r, roots) \in Nat
         /\ InHand(r) \in Nat /\ Copies(r, ClosedRoots) \in Nat /\ Live(r) \in Nat
<1>0. QueueCopies(r) = RootCount(queue, r) /\ MempoolCopies(r) = RootCount(mempool, r)
  BY DEF QueueCopies, MempoolCopies, RootCount
<1>1. QueueCopies(r) \in Nat
  <2>1. queue \in Seq(AnyBatch)
    BY DEF Shape, BatcherShape
  <2> QED BY <1>0, <2>1, RootCountIs
<1>2. MempoolCopies(r) \in Nat
  <2>1. mempool \in Seq(Tx)
    BY DEF Shape, ChainShape
  <2> QED BY <1>0, <2>1, RootCountIs
<1>3. Copies(r, roots) \in Nat
  BY CopiesIs DEF Shape, ChainShape
<1>4. Copies(r, ClosedRoots) \in Nat
  BY CopiesIs, ClosedRootsIs
<1>5. InHand(r) \in Nat
  BY DEF InHand
<1> QED BY <1>1, <1>2, <1>3, <1>4, <1>5 DEF Live

LEMMA SubmitCounts ==
  ASSUME Shape, job \in [step : JobStep, batch : AnyBatch], Submit, NEW r
  PROVE  MempoolCopies(r)' = MempoolCopies(r) + (IF job.batch.root = r THEN 1 ELSE 0)
<1> DEFINE tx == [root |-> job.batch.root, prevRoot |-> job.batch.prevRoot]
<1>1. tx \in Tx /\ tx.root = job.batch.root
  BY DEF Tx, AnyBatch
<1>2. mempool \in Seq(Tx) /\ mempool' = Append(mempool, tx)
  BY DEF Shape, ChainShape, Submit
<1> HIDE DEF tx
<1>3. RootCount(Append(mempool, tx), r) = RootCount(mempool, r) + (IF tx.root = r THEN 1 ELSE 0)
  BY <1>1, <1>2, RootCountAppend
<1>4. MempoolCopies(r)' = RootCount(mempool', r) /\ MempoolCopies(r) = RootCount(mempool, r)
  BY DEF MempoolCopies, RootCount
<1> QED BY <1>1, <1>2, <1>3, <1>4

LEMMA MineCounts ==
  ASSUME Shape, Mine, NEW r
  PROVE  LET one == IF Head(mempool).root = r THEN 1 ELSE 0
         IN /\ MempoolCopies(r)' = MempoolCopies(r) - one
            /\ Copies(r, roots)' = Copies(r, roots) +
                 (IF Extends(roots, Head(mempool).prevRoot) THEN one ELSE 0)
            /\ InHand(r)' = InHand(r)
<1> DEFINE tx == Head(mempool)
<1>1. mempool \in Seq(Tx) /\ mempool # <<>> /\ mempool' = Tail(mempool) /\ tx \in Tx
  BY DEF Shape, ChainShape, Mine
<1> HIDE DEF tx
<1>2. MempoolCopies(r)' = MempoolCopies(r) - (IF tx.root = r THEN 1 ELSE 0)
  <2>1. RootCount(Tail(mempool), r) = RootCount(mempool, r) - (IF tx.root = r THEN 1 ELSE 0)
    BY <1>1, RootCountTail DEF tx
  <2>2. MempoolCopies(r)' = RootCount(mempool', r) /\ MempoolCopies(r) = RootCount(mempool, r)
    BY DEF MempoolCopies, RootCount
  <2> QED BY <1>1, <2>1, <2>2
<1>3. Copies(r, roots)' = Copies(r, roots')
  BY DEF Copies
<1>4. roots \in Seq(AnyRoot) /\ tx.root \in AnyRoot
  BY <1>1 DEF Shape, ChainShape, Tx, AnyRoot
<1>5. roots' = IF Extends(roots, tx.prevRoot) THEN Append(roots, tx.root) ELSE roots
  BY DEF Mine, ExecuteAnchor, Executed, tx
<1>6. Copies(r, Append(roots, tx.root)) = Copies(r, roots) + (IF tx.root = r THEN 1 ELSE 0)
  BY <1>4, CopiesAppend
<1>7. Copies(r, roots) \in Nat
  BY <1>4, CopiesIs
<1>8. Copies(r, roots)' = Copies(r, roots) +
        (IF Extends(roots, tx.prevRoot) THEN (IF tx.root = r THEN 1 ELSE 0) ELSE 0)
  BY <1>3, <1>5, <1>6, <1>7
<1>9. InHand(r)' = InHand(r)
  <2>1. job = Idle \/ job \in [step : JobStep, batch : AnyBatch]
    BY DEF Shape, ServiceShape
  <2>2. job' = job \/ (job.step = "receipt" /\ job'.step \in {"success", "reverted"})
    BY <2>1 DEF Mine, Idle
  <2> QED BY <2>2 DEF InHand
<1> QED BY <1>2, <1>8, <1>9 DEF tx

LEMMA LiveStep ==
  ASSUME Shape, HistoryShape, [Next]_vars, NEW r
  PROVE  /\ Live(r)' + Copies(r, ClosedRoots) <= Live(r) + Copies(r, ClosedRoots)'
         /\ Live(r) \in Nat /\ Live(r)' \in Nat
         /\ Copies(r, ClosedRoots) \in Nat /\ Copies(r, ClosedRoots)' \in Nat
<1> DEFINE goal == Live(r)' + Copies(r, ClosedRoots) <= Live(r) + Copies(r, ClosedRoots)'
<1>1. /\ QueueCopies(r) \in Nat /\ MempoolCopies(r) \in Nat /\ Copies(r, roots) \in Nat
      /\ InHand(r) \in Nat /\ Copies(r, ClosedRoots) \in Nat /\ Live(r) \in Nat
  BY CountsAreNat
<1>2. /\ QueueCopies(r)' \in Nat /\ MempoolCopies(r)' \in Nat /\ Copies(r, roots)' \in Nat
      /\ InHand(r)' \in Nat /\ Copies(r, ClosedRoots)' \in Nat /\ Live(r)' \in Nat
  <2>1. Shape' /\ HistoryShape'
    BY ShapeStep, HistoryStep
  <2>2. queue' \in Seq(AnyBatch) /\ mempool' \in Seq(Tx) /\ roots' \in Seq(AnyRoot)
    BY <2>1 DEF Shape, BatcherShape, ChainShape
  <2>3. QueueCopies(r)' = RootCount(queue', r) /\ MempoolCopies(r)' = RootCount(mempool', r)
        /\ Copies(r, roots)' = Copies(r, roots')
    BY DEF QueueCopies, MempoolCopies, RootCount, Copies
  <2>4. QueueCopies(r)' \in Nat /\ MempoolCopies(r)' \in Nat /\ Copies(r, roots)' \in Nat
    <3>1. RootCount(queue', r) \in Nat
      BY <2>2, RootCountIs
    <3>2. RootCount(mempool', r) \in Nat
      BY <2>2, RootCountIs
    <3>3. Copies(r, roots') \in Nat
      BY <2>2, CopiesIs
    <3> QED BY <2>3, <3>1, <3>2, <3>3
  <2>5. InHand(r)' \in Nat
    BY DEF InHand
  <2>6. Copies(r, ClosedRoots)' \in Nat
    <3>1. CASE UNCHANGED closed
      BY <1>1, <3>1 DEF Copies, ClosedRoots
    <3>2. ASSUME NEW leaves, Closing(leaves) PROVE Copies(r, ClosedRoots)' \in Nat
      BY <1>1, <3>2, ClosingCounts
    <3> QED BY <3>1, <3>2, ClosedBy
  <2> QED BY <2>4, <2>5, <2>6 DEF Live
<1>3. job # Idle => job \in [step : JobStep, batch : AnyBatch]
  BY DEF Shape, ServiceShape
<1>4. ASSUME UNCHANGED closed PROVE Copies(r, ClosedRoots)' = Copies(r, ClosedRoots)
  BY <1>4 DEF Copies, ClosedRoots
<1>5. ASSUME UNCHANGED queue PROVE QueueCopies(r)' = QueueCopies(r)
  BY <1>5 DEF QueueCopies
<1>6. ASSUME UNCHANGED mempool PROVE MempoolCopies(r)' = MempoolCopies(r)
  BY <1>6 DEF MempoolCopies
<1>7. ASSUME UNCHANGED roots PROVE Copies(r, roots)' = Copies(r, roots)
  BY <1>7 DEF Copies
<1>8. ASSUME UNCHANGED job \/ job' = Idle PROVE InHand(r)' <= InHand(r)
  BY <1>1, <1>8 DEF InHand, Idle
<1>9. ASSUME NEW leaves, Closing(leaves) PROVE goal
  <2>1. /\ Copies(r, ClosedRoots)' =
             Copies(r, ClosedRoots) + (IF NewBatch(leaves).root = r THEN 1 ELSE 0)
        /\ QueueCopies(r)' = QueueCopies(r) + (IF NewBatch(leaves).root = r THEN 1 ELSE 0)
    BY <1>9, ClosingCounts
  <2>2. UNCHANGED <<roots, job, mempool>>
    BY <1>9 DEF Closing, serviceVars
  <2> QED BY <1>1, <1>2, <1>6, <1>7, <1>8, <2>1, <2>2 DEF Live
<1> SUFFICES goal
  BY <1>1, <1>2
<1>10. CASE BeginAnchor
  <2>1. /\ queue \in Seq(AnyBatch) /\ queue # <<>> /\ queue' = Tail(queue) /\ job = Idle
        /\ job' = [step |-> "count", batch |-> Head(queue)]
        /\ UNCHANGED <<roots, mempool, closed>>
    BY <1>10 DEF BeginAnchor, Shape, BatcherShape
  <2>2. RootCount(Tail(queue), r) = RootCount(queue, r) - (IF Head(queue).root = r THEN 1 ELSE 0)
    BY <2>1, RootCountTail
  <2>3. QueueCopies(r)' = RootCount(queue', r) /\ QueueCopies(r) = RootCount(queue, r)
    BY DEF QueueCopies, RootCount
  <2>4. QueueCopies(r)' = QueueCopies(r) - (IF Head(queue).root = r THEN 1 ELSE 0)
    BY <2>1, <2>2, <2>3
  <2>5. InHand(r) = 0 /\ InHand(r)' = IF Head(queue).root = r THEN 1 ELSE 0
    BY <2>1 DEF InHand, Idle
  <2> QED BY <1>1, <1>2, <1>4, <1>6, <1>7, <2>1, <2>4, <2>5 DEF Live
<1>11. CASE ReadCount
  <2>1. job # Idle /\ job.step = "count" /\ UNCHANGED <<queue, mempool, roots, closed>>
    BY <1>11 DEF ReadCount, Idle
  <2>2. job' = Idle \/ job' = [job EXCEPT !.step = "send"]
    BY <1>11 DEF ReadCount, Settle
  <2>3. InHand(r)' <= InHand(r)
    BY <1>1, <1>3, <1>8, <2>1, <2>2 DEF InHand
  <2> QED BY <1>1, <1>2, <1>4, <1>5, <1>6, <1>7, <2>1, <2>3 DEF Live
<1>12. CASE SendAnchor
  <2>1. job # Idle /\ job.step = "send" /\ UNCHANGED <<queue, roots, closed>>
    BY <1>12 DEF SendAnchor, Idle, batcherVars
  <2>2. MempoolCopies(r)' = MempoolCopies(r) + (IF job.batch.root = r THEN 1 ELSE 0)
    BY <1>3, <1>12, <2>1, SubmitCounts DEF SendAnchor
  <2>3. InHand(r) = (IF job.batch.root = r THEN 1 ELSE 0) /\ InHand(r)' = 0
    BY <1>3, <1>12, <2>1 DEF SendAnchor, InHand
  <2> QED BY <1>1, <1>2, <1>4, <1>5, <1>7, <2>1, <2>2, <2>3 DEF Live
<1>13. CASE Mine
  <2> DEFINE one == IF Head(mempool).root = r THEN 1 ELSE 0
             put == IF Extends(roots, Head(mempool).prevRoot) THEN one ELSE 0
  <2>1. /\ MempoolCopies(r)' = MempoolCopies(r) - one
        /\ Copies(r, roots)' = Copies(r, roots) + put /\ InHand(r)' = InHand(r)
    BY <1>13, MineCounts
  <2>2. one \in Nat /\ put \in Nat /\ put <= one
    OBVIOUS
  <2>3. UNCHANGED <<queue, closed>>
    BY <1>13 DEF Mine
  <2> HIDE DEF one, put
  <2> QED BY <1>1, <1>2, <1>4, <1>5, <2>1, <2>2, <2>3 DEF Live
<1>14. CASE RpcError
  <2>1. job # Idle /\ job' = Idle /\ UNCHANGED <<queue, roots, closed>>
    BY <1>14 DEF RpcError, Settle
  <2>2. InHand(r)' = 0
    BY <2>1 DEF InHand, Idle
  <2>3. UNCHANGED mempool \/ (job.step = "send" /\ Submit)
    BY <1>14 DEF RpcError
  <2>4. CASE UNCHANGED mempool
    BY <1>1, <1>2, <1>4, <1>5, <1>6, <1>7, <2>1, <2>2, <2>4 DEF Live
  <2>5. CASE job.step = "send" /\ Submit
    <3>1. MempoolCopies(r)' = MempoolCopies(r) + (IF job.batch.root = r THEN 1 ELSE 0)
      BY <1>3, <2>1, <2>5, SubmitCounts
    <3>2. InHand(r) = IF job.batch.root = r THEN 1 ELSE 0
      BY <2>5 DEF InHand
    <3> QED BY <1>1, <1>2, <1>4, <1>5, <1>7, <2>1, <2>2, <3>1, <3>2 DEF Live
  <2> QED BY <2>3, <2>4, <2>5
<1>15. CASE Restart
  <2>1. queue' = <<>> /\ job' = Idle /\ UNCHANGED <<roots, mempool, closed>>
    BY <1>15 DEF Restart
  <2>2. QueueCopies(r)' = 0
    <3>1. {i \in DOMAIN queue' : queue'[i].root = r} = {}
      BY <2>1
    <3> QED BY <3>1, FS_EmptySet DEF QueueCopies
  <2>3. /\ MempoolCopies(r)' = MempoolCopies(r) /\ Copies(r, roots)' = Copies(r, roots)
        /\ Copies(r, ClosedRoots)' = Copies(r, ClosedRoots) /\ InHand(r)' <= InHand(r)
    BY <1>4, <1>6, <1>7, <1>8, <2>1
  <2> QED BY <1>1, <1>2, <2>2, <2>3 DEF Live
<1>16. CASE ReadReceipt
  <2>1. job' = Idle /\ UNCHANGED <<queue, roots, mempool, closed>>
    BY <1>16 DEF ReadReceipt, Settle
  <2> QED BY <1>1, <1>2, <1>4, <1>5, <1>6, <1>7, <1>8, <2>1 DEF Live
<1>17. CASE UNCHANGED <<queue, job, mempool, roots, closed>>
  BY <1>1, <1>2, <1>4, <1>5, <1>6, <1>7, <1>8, <1>17 DEF Live
<1>18. goal
  <2> HIDE DEF goal
  <2>1. CASE (\E l \in Leaf : Add(l)) \/ CloseEarly
    BY <1>9, <1>17, <2>1, AddOrClose DEF serviceVars
  <2> QED
    BY <1>10, <1>11, <1>12, <1>13, <1>14, <1>15, <1>16, <1>17, <2>1
       DEF Next, vars, serviceVars, BeginReconcile, ReconcileCount, ReconcileOne, ReconcileError,
       BootReconciled, BootCount, BootRoot, BootError
<1> QED BY <1>18

LEMMA OnceInit == Init => OnceInv
<1> SUFFICES ASSUME Init, NEW r \in Root PROVE Live(r) <= Copies(r, ClosedRoots)
  BY DEF OnceInv
<1>1. queue = <<>> /\ mempool = <<>> /\ roots = <<>> /\ job = Idle
  BY DEF Init, AnchorInit
<1>2. /\ {i \in DOMAIN queue : queue[i].root = r} = {}
      /\ {i \in DOMAIN mempool : mempool[i].root = r} = {}
      /\ {i \in DOMAIN roots : roots[i] = r} = {}
  BY <1>1
<1>3. QueueCopies(r) = 0 /\ MempoolCopies(r) = 0 /\ Copies(r, roots) = 0
  BY <1>2, FS_EmptySet DEF QueueCopies, MempoolCopies, Copies
<1>4. InHand(r) = 0
  BY <1>1 DEF InHand, Idle
<1>5. Copies(r, ClosedRoots) \in Nat
  BY ShapeInit, HistoryInit, CountsAreNat
<1> QED BY <1>3, <1>4, <1>5 DEF Live

LEMMA OnceStep ==
  ASSUME Shape, HistoryShape, OnceInv, [Next]_vars
  PROVE  OnceInv'
<1> SUFFICES ASSUME NEW r \in Root PROVE Live(r)' <= Copies(r, ClosedRoots)'
  BY DEF OnceInv
<1>1. Live(r) <= Copies(r, ClosedRoots)
  BY DEF OnceInv
<1>2. /\ Live(r)' + Copies(r, ClosedRoots) <= Live(r) + Copies(r, ClosedRoots)'
      /\ Live(r) \in Nat /\ Live(r)' \in Nat
      /\ Copies(r, ClosedRoots) \in Nat /\ Copies(r, ClosedRoots)' \in Nat
  BY LiveStep
<1> QED BY <1>1, <1>2

-----------------------------------------------------------------------------
(* Anchoring implements AnchorLog.  What may still be committed is what    *)
(* was closed and is not on chain; a transaction that is mined is one of   *)
(* those, by OnceInv, so a batch is committed at most once.                *)
CountedInv == AnchorInv /\ HistoryShape /\ OnceInv

LEMMA CountedInit == Init => CountedInv
BY AnchorInvInit, HistoryInit, OnceInit DEF CountedInv

LEMMA CountedStep == CountedInv /\ [Next]_vars => CountedInv'
BY AnchorInvStep, HistoryStep, OnceStep DEF CountedInv, AnchorInv

LEMMA LogInitially == Init => Log!LogInit
<1> SUFFICES ASSUME Init PROVE Log!LogInit
  OBVIOUS
<1>1. Reported = {}
  BY DEF Init, Reported, NoRecord
<1>2. ASSUME NEW r \in Root PROVE Copies(r, ClosedRoots) = 0 /\ Copies(r, roots) = 0
  <2>1. {i \in DOMAIN roots : roots[i] = r} = {} /\ {i \in DOMAIN ClosedRoots : ClosedRoots[i] = r} = {}
    BY DEF Init, AnchorInit, ClosedRoots
  <2> QED BY <2>1, FS_EmptySet DEF Copies
<1>3. Owed = [r \in Root |-> 0]
  BY <1>2 DEF Owed
<1> QED BY <1>1, <1>3 DEF Log!LogInit, Init, AnchorInit

LEMMA CloseIsClose ==
  ASSUME Shape, HistoryShape, NEW leaves, Closing(leaves)
  PROVE  NewBatch(leaves).root \in Root /\ Log!Close(NewBatch(leaves).root)
<1> DEFINE b == NewBatch(leaves)
<1>1. b.root \in Root
  BY ClosingAdds DEF AnyBatch
<1>2. UNCHANGED <<roots, Reported>>
  BY DEF Closing, serviceVars, Reported
<1>3. ASSUME NEW r \in Root
      PROVE  /\ Copies(r, ClosedRoots)' = Copies(r, ClosedRoots) + (IF b.root = r THEN 1 ELSE 0)
             /\ Copies(r, roots)' = Copies(r, roots)
             /\ Copies(r, ClosedRoots) \in Nat /\ Copies(r, roots) \in Nat
  <2>1. Copies(r, ClosedRoots)' = Copies(r, ClosedRoots) + (IF b.root = r THEN 1 ELSE 0)
    BY ClosingCounts
  <2>2. Copies(r, roots)' = Copies(r, roots)
    BY <1>2 DEF Copies
  <2> QED BY <2>1, <2>2, CountsAreNat
<1> HIDE DEF b
<1>4. Owed' = [Owed EXCEPT ![b.root] = @ + 1]
  <2>1. ASSUME NEW r \in Root
        PROVE  (Copies(r, ClosedRoots) - Copies(r, roots))'
                 = IF r = b.root THEN Copies(r, ClosedRoots) - Copies(r, roots) + 1
                                 ELSE Copies(r, ClosedRoots) - Copies(r, roots)
    BY <1>3
  <2>2. Owed' = [r \in Root |-> (Copies(r, ClosedRoots) - Copies(r, roots))']
    BY DEF Owed
  <2> QED BY <1>1, <2>1, <2>2 DEF Owed
<1> QED BY <1>1, <1>2, <1>4 DEF Log!Close, b

LEMMA MineIsCommit ==
  ASSUME Shape, HistoryShape, OnceInv, Mine
  PROVE  UNCHANGED <<Owed, roots, Reported>>
           \/ (Head(mempool).root \in Root /\ Log!Commit(Head(mempool).root))
<1> DEFINE tx == Head(mempool)
<1>1. tx \in Tx /\ tx.root \in Root /\ mempool # <<>> /\ mempool \in Seq(Tx)
  <2>1. mempool # <<>> /\ mempool \in Seq(Tx)
    BY DEF Mine, Shape, ChainShape
  <2>2. tx \in Tx
    BY <2>1
  <2> QED BY <2>1, <2>2 DEF Tx
<1>2. UNCHANGED <<Reported, ClosedRoots>>
  BY DEF Mine, Reported, ClosedRoots
<1>3. CASE ~Extends(roots, tx.prevRoot)
  <2>1. UNCHANGED roots
    BY <1>3 DEF Mine, ExecuteAnchor, Executed
  <2> QED BY <1>2, <2>1 DEF Owed, Copies
<1>4. CASE Extends(roots, tx.prevRoot)
  <2>1. roots' = Append(roots, tx.root)
    BY <1>4 DEF Mine, ExecuteAnchor, Executed
  <2>2. ASSUME NEW r \in Root
        PROVE  /\ Copies(r, ClosedRoots)' = Copies(r, ClosedRoots)
               /\ Copies(r, roots)' = Copies(r, roots) + (IF tx.root = r THEN 1 ELSE 0)
               /\ Copies(r, ClosedRoots) \in Nat /\ Copies(r, roots) \in Nat
    <3>1. Copies(r, ClosedRoots)' = Copies(r, ClosedRoots)
      BY <1>2 DEF Copies
    <3>2. Copies(r, roots)' = Copies(r, roots) + (IF tx.root = r THEN 1 ELSE 0)
      BY <1>4, MineCounts
    <3> QED BY <3>1, <3>2, CountsAreNat
  <2>3. Owed[tx.root] > 0
    <3>1. Live(tx.root) <= Copies(tx.root, ClosedRoots)
      BY <1>1 DEF OnceInv
    <3>2. MempoolCopies(tx.root) # 0
      <4>1. MempoolCopies(tx.root) = RootCount(mempool, tx.root)
        BY DEF MempoolCopies, RootCount
      <4>2. RootCount(mempool, tx.root) = CountIn(mempool, {x \in Tx : x.root = tx.root})
        BY <1>1, RootCountIs
      <4>3. 1 \in DOMAIN mempool /\ mempool[1] \in {x \in Tx : x.root = tx.root}
        BY <1>1
      <4> DEFINE T == {x \in Tx : x.root = tx.root}
      <4> HIDE DEF T, tx
      <4>4. CountIn(mempool, T) # 0
        BY <1>1, <4>3, CountPositive DEF T
      <4> QED BY <4>1, <4>2, <4>4 DEF T
    <3>3. /\ QueueCopies(tx.root) \in Nat /\ MempoolCopies(tx.root) \in Nat
          /\ Copies(tx.root, roots) \in Nat /\ InHand(tx.root) \in Nat
          /\ Copies(tx.root, ClosedRoots) \in Nat
      BY CountsAreNat
    <3> QED BY <1>1, <3>1, <3>2, <3>3 DEF Live, Owed
  <2> HIDE DEF tx
  <2>4. Owed' = [Owed EXCEPT ![tx.root] = @ - 1]
    <3>1. ASSUME NEW r \in Root
          PROVE  (Copies(r, ClosedRoots) - Copies(r, roots))'
                   = IF r = tx.root THEN Copies(r, ClosedRoots) - Copies(r, roots) - 1
                                    ELSE Copies(r, ClosedRoots) - Copies(r, roots)
      BY <2>2
    <3>2. Owed' = [r \in Root |-> (Copies(r, ClosedRoots) - Copies(r, roots))']
      BY DEF Owed
    <3> QED BY <1>1, <3>1, <3>2 DEF Owed
  <2>5. Log!Commit(tx.root)
    BY <1>2, <2>1, <2>3, <2>4 DEF Log!Commit
  <2> QED BY <1>1, <2>5 DEF tx
<1> QED BY <1>3, <1>4

LEMMA RewriteIsReport ==
  ASSUME Shape, NEW x, NEW status, NEW r, Rewrites(x, status, r)
  PROVE  Log!Report(r) \/ Log!Forget
<1>1. UNCHANGED <<Owed, roots>>
  BY DEF Rewrites, Owed, Copies, ClosedRoots
<1>2. anchors \in [Index -> {NoRecord} \cup [status : Status, root : Root]]
  BY DEF Shape, ServiceShape
<1>3. \A i \in Index : anchors'[i] = IF i = x THEN [status |-> status, root |-> r] ELSE anchors[i]
  BY <1>2 DEF Rewrites
<1>4. CASE x \in Index /\ status = "ANCHORED"
  <2>1. r \in Reported' /\ Reported' \subseteq Reported \cup {r}
    BY <1>3, <1>4 DEF Reported, Index
  <2>2. \E i \in DOMAIN roots : roots[i] = r
    BY <1>4 DEF Rewrites, Committed
  <2> QED BY <1>1, <2>1, <2>2 DEF Log!Report
<1>5. CASE ~(x \in Index /\ status = "ANCHORED")
  <2>1. Reported' \subseteq Reported
    BY <1>3, <1>5 DEF Reported, Index
  <2> QED BY <1>1, <2>1 DEF Log!Forget
<1> QED BY <1>4, <1>5

LEMMA LogStep == CountedInv /\ [Next]_vars => [Log!LogNext]_(Log!logVars)
<1> SUFFICES ASSUME CountedInv, [Next]_vars
             PROVE  Log!LogNext \/ UNCHANGED <<Owed, roots, Reported>>
  BY DEF Log!logVars
<1>0. AnchorInv /\ Shape /\ HistoryShape /\ OnceInv
  BY DEF CountedInv, AnchorInv
<1>1. ASSUME NEW leaves, Closing(leaves) PROVE Log!LogNext
  BY <1>0, <1>1, CloseIsClose DEF Log!LogNext
<1>2. CASE Mine
  BY <1>0, <1>2, MineIsCommit DEF Log!LogNext
<1>3. ASSUME NEW x, NEW status, NEW r, Rewrites(x, status, r) PROVE Log!LogNext
  <2>1. r \in Root
    BY <1>3 DEF Rewrites
  <2> QED BY <1>0, <1>3, <2>1, RewriteIsReport DEF Log!LogNext
<1>4. CASE UNCHANGED <<roots, closed, anchors>>
  BY <1>4 DEF Owed, Copies, ClosedRoots, Reported
<1>5. CASE (\E l \in Leaf : Add(l)) \/ CloseEarly
  BY <1>0, <1>1, <1>4, <1>5, AddOrClose DEF serviceVars
<1>6. UNCHANGED anchors \/ \E x, status, r : Rewrites(x, status, r)
  BY <1>0, OneRewrite
<1> QED
  BY <1>2, <1>3, <1>4, <1>5, <1>6 DEF Next, vars, serviceVars, BeginAnchor, ReadCount,
     SendAnchor, ReadReceipt, RpcError, BeginReconcile, ReconcileCount, ReconcileOne,
     ReconcileError, BootReconciled, BootCount, BootRoot, BootError, Restart

(* No batch is committed twice, what is committed stays, and nothing is    *)
(* reported before: the gateway, its anchor service and the contract       *)
(* behind failing calls implement AnchorLog (anchor.ts:8-31).              *)
THEOREM AnchorsOnceAlways == Spec => AnchorsOnce
<1> QED BY CountedInit, CountedStep, LogInitially, LogStep, PTL DEF Spec, AnchorsOnce, Log!LogSpec

-----------------------------------------------------------------------------
(* Batches of one process follow each other: the batcher's prevRoot is the *)
(* root it closed last, and only a restart forgets it.                     *)
LEMMA ProcessInit == Init => ProcessInv
BY DEF Init, ProcessInv

LEMMA ProcessStep ==
  ASSUME Shape, HistoryShape, ProcessInv, [Next]_vars
  PROVE  ProcessInv'
<1> DEFINE n == Len(closed)
<1>0. /\ closed \in Seq(ClosedEntry) /\ n \in Nat /\ DOMAIN closed = 1 .. n
      /\ restarts \in Nat /\ nextIndex \in Nat
      /\ \A i \in 1 .. n : closed[i].process \in Nat
  <2>1. closed \in Seq(ClosedEntry) /\ n \in Nat /\ DOMAIN closed = 1 .. n
    BY DEF HistoryShape
  <2>2. ASSUME NEW i \in 1 .. n PROVE closed[i].process \in Nat
    <3>1. closed[i] \in ClosedEntry
      BY <2>1
    <3> QED BY <3>1 DEF ClosedEntry
  <2> QED BY <2>1, <2>2 DEF HistoryShape, Shape, BatcherShape
<1>1. ASSUME NEW leaves, Closing(leaves) PROVE ProcessInv'
  <2> DEFINE b == NewBatch(leaves)
  <2>1. Len(closed') = n + 1 /\ DOMAIN closed' = 1 .. n + 1
    <3>1. closed' \in Seq(ClosedEntry) /\ Len(closed') = n + 1
      BY <1>1, ClosingAdds
    <3> QED BY <3>1
  <2>2. /\ closed'[n + 1].batch = b /\ closed'[n + 1].process = restarts
        /\ b.prevRoot = prevRoot /\ b.root = RootOf(leaves)
    <3>1. closed'[n + 1] = [batch |-> b, process |-> restarts]
      BY <1>1, ClosingAdds
    <3>2. b.prevRoot = prevRoot /\ b.root = RootOf(leaves)
      BY DEF NewBatch
    <3> HIDE DEF b, n
    <3> QED BY <3>1, <3>2
  <2>3. \A i \in 1 .. n : closed'[i] = closed[i]
    BY <1>1, ClosingAdds
  <2>4. nextIndex' = nextIndex + 1 /\ prevRoot' = RootOf(leaves) /\ restarts' = restarts
    BY <1>1 DEF Closing, CloseWith
  <2> HIDE DEF b, n
  <2>5. ASSUME NEW i \in DOMAIN closed', NEW j \in DOMAIN closed', i < j
        PROVE  closed'[i].process <= closed'[j].process
    <3>1. i \in 1 .. n /\ closed'[i] = closed[i]
      BY <1>0, <2>1, <2>3, <2>5
    <3>2. CASE j = n + 1
      BY <1>0, <2>2, <3>1, <3>2 DEF ProcessInv
    <3>3. CASE j # n + 1
      <4>1. j \in 1 .. n /\ closed'[j] = closed[j]
        BY <1>0, <2>1, <2>3, <3>3
      <4> QED BY <1>0, <2>5, <3>1, <4>1 DEF ProcessInv
    <3> QED BY <3>2, <3>3
  <2>6. \A i \in DOMAIN closed' : closed'[i].process <= restarts'
    BY <1>0, <2>1, <2>2, <2>3, <2>4 DEF ProcessInv
  <2>7. ASSUME NEW i \in DOMAIN closed', NEW j \in DOMAIN closed', j = i + 1,
               closed'[i].process = closed'[j].process
        PROVE  closed'[j].batch.prevRoot = closed'[i].batch.root
    <3>1. CASE j = n + 1
      <4>1. i = n /\ i \in 1 .. n /\ closed'[i] = closed[i] /\ closed[n].process = restarts
        BY <1>0, <2>1, <2>2, <2>3, <2>7, <3>1
      <4>2. closed # <<>> /\ prevRoot = closed[n].batch.root
        BY <1>0, <4>1 DEF ProcessInv, n
      <4> QED BY <2>2, <3>1, <4>1, <4>2
    <3>2. CASE j # n + 1
      <4>1. i \in 1 .. n /\ j \in 1 .. n /\ i \in DOMAIN closed /\ j \in DOMAIN closed
        BY <1>0, <2>1, <2>7, <3>2
      <4>2. closed'[i] = closed[i] /\ closed'[j] = closed[j]
        BY <2>3, <4>1
      <4> QED BY <2>7, <4>1, <4>2 DEF ProcessInv
    <3> QED BY <3>1, <3>2
  <2>8. nextIndex' > 0 /\ prevRoot' = closed'[Len(closed')].batch.root
    BY <1>0, <2>1, <2>2, <2>4
  <2> QED BY <2>5, <2>6, <2>7, <2>8 DEF ProcessInv
<1>2. CASE Restart
  <2>1. UNCHANGED closed /\ restarts' = restarts + 1
    BY <1>2 DEF Restart
  <2>2. closed # <<>> => n \in 1 .. n
    BY <1>0, EmptySeq
  <2>3. closed # <<>> => closed[n].process # restarts'
    BY <1>0, <2>1, <2>2 DEF ProcessInv
  <2> QED BY <1>0, <2>1, <2>3 DEF ProcessInv
<1>3. CASE BootCount \/ BootRoot
  <2>1. UNCHANGED <<closed, restarts>> /\ (nextIndex # 0 => UNCHANGED <<nextIndex, prevRoot>>)
    BY <1>3 DEF BootCount, BootRoot, Resume
  <2> QED BY <1>0, <2>1 DEF ProcessInv
<1>4. CASE UNCHANGED <<closed, restarts, nextIndex, prevRoot>>
  BY <1>4 DEF ProcessInv
<1>5. CASE (\E l \in Leaf : Add(l)) \/ CloseEarly
  BY <1>1, <1>4, <1>5, AddOrClose
<1> QED
  BY <1>2, <1>3, <1>4, <1>5 DEF Next, vars, batcherVars, BeginAnchor, ReadCount, SendAnchor,
     Mine, ReadReceipt, RpcError, BeginReconcile, ReconcileCount, ReconcileOne, ReconcileError,
     BootReconciled, BootError

-----------------------------------------------------------------------------
(* When no two batches have the same root, a root names its batch.         *)
LEMMA BatchOfRoot ==
  ASSUME RootsDiffer, NEW c \in AllClosed, NEW d \in AllClosed, c.root = d.root
  PROVE  c = d
BY DEF AllClosed, RootsDiffer

LEMMA DifferBefore ==
  ASSUME Shape, HistoryShape, [Next]_vars, RootsDiffer'
  PROVE  RootsDiffer
<1>1. CASE UNCHANGED closed
  BY <1>1 DEF RootsDiffer
<1>2. ASSUME NEW leaves, Closing(leaves) PROVE RootsDiffer
  <2>1. /\ Len(closed') = Len(closed) + 1 /\ \A i \in 1 .. Len(closed) : closed'[i] = closed[i]
    BY <1>2, ClosingAdds
  <2>2. DOMAIN closed = 1 .. Len(closed) /\ Len(closed) \in Nat
    BY DEF HistoryShape
  <2>3. DOMAIN closed' = 1 .. Len(closed')
    BY <1>2, ClosingAdds
  <2> QED BY <2>1, <2>2, <2>3 DEF RootsDiffer
<1> QED BY <1>1, <1>2, ClosedBy

(* A place in the chain of batches is for ever.                            *)
LEMMA FollowsStays ==
  ASSUME Shape, HistoryShape, [Next]_vars, NEW index \in Nat, NEW prev
  PROVE  /\ Follows(index, prev) => Follows(index, prev)'
         /\ MayFollow(index, prev) => MayFollow(index, prev)'
<1>1. AllClosed \subseteq AllClosed'
  BY ClosedGrows
<1>2. Len(roots) \in Nat /\ Len(roots') \in Nat /\ Len(roots) <= Len(roots')
  BY RootsOnlyGrow
<1>3. Follows(index, prev) => Follows(index, prev)'
  BY <1>1 DEF Follows
<1> QED BY <1>2, <1>3 DEF MayFollow

LEMMA HoldsStays ==
  ASSUME Shape, [Next]_vars, NEW index \in Nat, NEW r, HoldsAt(index, r)
  PROVE  HoldsAt(index, r)'
BY RootsOnlyGrow DEF HoldsAt

-----------------------------------------------------------------------------
(* A transaction lands at the index of its batch, or reverts.              *)
SlotAt(k) == \E c \in AllClosed : c.root = roots[k] /\ c.index = k - 1 /\ c.prevRoot = RootBefore(k)

Sendable(root, prev) ==
  \E c \in AllClosed : c.root = root /\ c.prevRoot = prev /\ Follows(c.index, c.prevRoot)

LEMMA AllClosedAre ==
  ASSUME HistoryShape
  PROVE  \A c \in AllClosed : c \in AnyBatch /\ c.root # ZeroRoot /\ c.root \in Root /\ c.index \in Nat
<1>1. ASSUME NEW c \in AllClosed PROVE c \in AnyBatch
  <2>1. PICK i \in DOMAIN closed : c = closed[i].batch
    BY DEF AllClosed
  <2> QED BY <2>1, ClosedRootsIs
<1> QED BY <1>1 DEF HistoryShape, AnyBatch

(* The newest root is that of the closed batch with the index before.      *)
LEMMA TipIsClosed ==
  ASSUME ChainShape, SlotsInv, roots # <<>>
  PROVE  \E c \in AllClosed : c.root = Tip(roots) /\ c.index = Len(roots) - 1
<1>1. Len(roots) \in DOMAIN roots
  BY EmptySeq DEF ChainShape
<1> QED BY <1>1 DEF SlotsInv, Tip

(* What extends the newest root has the index of the next.                 *)
LEMMA LandsInPlace ==
  ASSUME Shape, HistoryShape, RootsDiffer, SlotsInv,
         NEW c \in AllClosed, Follows(c.index, c.prevRoot), Extends(roots, c.prevRoot)
  PROVE  c.index = Len(roots) /\ c.prevRoot = Tip(roots)
<1>0. c.prevRoot = Tip(roots) /\ ChainShape /\ Len(roots) \in Nat
  BY DEF Extends, Shape, ChainShape
<1>1. CASE roots = <<>>
  <2>1. c.prevRoot = ZeroRoot /\ Len(roots) = 0
    BY <1>0, <1>1, EmptySeq DEF Tip
  <2> QED BY <1>0, <2>1, AllClosedAre DEF Follows
<1>2. CASE roots # <<>>
  <2>1. PICK d \in AllClosed : d.root = Tip(roots) /\ d.index = Len(roots) - 1
    BY <1>0, <1>2, TipIsClosed
  <2>2. c.prevRoot = d.root /\ d.root # ZeroRoot
    BY <1>0, <2>1, AllClosedAre
  <2>3. PICK e \in AllClosed : c.prevRoot = e.root /\ c.index = e.index + 1
    BY <2>2 DEF Follows
  <2>4. e = d
    BY <2>2, <2>3, BatchOfRoot
  <2> QED BY <1>0, <2>1, <2>3, <2>4
<1> QED BY <1>1, <1>2

(* The batcher's next index and prevRoot.                                  *)
LEMMA NextSlotStep ==
  ASSUME Shape, HistoryShape, RootsDiffer, SlotsInv, [Next]_vars
  PROVE  MayFollow(nextIndex, prevRoot)'
<1>0. ChainShape /\ nextIndex \in Nat /\ Len(roots) \in Nat
  BY DEF Shape, BatcherShape, ChainShape
<1>1. CASE UNCHANGED <<nextIndex, prevRoot>>
  <2>1. PICK x, p : x = nextIndex /\ p = prevRoot
    OBVIOUS
  <2>2. MayFollow(x, p) /\ x \in Nat
    BY <1>0, <2>1 DEF SlotsInv
  <2>3. MayFollow(x, p)'
    BY <2>2, FollowsStays
  <2> QED BY <1>1, <2>1, <2>3 DEF MayFollow, Follows
<1>2. ASSUME NEW leaves, Closing(leaves) PROVE MayFollow(nextIndex, prevRoot)'
  <2>1. NewBatch(leaves) \in AllClosed'
    BY <1>2, ClosingAdds
  <2>2. nextIndex' = NewBatch(leaves).index + 1 /\ prevRoot' = NewBatch(leaves).root
    BY <1>2 DEF Closing, CloseWith, NewBatch
  <2> QED BY <2>1, <2>2 DEF MayFollow, Follows
<1>3. CASE nextIndex' = 0 /\ prevRoot' = ZeroRoot
  BY <1>3 DEF MayFollow, Follows
<1>4. CASE BootCount
  BY <1>1, <1>3, <1>4 DEF BootCount, Resume
<1>5. CASE BootRoot
  <2>1. UNCHANGED <<roots, closed>>
    BY <1>5 DEF BootRoot
  <2>2. CASE nextIndex' = boot.count /\ prevRoot' = Tip(roots)
    <3>1. boot.count \in 1 .. Len(roots) /\ roots # <<>>
      <4>1. boot.count \in 1 .. Len(roots)
        BY <1>5 DEF BootRoot, HistoryShape
      <4> QED BY <1>0, <4>1, EmptySeq
    <3>2. PICK c \in AllClosed : c.root = Tip(roots) /\ c.index = Len(roots) - 1
      BY <1>0, <3>1, TipIsClosed
    <3>3. c \in AllClosed'
      BY <2>1 DEF AllClosed
    <3> QED BY <1>0, <2>1, <2>2, <3>1, <3>2, <3>3 DEF MayFollow, Follows
  <2>3. CASE UNCHANGED <<nextIndex, prevRoot>>
    BY <1>1, <2>3
  <2> QED BY <1>5, <2>2, <2>3 DEF BootRoot, Resume, LatestRoot
<1>6. CASE Restart
  BY <1>3, <1>6 DEF Restart
<1>7. CASE (\E l \in Leaf : Add(l)) \/ CloseEarly
  BY <1>1, <1>2, <1>7, AddOrClose
<1> QED
  BY <1>1, <1>4, <1>5, <1>6, <1>7 DEF Next, vars, batcherVars, BeginAnchor, ReadCount, SendAnchor,
     Mine, ReadReceipt, RpcError, BeginReconcile, ReconcileCount, ReconcileOne, ReconcileError,
     BootReconciled, BootError

(* Every closed batch has its place, or comes too late for it.             *)
LEMMA ClosedSlotsStep ==
  ASSUME Shape, HistoryShape, SlotsInv, [Next]_vars
  PROVE  \A c \in AllClosed' : MayFollow(c.index, c.prevRoot)'
<1> SUFFICES ASSUME NEW c \in AllClosed' PROVE MayFollow(c.index, c.prevRoot)'
  OBVIOUS
<1>1. CASE c \in AllClosed
  <2>1. MayFollow(c.index, c.prevRoot) /\ c.index \in Nat
    BY <1>1, AllClosedAre DEF SlotsInv
  <2> QED BY <2>1, FollowsStays
<1>2. ASSUME NEW leaves, Closing(leaves), c = NewBatch(leaves) PROVE MayFollow(c.index, c.prevRoot)'
  <2>1. MayFollow(c.index, c.prevRoot) /\ c.index \in Nat
    BY <1>2 DEF SlotsInv, NewBatch, Shape, BatcherShape
  <2> QED BY <2>1, FollowsStays
<1>3. UNCHANGED closed => AllClosed' = AllClosed
  BY DEF AllClosed
<1>4. ASSUME NEW leaves, Closing(leaves) PROVE AllClosed' = AllClosed \cup {NewBatch(leaves)}
  BY <1>4, ClosingAdds
<1> QED BY <1>1, <1>2, <1>3, <1>4, ClosedBy

(* What may be sent may be sent later.                                     *)
LEMMA SendableStays ==
  ASSUME Shape, HistoryShape, [Next]_vars, NEW root, NEW prev, Sendable(root, prev)
  PROVE  Sendable(root, prev)'
<1>1. PICK c \in AllClosed : c.root = root /\ c.prevRoot = prev /\ Follows(c.index, c.prevRoot)
  BY DEF Sendable
<1>2. c \in AllClosed' /\ Follows(c.index, c.prevRoot)'
  BY <1>1, AllClosedAre, ClosedGrows, FollowsStays
<1> QED BY <1>1, <1>2 DEF Sendable

LEMMA MempoolSlotsStep ==
  ASSUME Shape, HistoryShape, FromClosed, SlotsInv, [Next]_vars
  PROVE  \A i \in DOMAIN mempool' : Sendable(mempool[i].root, mempool[i].prevRoot)'
<1> SUFFICES ASSUME NEW i \in DOMAIN mempool'
             PROVE  Sendable(mempool[i].root, mempool[i].prevRoot)'
  OBVIOUS
<1>0. mempool \in Seq(Tx)
  BY DEF Shape, ChainShape
<1>1. ASSUME NEW k \in DOMAIN mempool, mempool'[i] = mempool[k]
      PROVE  Sendable(mempool[i].root, mempool[i].prevRoot)'
  <2>1. PICK r, p : r = mempool[k].root /\ p = mempool[k].prevRoot
    OBVIOUS
  <2>2. Sendable(r, p)
    BY <2>1 DEF SlotsInv, Sendable
  <2>3. Sendable(r, p)'
    BY <2>2, SendableStays
  <2> QED BY <1>1, <2>1, <2>3 DEF Sendable
<1>2. CASE job.step = "send" /\ job # Idle /\ Submit
  <2>1. PICK b : b = job.batch
    OBVIOUS
  <2>2. b \in AllClosed /\ Follows(b.index, b.prevRoot)
    BY <1>2, <2>1 DEF FromClosed, SlotsInv
  <2>3. Sendable(b.root, b.prevRoot)
    BY <2>2 DEF Sendable
  <2>4. Sendable(b.root, b.prevRoot)'
    BY <2>3, SendableStays
  <2>5. mempool' = Append(mempool, [root |-> b.root, prevRoot |-> b.prevRoot])
    BY <1>2, <2>1 DEF Submit
  <2>6. \/ i \in DOMAIN mempool /\ mempool'[i] = mempool[i]
        \/ mempool'[i] = [root |-> b.root, prevRoot |-> b.prevRoot]
    BY <1>0, <2>5
  <2>7. ASSUME mempool'[i] = [root |-> b.root, prevRoot |-> b.prevRoot]
        PROVE  Sendable(mempool[i].root, mempool[i].prevRoot)'
    BY <2>4, <2>7 DEF Sendable
  <2> QED BY <1>1, <2>6, <2>7
<1>3. CASE Mine
  <2>1. mempool # <<>> /\ mempool' = Tail(mempool)
    BY <1>3 DEF Mine
  <2>2. i + 1 \in DOMAIN mempool /\ mempool'[i] = mempool[i + 1]
    BY <1>0, <2>1
  <2> QED BY <1>1, <2>2
<1>4. CASE UNCHANGED mempool
  BY <1>1, <1>4
<1> QED
  BY <1>2, <1>3, <1>4 DEF Next, vars, Add, CloseEarly, BeginAnchor, ReadCount, SendAnchor, Idle,
     ReadReceipt, RpcError, BeginReconcile, ReconcileCount, ReconcileOne, ReconcileError,
     BootReconciled, BootCount, BootRoot, BootError, Restart

(* What anchorOne is about to send extends a closed batch: the count it    *)
(* has read is not past the index.                                         *)
LEMMA SendSlotStep ==
  ASSUME Shape, HistoryShape, FromClosed, SlotsInv, [Next]_vars, job'.step = "send"
  PROVE  Follows(job.batch.index, job.batch.prevRoot)'
<1>0. (job = Idle \/ job \in [step : JobStep, batch : AnyBatch]) /\ Len(roots) \in Nat
  BY DEF Shape, ServiceShape, ChainShape
<1>1. CASE job' = job
  <2>1. PICK b : b = job.batch
    OBVIOUS
  <2>2. Follows(b.index, b.prevRoot) /\ b.index \in Nat
    BY <1>0, <1>1, <2>1 DEF SlotsInv, Idle, AnyBatch
  <2>3. Follows(b.index, b.prevRoot)'
    BY <2>2, FollowsStays
  <2> QED BY <1>1, <2>1, <2>3 DEF Follows
<1>2. CASE ReadCount
  <2>1. PICK b : b = job.batch
    OBVIOUS
  <2>2. /\ job # Idle /\ ~(AnchorCount > b.index) /\ job'.batch = b
        /\ b \in AllClosed /\ b.index \in Nat
    BY <1>0, <1>2, <2>1 DEF ReadCount, Settle, Idle, FromClosed, AnyBatch
  <2>3. Follows(b.index, b.prevRoot)
    BY <1>0, <2>2 DEF SlotsInv, MayFollow, AnchorCount
  <2>4. Follows(b.index, b.prevRoot)'
    BY <2>2, <2>3, FollowsStays
  <2> QED BY <2>2, <2>4 DEF Follows
<1>3. CASE BeginAnchor \/ SendAnchor \/ ReadReceipt \/ RpcError \/ Restart
  BY <1>0, <1>3 DEF BeginAnchor, SendAnchor, ReadReceipt, RpcError, Restart, Settle, Idle
<1>4. CASE Mine
  BY <1>0, <1>1, <1>4 DEF Mine, Idle
<1> QED
  BY <1>1, <1>2, <1>3, <1>4 DEF Next, vars, serviceVars, Add, CloseEarly, BeginReconcile,
     ReconcileCount, ReconcileOne, ReconcileError, BootReconciled, BootCount, BootRoot, BootError

(* Every root is at the index of a closed batch that names the one before. *)
LEMMA RootSlotsStep ==
  ASSUME Shape, HistoryShape, RootsDiffer, SlotsInv, [Next]_vars
  PROVE  \A k \in DOMAIN roots' : SlotAt(k)'
<1> SUFFICES ASSUME NEW k \in DOMAIN roots' PROVE SlotAt(k)'
  OBVIOUS
<1>0. /\ roots \in Seq(AnyRoot) /\ DOMAIN roots = 1 .. Len(roots) /\ Len(roots) \in Nat
      /\ DOMAIN roots' = 1 .. Len(roots') /\ Len(roots') \in Nat
      /\ \A i \in 1 .. Len(roots) : roots'[i] = roots[i]
  BY RootsOnlyGrow, ChainStep DEF Shape, ChainShape
<1>1. CASE k \in DOMAIN roots
  <2>1. PICK c \in AllClosed : c.root = roots[k] /\ c.index = k - 1 /\ c.prevRoot = RootBefore(k)
    BY <1>1 DEF SlotsInv
  <2>2. c \in AllClosed' /\ roots'[k] = roots[k]
    BY <1>0, <1>1, ClosedGrows
  <2>3. RootBefore(k)' = RootBefore(k)
    BY <1>0, <1>1 DEF RootBefore
  <2> QED BY <2>1, <2>2, <2>3 DEF SlotAt
<1>2. CASE k \notin DOMAIN roots
  <2>1. Mine
    BY <1>2 DEF Next, vars, Add, CloseEarly, BeginAnchor, ReadCount, SendAnchor, ReadReceipt,
       RpcError, BeginReconcile, ReconcileCount, ReconcileOne, ReconcileError, BootReconciled,
       BootCount, BootRoot, BootError, Restart
  <2>2. PICK tx : tx = Head(mempool)
    OBVIOUS
  <2>3. tx = mempool[1] /\ 1 \in DOMAIN mempool
    BY <2>1, <2>2 DEF Mine, Shape, ChainShape
  <2>4. Extends(roots, tx.prevRoot) /\ roots' = Append(roots, tx.root)
    BY <1>2, <2>1, <2>2 DEF Mine, ExecuteAnchor, Executed
  <2>5. PICK c \in AllClosed : c.root = tx.root /\ c.prevRoot = tx.prevRoot
                                 /\ Follows(c.index, c.prevRoot)
    BY <2>3 DEF SlotsInv
  <2>6. c.index = Len(roots) /\ c.prevRoot = Tip(roots)
    BY <2>4, <2>5, LandsInPlace
  <2>7. k = Len(roots) + 1 /\ roots'[k] = tx.root
    BY <1>0, <1>2, <2>4
  <2>8. RootBefore(k)' = Tip(roots)
    <3>1. CASE roots = <<>>
      <4>1. k = 1
        BY <1>0, <2>7, <3>1, EmptySeq
      <4> QED BY <3>1, <4>1 DEF RootBefore, Tip
    <3>2. CASE roots # <<>>
      <4>1. k # 1 /\ k - 1 = Len(roots) /\ Len(roots) \in 1 .. Len(roots)
        BY <1>0, <2>7, <3>2, EmptySeq
      <4> QED BY <1>0, <3>2, <4>1 DEF RootBefore, Tip
    <3> QED BY <3>1, <3>2
  <2>9. c \in AllClosed' /\ c.index = k - 1
    BY <1>0, <2>5, <2>6, <2>7, ClosedGrows
  <2> QED BY <2>5, <2>6, <2>7, <2>8, <2>9 DEF SlotAt
<1> QED BY <1>1, <1>2

LEMMA SlotsStep ==
  ASSUME Shape, HistoryShape, FromClosed, RootsDiffer, SlotsInv, [Next]_vars
  PROVE  SlotsInv'
<1>1. /\ MayFollow(nextIndex, prevRoot)'
      /\ \A c \in AllClosed' : MayFollow(c.index, c.prevRoot)'
      /\ \A i \in DOMAIN mempool' : Sendable(mempool[i].root, mempool[i].prevRoot)'
      /\ job'.step = "send" => Follows(job.batch.index, job.batch.prevRoot)'
      /\ \A k \in DOMAIN roots' : SlotAt(k)'
  BY NextSlotStep, ClosedSlotsStep, MempoolSlotsStep, SendSlotStep, RootSlotsStep
<1> QED BY <1>1 DEF SlotsInv, Sendable, SlotAt

LEMMA SlotsInit == Init => SlotsInv
BY DEF Init, AnchorInit, SlotsInv, MayFollow, Follows, AllClosed, Idle

-----------------------------------------------------------------------------
(* A batch given up for failed stays failed: another root has its index,   *)
(* or nothing that could commit its root is left.                          *)
LEMMA CopiesAtMostOne ==
  ASSUME NEW s \in Seq(Root), NEW r, \A i, j \in DOMAIN s : s[i] = s[j] => i = j
  PROVE  Copies(r, s) <= 1
<1>1. \A i, j \in DOMAIN s : s[i] \in {r} /\ s[j] \in {r} => i = j
  OBVIOUS
<1>2. CountIn(s, {r}) <= 1
  BY <1>1, CountAtMostOne
<1> QED BY <1>2, CopiesIs

LEMMA OneOfEach ==
  ASSUME HistoryShape, RootsDiffer, NEW r
  PROVE  Copies(r, ClosedRoots) <= 1
<1>1. ClosedRoots \in Seq(Root)
  BY ClosedRootsIs
<1>2. \A i, j \in DOMAIN ClosedRoots : ClosedRoots[i] = ClosedRoots[j] => i = j
  BY DEF RootsDiffer, ClosedRoots
<1> QED BY <1>1, <1>2, CopiesAtMostOne

LEMMA ClosedIsCounted ==
  ASSUME HistoryShape, NEW c \in AllClosed
  PROVE  Copies(c.root, ClosedRoots) # 0
<1>1. /\ ClosedRoots \in Seq(Root) /\ DOMAIN ClosedRoots = DOMAIN closed
      /\ \A i \in DOMAIN closed : ClosedRoots[i] = closed[i].batch.root
  BY ClosedRootsIs
<1>2. PICK i \in DOMAIN closed : closed[i].batch = c
  BY DEF AllClosed
<1>3. ClosedRoots[i] \in {c.root}
  BY <1>1, <1>2
<1>4. CountIn(ClosedRoots, {c.root}) # 0
  BY <1>1, <1>3, CountPositive
<1> QED BY <1>1, <1>4, CopiesIs

LEMMA GoneStays ==
  ASSUME Shape, HistoryShape, [Next]_vars, RootsDiffer',
         NEW index \in Nat, NEW r, Gone(index, r)
  PROVE  Gone(index, r)'
<1>1. CASE index < Len(roots) /\ roots[index + 1] # r
  BY <1>1, RootsOnlyGrow DEF Gone
<1>2. CASE (\E c \in AllClosed : c.root = r) /\ Live(r) = 0
  <2>1. PICK c \in AllClosed : c.root = r
    BY <1>2
  <2>2. c \in AllClosed' /\ HistoryShape'
    BY ClosedGrows, HistoryStep
  <2>3. Copies(r, ClosedRoots)' <= 1
    <3>1. ClosedRoots' \in Seq(Root)
      <4>1. ClosedRoots \in Seq(Root)
        BY ClosedRootsIs
      <4>2. CASE UNCHANGED closed
        BY <4>1, <4>2 DEF ClosedRoots
      <4>3. ASSUME NEW leaves, Closing(leaves) PROVE ClosedRoots' \in Seq(Root)
        <5>1. NewBatch(leaves).root \in Root
          BY <4>3, CloseIsClose
        <5>2. ClosedRoots' = Append(ClosedRoots, NewBatch(leaves).root)
          BY <4>3, ClosingCounts
        <5> QED BY <4>1, <5>1, <5>2
      <4> QED BY <4>2, <4>3, ClosedBy
    <3>2. \A i, j \in DOMAIN ClosedRoots' : ClosedRoots'[i] = ClosedRoots'[j] => i = j
      BY DEF RootsDiffer, ClosedRoots
    <3>3. Copies(r, ClosedRoots') <= 1
      BY <3>1, <3>2, CopiesAtMostOne
    <3> QED BY <3>3 DEF Copies
  <2>4. Copies(r, ClosedRoots) # 0
    BY <2>1, ClosedIsCounted
  <2>5. /\ Live(r)' + Copies(r, ClosedRoots) <= Live(r) + Copies(r, ClosedRoots)'
        /\ Live(r)' \in Nat /\ Copies(r, ClosedRoots) \in Nat /\ Copies(r, ClosedRoots)' \in Nat
    BY LiveStep
  <2>6. Live(r)' = 0
    BY <1>2, <2>3, <2>4, <2>5
  <2> QED BY <2>1, <2>2, <2>6 DEF Gone
<1> QED BY <1>1, <1>2 DEF Gone

LEMMA GoneIsNotThere ==
  ASSUME Shape, HistoryShape, NEW index \in Nat, NEW r, Gone(index, r)
  PROVE  ~HoldsAt(index, r)
<1>1. CASE index < Len(roots) /\ roots[index + 1] # r
  BY <1>1 DEF HoldsAt
<1>2. CASE Live(r) = 0
  <2>1. /\ QueueCopies(r) \in Nat /\ MempoolCopies(r) \in Nat /\ Copies(r, roots) \in Nat
        /\ InHand(r) \in Nat
    BY CountsAreNat
  <2>2. Copies(r, roots) = 0
    <3>1. QueueCopies(r) + InHand(r) + MempoolCopies(r) + Copies(r, roots) = 0
      BY <1>2 DEF Live
    <3>2. \A q, h, m, c \in Nat : q + h + m + c = 0 => c = 0
      OBVIOUS
    <3> QED BY <2>1, <3>1, <3>2
  <2>3. roots \in Seq(AnyRoot) /\ Copies(r, roots) = CountIn(roots, {r})
    BY CopiesIs DEF Shape, ChainShape
  <2>4. \A i \in DOMAIN roots : roots[i] \notin {r}
    BY <2>2, <2>3, CountPositive
  <2> QED BY <2>3, <2>4 DEF HoldsAt
<1> QED BY <1>1, <1>2 DEF Gone

(* The receipt tells the outcome of the batch at hand: its transaction was *)
(* the only one that could commit its root.                                *)
LEMMA ReceiptStep ==
  ASSUME Shape, HistoryShape, OnceInv, FromClosed, AwaitedIsNewest, RootsDiffer, SlotsInv,
         Mine, job' # job, NEW b, b = job.batch
  PROVE  /\ b.index \in Nat /\ job'.batch = b
         /\ job'.step = "success" => HoldsAt(b.index, b.root)'
         /\ job'.step = "reverted" => Gone(b.index, b.root)'
<1>0. /\ job \in [step : JobStep, batch : AnyBatch] /\ job # Idle
      /\ job.step = "receipt" /\ Len(mempool) = 1
  BY DEF Shape, ServiceShape, Mine, Idle
<1>1. PICK tx : tx = Head(mempool)
  OBVIOUS
<1>2. /\ tx = mempool[1] /\ 1 \in DOMAIN mempool /\ tx.root = b.root
  BY <1>0, <1>1 DEF Shape, ChainShape, AwaitedIsNewest, Mine
<1>3. b \in AllClosed /\ b \in AnyBatch /\ b.index \in Nat /\ b.root \in Root
  BY <1>0 DEF FromClosed, AnyBatch
<1>4. /\ job'.batch = b
      /\ job'.step = IF Extends(roots, tx.prevRoot) THEN "success" ELSE "reverted"
  BY <1>0, <1>1 DEF Mine
<1>5. CASE Extends(roots, tx.prevRoot)
  <2>1. PICK c \in AllClosed : c.root = tx.root /\ c.prevRoot = tx.prevRoot
                                 /\ Follows(c.index, c.prevRoot)
    BY <1>2 DEF SlotsInv
  <2>2. c = b
    BY <1>2, <1>3, <2>1, BatchOfRoot
  <2>3. b.index = Len(roots)
    BY <1>5, <2>1, <2>2, LandsInPlace
  <2>4. roots' = Append(roots, b.root) /\ roots \in Seq(AnyRoot) /\ b.root \in AnyRoot
    BY <1>1, <1>2, <1>3, <1>5 DEF Mine, ExecuteAnchor, Executed, Shape, ChainShape, AnyRoot
  <2>5. HoldsAt(b.index, b.root)'
    BY <2>3, <2>4 DEF HoldsAt
  <2> QED BY <1>3, <1>4, <1>5, <2>5
<1>6. CASE ~Extends(roots, tx.prevRoot)
  <2>1. /\ QueueCopies(b.root) \in Nat /\ MempoolCopies(b.root) \in Nat
        /\ Copies(b.root, roots) \in Nat /\ InHand(b.root) \in Nat
        /\ Copies(b.root, ClosedRoots) \in Nat
    BY CountsAreNat
  <2>2. Live(b.root) <= 1
    <3>1. Live(b.root) <= Copies(b.root, ClosedRoots)
      BY <1>3 DEF OnceInv
    <3>2. Copies(b.root, ClosedRoots) <= 1
      BY OneOfEach
    <3> QED BY <2>1, <3>1, <3>2 DEF Live
  <2>3. /\ MempoolCopies(b.root)' = MempoolCopies(b.root) - 1
        /\ Copies(b.root, roots)' = Copies(b.root, roots)
        /\ InHand(b.root)' = InHand(b.root)
    BY <1>1, <1>2, <1>6, <2>1, MineCounts
  <2>4. MempoolCopies(b.root)' \in Nat
    <3>1. mempool' \in Seq(Tx)
      BY ChainStep DEF ChainShape, Next
    <3>2. MempoolCopies(b.root)' = RootCount(mempool', b.root)
      BY DEF MempoolCopies, RootCount
    <3> QED BY <3>1, <3>2, RootCountIs
  <2>5. QueueCopies(b.root)' = QueueCopies(b.root)
    BY DEF Mine, QueueCopies
  <2>6. Live(b.root)' = 0
    BY <2>1, <2>2, <2>3, <2>4, <2>5 DEF Live
  <2>7. b \in AllClosed'
    BY <1>3 DEF AllClosed, Mine
  <2>8. Gone(b.index, b.root)'
    BY <2>6, <2>7 DEF Gone
  <2> QED BY <1>3, <1>4, <1>6, <2>8
<1> QED BY <1>5, <1>6

LEMMA ReceiptsStep ==
  ASSUME Shape, HistoryShape, OnceInv, FromClosed, AwaitedIsNewest, RootsDiffer, RootsDiffer',
         SlotsInv, RecordsInv, [Next]_vars
  PROVE  /\ job'.step = "success" => HoldsAt(job.batch.index, job.batch.root)'
         /\ job'.step = "reverted" => Gone(job.batch.index, job.batch.root)'
<1>0. job = Idle \/ job \in [step : JobStep, batch : AnyBatch]
  BY DEF Shape, ServiceShape
<1> DEFINE Told == /\ job'.step = "success" => HoldsAt(job.batch.index, job.batch.root)'
                   /\ job'.step = "reverted" => Gone(job.batch.index, job.batch.root)'
<1>a. PICK b : b = job.batch
  OBVIOUS
<1>1. CASE job' = job
  <2>1. CASE job = Idle
    BY <1>1, <2>1 DEF Idle
  <2>2. CASE job # Idle
    <3>1. b.index \in Nat /\ job'.batch = b
      BY <1>0, <1>1, <1>a, <2>2 DEF AnyBatch
    <3>2. job.step = "success" => HoldsAt(b.index, b.root)
      BY <1>a DEF RecordsInv
    <3>3. job.step = "reverted" => Gone(b.index, b.root)
      BY <1>a DEF RecordsInv
    <3>4. job'.step = "success" => HoldsAt(b.index, b.root)'
      BY <1>1, <3>1, <3>2, HoldsStays
    <3>5. job'.step = "reverted" => Gone(b.index, b.root)'
      BY <1>1, <3>1, <3>3, GoneStays
    <3> QED BY <3>1, <3>4, <3>5 DEF HoldsAt, Gone
  <2> QED BY <2>1, <2>2
<1>2. CASE Mine
  <2>1. CASE job' # job
    <3>1. /\ b.index \in Nat /\ job'.batch = b
          /\ job'.step = "success" => HoldsAt(b.index, b.root)'
          /\ job'.step = "reverted" => Gone(b.index, b.root)'
      BY <1>2, <1>a, <2>1, ReceiptStep
    <3> QED BY <3>1 DEF HoldsAt, Gone
  <2> QED BY <1>1, <2>1
<1>3. CASE ReadCount
  <2>1. job' = Idle \/ job'.step = "send"
    BY <1>0, <1>3 DEF ReadCount, Settle, Idle
  <2> QED BY <2>1 DEF Idle
<1>4. CASE BeginAnchor \/ SendAnchor \/ ReadReceipt \/ RpcError \/ Restart
  <2>1. job' = Idle \/ job'.step \in {"count", "receipt"}
    BY <1>0, <1>4 DEF BeginAnchor, SendAnchor, ReadReceipt, RpcError, Restart, Settle, Idle
  <2> QED BY <2>1 DEF Idle
<1>5. Told
  <2> HIDE DEF Told
  <2>1. job' = job => Told
    BY <1>1 DEF Told
  <2>2. Mine \/ ReadCount \/ BeginAnchor \/ SendAnchor \/ ReadReceipt \/ RpcError \/ Restart => Told
    BY <1>2, <1>3, <1>4 DEF Told
  <2> QED
    BY <2>1, <2>2 DEF Next, vars, serviceVars, Add, CloseEarly, BeginReconcile,
       ReconcileCount, ReconcileOne, ReconcileError, BootReconciled, BootCount, BootRoot, BootError
<1> QED BY <1>5

(* What reconcile() looks up, the chain is past.                           *)
LEMMA TodoStep ==
  ASSUME Shape, RecordsInv, [Next]_vars, reconciling'.step = "resolve"
  PROVE  \A r \in reconciling'.todo : r.index < Len(roots')
<1>0. /\ reconciling = Idle \/ reconciling \in [step : {"count", "resolve"}, todo : SUBSET Doubt]
      /\ Len(roots) \in Nat /\ Len(roots') \in Nat /\ Len(roots) <= Len(roots')
  BY RootsOnlyGrow DEF Shape, ServiceShape
<1>1. ASSUME reconciling.step = "resolve", reconciling'.todo \subseteq reconciling.todo
      PROVE  \A r \in reconciling'.todo : r.index < Len(roots')
  <2> SUFFICES ASSUME NEW r \in reconciling'.todo PROVE r.index < Len(roots')
    OBVIOUS
  <2>1. r \in reconciling.todo /\ r.index < Len(roots)
    BY <1>1 DEF RecordsInv
  <2>2. r.index \in Nat
    BY <1>0, <1>1, <2>1 DEF Idle, Doubt, Index
  <2> QED BY <1>0, <2>1, <2>2
<1>2. CASE ReconcileCount
  <2>1. /\ \A r \in reconciling'.todo : r \in reconciling.todo /\ r.index < Len(roots)
        /\ reconciling # Idle /\ UNCHANGED roots
    BY <1>2 DEF ReconcileCount, Due, AnchorCount, Idle
  <2> QED BY <2>1
<1>3. CASE ReconcileOne
  <2>1. reconciling.step = "resolve" /\ reconciling # Idle
    BY <1>3 DEF ReconcileOne, Idle
  <2>2. PICK r \in reconciling.todo : reconciling' = [reconciling EXCEPT !.todo = @ \ {r}]
    <3>1. PICK r \in reconciling.todo :
            reconciling' = IF reconciling.todo = {r} THEN Idle
                           ELSE [reconciling EXCEPT !.todo = @ \ {r}]
      BY <1>3 DEF ReconcileOne
    <3>2. reconciling' # Idle
      BY DEF Idle
    <3> QED BY <3>1, <3>2
  <2>3. reconciling'.todo \subseteq reconciling.todo
    BY <1>0, <2>1, <2>2
  <2> QED BY <1>1, <2>1, <2>3
<1>4. CASE BeginReconcile \/ ReconcileError \/ Restart
  BY <1>4 DEF BeginReconcile, ReconcileError, Restart, Reconciliation, Idle
<1>5. CASE UNCHANGED reconciling
  BY <1>1, <1>5
<1> QED
  BY <1>2, <1>3, <1>4, <1>5 DEF Next, vars, serviceVars, Add, CloseEarly, BeginAnchor,
     ReadCount, SendAnchor, Mine, ReadReceipt, RpcError, BootReconciled, BootCount, BootRoot,
     BootError

(* A step rewrites at most one record, and gives an outcome only on the    *)
(* evidence of the chain.                                                  *)
Grounds(x, status, r) ==
  /\ x \in Nat /\ status \in Status /\ r \in Root
  /\ anchors' = [anchors EXCEPT ![x] = [status |-> status, root |-> r]]
  /\ status = "ANCHORED" => HoldsAt(x, r)
  /\ status = "FAILED" => Gone(x, r)

LEMMA OutcomeIsGrounded ==
  ASSUME NEW x \in Nat, NEW r, x < Len(roots)
  PROVE  /\ Outcome(x, r) \in Status
         /\ Outcome(x, r) = "ANCHORED" => HoldsAt(x, r)
         /\ Outcome(x, r) = "FAILED" => Gone(x, r)
BY DEF Outcome, HoldsAt, Gone, Status

LEMMA OneGroundedRewrite ==
  ASSUME Shape, RecordsInv, [Next]_vars
  PROVE  UNCHANGED anchors \/ \E x, status, r : Grounds(x, status, r)
<1>b. job # Idle => job.batch.index \in Nat /\ job.batch.root \in Root
  BY DEF Shape, ServiceShape, AnyBatch
<1>1. CASE BeginAnchor
  <2>1. Head(queue) \in AnyBatch
    BY <1>1 DEF BeginAnchor, Shape, BatcherShape
  <2>2. Grounds(Head(queue).index, "PENDING", Head(queue).root)
    BY <1>1, <2>1 DEF BeginAnchor, Grounds, Status, AnyBatch
  <2> QED BY <2>2
<1>2. CASE ReadCount
  <2> DEFINE status == Outcome(job.batch.index, job.batch.root)
  <2>1. job # Idle /\ (UNCHANGED anchors \/ (Settle(status) /\ AnchorCount > job.batch.index))
    BY <1>2 DEF ReadCount, Idle
  <2>2. CASE Settle(status) /\ AnchorCount > job.batch.index
    <3>1. /\ status \in Status
          /\ status = "ANCHORED" => HoldsAt(job.batch.index, job.batch.root)
          /\ status = "FAILED" => Gone(job.batch.index, job.batch.root)
      BY <1>b, <2>1, <2>2, OutcomeIsGrounded DEF AnchorCount
    <3> HIDE DEF status
    <3>2. Grounds(job.batch.index, status, job.batch.root)
      BY <1>b, <2>1, <2>2, <3>1 DEF Settle, Grounds
    <3> QED BY <3>2
  <2> QED BY <2>1, <2>2
<1>3. CASE ReadReceipt
  <2> DEFINE status == IF job.step = "success" THEN "ANCHORED" ELSE "FAILED"
  <2>1. job # Idle /\ Settle(status) /\ job.step \in {"success", "reverted"}
    BY <1>3 DEF ReadReceipt, Idle
  <2>2. /\ status \in Status
        /\ status = "ANCHORED" => HoldsAt(job.batch.index, job.batch.root)
        /\ status = "FAILED" => Gone(job.batch.index, job.batch.root)
    BY <2>1 DEF RecordsInv, Status
  <2> HIDE DEF status
  <2>3. Grounds(job.batch.index, status, job.batch.root)
    BY <1>b, <2>1, <2>2 DEF Settle, Grounds
  <2> QED BY <2>3
<1>4. CASE RpcError
  <2>1. Grounds(job.batch.index, "PENDING", job.batch.root)
    BY <1>b, <1>4 DEF RpcError, Settle, Grounds, Status
  <2> QED BY <2>1
<1>5. CASE ReconcileOne
  <2>1. reconciling \in [step : {"count", "resolve"}, todo : SUBSET Doubt] /\ reconciling.step = "resolve"
    BY <1>5 DEF ReconcileOne, Shape, ServiceShape, Idle
  <2>2. PICK r \in reconciling.todo :
          anchors' = [anchors EXCEPT ![r.index] =
                        [status |-> Outcome(r.index, r.root), root |-> r.root]]
    BY <1>5 DEF ReconcileOne
  <2>3. r.index \in Nat /\ r.root \in Root /\ r.index < Len(roots)
    BY <2>1 DEF Doubt, Index, RecordsInv
  <2>4. Grounds(r.index, Outcome(r.index, r.root), r.root)
    BY <2>2, <2>3, OutcomeIsGrounded DEF Grounds
  <2> QED BY <2>4
<1> QED
  BY <1>1, <1>2, <1>3, <1>4, <1>5 DEF Next, vars, serviceVars, Add, CloseEarly,
     SendAnchor, Mine, BeginReconcile, ReconcileCount, ReconcileError, BootReconciled,
     BootCount, BootRoot, BootError, Restart

LEMMA AnchorsStep ==
  ASSUME Shape, HistoryShape, RootsDiffer', RecordsInv, [Next]_vars, NEW i \in Index
  PROVE  /\ anchors'[i].status = "ANCHORED" => HoldsAt(i, anchors[i].root)'
         /\ anchors'[i].status = "FAILED" => Gone(i, anchors[i].root)'
<1>0. i \in Nat /\ anchors \in [Index -> {NoRecord} \cup [status : Status, root : Root]]
  BY DEF Index, Shape, ServiceShape
<1>1. ASSUME NEW status, NEW r, anchors'[i].status = status, anchors'[i].root = r,
             status = "ANCHORED" => HoldsAt(i, r), status = "FAILED" => Gone(i, r)
      PROVE  /\ anchors'[i].status = "ANCHORED" => HoldsAt(i, anchors[i].root)'
             /\ anchors'[i].status = "FAILED" => Gone(i, anchors[i].root)'
  <2>1. (status = "ANCHORED" => HoldsAt(i, r)') /\ (status = "FAILED" => Gone(i, r)')
    BY <1>0, <1>1, HoldsStays, GoneStays
  <2> QED BY <1>1, <2>1 DEF HoldsAt, Gone
<1>2. CASE anchors'[i] = anchors[i]
  <2>1. PICK status, r : status = anchors[i].status /\ r = anchors[i].root
    OBVIOUS
  <2>2. (status = "ANCHORED" => HoldsAt(i, r)) /\ (status = "FAILED" => Gone(i, r))
    BY <2>1 DEF RecordsInv
  <2> QED BY <1>1, <1>2, <2>1, <2>2
<1>3. ASSUME NEW x, NEW status, NEW r, Grounds(x, status, r), i = x
      PROVE  /\ anchors'[i].status = "ANCHORED" => HoldsAt(i, anchors[i].root)'
             /\ anchors'[i].status = "FAILED" => Gone(i, anchors[i].root)'
  <2>1. anchors'[i].status = status /\ anchors'[i].root = r
    BY <1>0, <1>3 DEF Grounds
  <2>2. (status = "ANCHORED" => HoldsAt(i, r)) /\ (status = "FAILED" => Gone(i, r))
    BY <1>3 DEF Grounds
  <2> QED BY <1>1, <2>1, <2>2
<1>4. ASSUME NEW x, NEW status, NEW r, Grounds(x, status, r), i # x
      PROVE  anchors'[i] = anchors[i]
  BY <1>0, <1>4 DEF Grounds
<1> QED BY <1>2, <1>3, <1>4, OneGroundedRewrite

LEMMA RecordsStep ==
  ASSUME Shape, HistoryShape, OnceInv, FromClosed, AwaitedIsNewest, RootsDiffer, RootsDiffer',
         SlotsInv, RecordsInv, [Next]_vars
  PROVE  RecordsInv'
<1>1. \A i \in Index :
        /\ anchors'[i].status = "ANCHORED" => HoldsAt(i, anchors[i].root)'
        /\ anchors'[i].status = "FAILED" => Gone(i, anchors[i].root)'
  BY AnchorsStep
<1> QED BY <1>1, ReceiptsStep, TodoStep DEF RecordsInv, Index

LEMMA RecordsInit == Init => RecordsInv
BY DEF Init, RecordsInv, Idle, NoRecord

-----------------------------------------------------------------------------
FullInv ==
  /\ AnchorInv /\ HistoryShape /\ OnceInv /\ FromClosed /\ ProcessInv
  /\ RootsDiffer => SlotsInv /\ RecordsInv

LEMMA FullInit == Init => FullInv
<1>1. Init => FromClosed
  BY DEF Init, FromClosed
<1> QED
  BY <1>1, AnchorInvInit, HistoryInit, OnceInit, ProcessInit, SlotsInit, RecordsInit DEF FullInv

LEMMA FullStep == FullInv /\ [Next]_vars => FullInv'
<1> SUFFICES ASSUME FullInv, [Next]_vars PROVE FullInv'
  OBVIOUS
<1>0. AnchorInv /\ Shape /\ AwaitedIsNewest /\ HistoryShape /\ OnceInv /\ FromClosed /\ ProcessInv
  BY DEF FullInv, AnchorInv
<1>1. AnchorInv' /\ HistoryShape' /\ OnceInv' /\ FromClosed' /\ ProcessInv'
  BY <1>0, AnchorInvStep, HistoryStep, OnceStep, FromClosedStep, ProcessStep
<1>2. ASSUME RootsDiffer' PROVE SlotsInv' /\ RecordsInv'
  <2>1. RootsDiffer /\ SlotsInv /\ RecordsInv
    BY <1>0, <1>2, DifferBefore DEF FullInv
  <2> QED BY <1>0, <1>2, <2>1, SlotsStep, RecordsStep
<1> QED BY <1>1, <1>2 DEF FullInv

LEMMA FullAlways == Spec => []FullInv
BY FullInit, FullStep, PTL DEF Spec

(* Unless two batches have the same root, what is called ANCHORED is at    *)
(* the index by which its proofs look it up.                               *)
THEOREM AnchoredIsInPlaceAlways == Spec => []AnchoredIsInPlace
<1>1. FullInv => AnchoredIsInPlace
  BY DEF FullInv, AnchoredIsInPlace, RecordsInv
<1> QED BY <1>1, FullAlways, PTL

(* And what is called FAILED is not: giving up waiting, a revert and a     *)
(* taken index are told apart whatever calls fail in between.              *)
THEOREM FailedIsNotThereAlways == Spec => []FailedIsNotThere
<1>1. FullInv => FailedIsNotThere
  BY GoneIsNotThere DEF FullInv, AnchorInv, FailedIsNotThere, RecordsInv, Index
<1> QED BY <1>1, FullAlways, PTL

-----------------------------------------------------------------------------
(* A batch names the root of the one before it of its process, so a batch  *)
(* on chain has that one before it.                                        *)
LEMMA LeastNatural ==
  ASSUME NEW T \in SUBSET Nat, T # {}
  PROVE  \E x \in T : \A y \in T : x <= y
<1> DEFINE R == OpToRel(<, Nat)
<1>1. PICK x \in T : \A y \in T : ~ (<<y, x>> \in R)
  <2>1. IsWellFoundedOn(R, Nat)
    BY NatLessThanWellFounded
  <2> HIDE DEF R
  <2> QED BY <2>1, WFMin
<1>2. ASSUME NEW y \in T PROVE x <= y
  <2>1. ~ (y < x)
    BY <1>1 DEF OpToRel
  <2> QED BY <2>1
<1> QED BY <1>2

LEMMA BeforeIsCommitted ==
  ASSUME Shape, HistoryShape, ProcessInv, RootsDiffer, SlotsInv,
         NEW i \in DOMAIN closed, i + 1 \in DOMAIN closed,
         closed[i].process = closed[i + 1].process, Committed(closed[i + 1].batch.root)
  PROVE  Committed(closed[i].batch.root)
<1>1. closed[i + 1].batch.prevRoot = closed[i].batch.root
  BY DEF ProcessInv
<1>2. PICK k \in DOMAIN roots : roots[k] = closed[i + 1].batch.root
  BY DEF Committed
<1>3. PICK c \in AllClosed : c.root = roots[k] /\ c.prevRoot = RootBefore(k)
  BY DEF SlotsInv
<1>4. closed[i + 1].batch \in AllClosed /\ closed[i].batch \in AllClosed
  BY DEF AllClosed
<1>5. c = closed[i + 1].batch /\ closed[i].batch.root # ZeroRoot
  BY <1>2, <1>3, <1>4, BatchOfRoot, AllClosedAre
<1>6. k # 1 /\ roots[k - 1] = closed[i].batch.root
  BY <1>1, <1>3, <1>5 DEF RootBefore
<1>7. k - 1 \in DOMAIN roots
  BY <1>6 DEF Shape, ChainShape
<1> QED BY <1>6, <1>7 DEF Committed

LEMMA NoneSkipped ==
  ASSUME Shape, HistoryShape, ProcessInv, RootsDiffer, SlotsInv
  PROVE  NoBatchSkipped
<1> SUFFICES ASSUME NEW i \in DOMAIN closed, NEW j \in DOMAIN closed, i < j,
                    closed[i].process = closed[j].process, Committed(closed[j].batch.root),
                    ~Committed(closed[i].batch.root)
             PROVE  FALSE
  BY DEF NoBatchSkipped
<1> DEFINE T == {d \in Nat : d <= j - i /\ ~Committed(closed[j - d].batch.root)}
<1>1. DOMAIN closed = 1 .. Len(closed) /\ Len(closed) \in Nat
  BY DEF HistoryShape
<1>2. j - i \in T
  <2>1. j - i \in Nat /\ j - (j - i) = i
    BY <1>1
  <2> QED BY <2>1
<1>3. PICK d \in T : \A e \in T : d <= e
  <2> HIDE DEF T
  <2>1. T \in SUBSET Nat
    BY DEF T
  <2> QED BY <1>2, <2>1, LeastNatural
<1>4. d # 0
  <2>1. j - 0 = j
    BY <1>1
  <2> QED BY <1>3, <2>1
<1>5. /\ d - 1 \in Nat /\ d - 1 <= j - i /\ j - (d - 1) = (j - d) + 1
      /\ j - d \in DOMAIN closed /\ (j - d) + 1 \in DOMAIN closed
      /\ i <= j - d /\ (j - d) + 1 <= j
  BY <1>1, <1>3, <1>4
<1>6. d - 1 \notin T
  BY <1>3, <1>5
<1>7. Committed(closed[(j - d) + 1].batch.root)
  BY <1>5, <1>6
<1>8. closed[j - d].process = closed[(j - d) + 1].process
  <2>1. ASSUME NEW x \in DOMAIN closed, NEW y \in DOMAIN closed, x <= y
        PROVE  /\ closed[x].process \in Nat /\ closed[y].process \in Nat
               /\ closed[x].process <= closed[y].process
    <3>1. closed[x] \in ClosedEntry /\ closed[y] \in ClosedEntry
      BY DEF HistoryShape
    <3>2. closed[x].process \in Nat /\ closed[y].process \in Nat
      BY <3>1 DEF ClosedEntry
    <3>3. x = y \/ x < y
      BY <1>1, <2>1
    <3> QED BY <3>2, <3>3 DEF ProcessInv
  <2>2. /\ closed[i].process <= closed[j - d].process
        /\ closed[j - d].process <= closed[(j - d) + 1].process
        /\ closed[(j - d) + 1].process <= closed[j].process
    BY <1>1, <1>5, <2>1
  <2>3. /\ closed[i].process \in Nat /\ closed[j - d].process \in Nat
        /\ closed[(j - d) + 1].process \in Nat
    BY <1>1, <1>5, <2>1
  <2> QED BY <2>2, <2>3
<1>9. Committed(closed[j - d].batch.root)
  <2> HIDE DEF T
  <2> QED BY <1>5, <1>7, <1>8, BeforeIsCommitted
<1> QED BY <1>3, <1>9

(* A dropped batch shows: unless two batches have the same root, a batch   *)
(* is on chain only if every earlier batch of its process is.              *)
THEOREM NoBatchSkippedAlways == Spec => []NoBatchSkipped
<1>1. FullInv => NoBatchSkipped
  BY NoneSkipped DEF FullInv, AnchorInv, NoBatchSkipped
<1> QED BY <1>1, FullAlways, PTL
=============================================================================
