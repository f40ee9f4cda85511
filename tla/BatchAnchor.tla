----------------------------- MODULE BatchAnchor -----------------------------
(***************************************************************************)
(* contracts/contracts/BatchAnchor.sol: the Merkle roots committed on      *)
(* chain, in order.  The caller's role and leafCount # 0 are left out: the *)
(* gateway's signer has the role and the batcher closes no empty batch.    *)
(***************************************************************************)
EXTENDS Naturals, Sequences

CONSTANT ZeroRoot         \* bytes32(0)

VARIABLE roots            \* _roots; index i of the contract is roots[i + 1]

AnchorInit == roots = <<>>

AnchorCount == Len(roots)

Tip(rs) == IF rs = <<>> THEN ZeroRoot ELSE rs[Len(rs)]

LatestRoot == Tip(roots)

HoldsAt(index, root) == index < Len(roots) /\ roots[index + 1] = root

ExtendsAny(rs, prevRoot) == TRUE             \* variant: PrevRootMismatch dropped

Extends(rs, prevRoot) == prevRoot = Tip(rs)

(* A transaction that calls anchor() commits its root or reverts.          *)
Executed(rs, tx) == IF Extends(rs, tx.prevRoot) THEN Append(rs, tx.root) ELSE rs

ExecuteAnchor(tx) == roots' = Executed(roots, tx)
=============================================================================
