----------------------------- MODULE MerkleTree ------------------------------
(***************************************************************************)
(* packages/core/src/merkle.ts: the tree over a batch's record digests,    *)
(* its inclusion proofs and their verification, which is the same in the   *)
(* gateway, the browser and BatchAnchor.verifyInclusion.                   *)
(*                                                                         *)
(* Digests are opaque values.  The hash of a pair is the set of the two,   *)
(* marked as a pair: like keccak over the sorted pair it forgets their     *)
(* order and, taken as free of collisions, nothing else.                   *)
(***************************************************************************)
EXTENDS Naturals, Sequences

HashPair(a, b) == <<"pair", {a, b}>>

(* An odd node is promoted unchanged.                                      *)
NextLayer(layer) ==
  [i \in 1 .. (Len(layer) + 1) \div 2 |->
     IF 2 * i <= Len(layer) THEN HashPair(layer[2 * i - 1], layer[2 * i]) ELSE layer[2 * i - 1]]

(* layers[0] is the leaves; from the root's layer on nothing changes.      *)
BuildTree(leaves) ==
  LET layers[level \in 0 .. Len(leaves)] ==
        IF level = 0 THEN leaves ELSE NextLayer(layers[level - 1])
  IN layers

TreeRoot(leaves) == BuildTree(leaves)[Len(leaves)][1]

SiblingPromoted(i) == i + 1                   \* variant: always the right one

Sibling(i) == IF i % 2 = 0 THEN i + 1 ELSE i - 1

SiblingIn(layer, at) ==
  IF Sibling(at) < Len(layer) THEN <<layer[Sibling(at) + 1]>> ELSE <<>>

(* The loop of getProof: where the leaf's node is on each level, and the   *)
(* siblings passed; a promoted node has none.  Positions count from 0.     *)
Ascent(leaves, index) ==
  LET walk[level \in 0 .. Len(leaves)] ==
        IF level = 0 THEN [at |-> index, path |-> <<>>]
        ELSE [at   |-> walk[level - 1].at \div 2,
              path |-> walk[level - 1].path
                         \o SiblingIn(BuildTree(leaves)[level - 1], walk[level - 1].at)]
  IN walk

GetProof(leaves, index) == Ascent(leaves, index)[Len(leaves)].path

(* The nodes on the way up from the leaf, one for each step of the proof.  *)
Climb(leaf, proof) ==
  LET node[n \in 0 .. Len(proof)] ==
        IF n = 0 THEN leaf ELSE HashPair(node[n - 1], proof[n])
  IN node

ProcessProof(leaf, proof) == Climb(leaf, proof)[Len(proof)]

VerifyProof(leaf, proof, root) == ProcessProof(leaf, proof) = root
=============================================================================
