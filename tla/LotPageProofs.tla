---------------------------- MODULE LotPageProofs ----------------------------
(***************************************************************************)
(* What the consumer's page calls verified is on chain, and what is on     *)
(* chain it calls verified, for batches of every size, any number of       *)
(* records, restarts and made-up proofs; and what is published of a lot is *)
(* its state.                                                              *)
(*                                                                         *)
(* The first part is about merkle.ts alone: climbing the proof of a leaf   *)
(* ends at the root (ProofLeadsToRoot), and a leaf that climbs to the root *)
(* by any path is one of the tree's (OnlyLeavesProve).  Both are           *)
(* inductions over the levels of the tree.  An induction here is an appeal *)
(* to InductSet: the set of numbers for which a statement holds has 0 and  *)
(* is closed under successor.                                              *)
(*                                                                         *)
(* The second part builds on AnchoringProofs: every step here is one of    *)
(* Anchoring's (StepIsAnchorings), so FullInv holds.  BooksInv adds what   *)
(* ties batches to records: the proofs map points at closed batches, their *)
(* roots are those of their leaves, the state file speaks of closed        *)
(* batches, and there are never more roots than batches.                   *)
(***************************************************************************)
EXTENDS LotPage, AnchoringProofs

LEMMA InductSet ==
  ASSUME NEW T \in SUBSET Nat, 0 \in T, \A n \in T : n + 1 \in T
  PROVE  T = Nat
<1> SUFFICES ASSUME Nat \ T # {} PROVE FALSE
  OBVIOUS
<1>1. PICK x \in Nat \ T : \A y \in Nat \ T : x <= y
  BY LeastNatural
<1>2. x # 0 /\ x - 1 \in Nat
  BY <1>1
<1>3. x - 1 \in T
  BY <1>1, <1>2
<1> QED BY <1>1, <1>2, <1>3

-----------------------------------------------------------------------------
(* The recursive functions of merkle.ts are what their equations say.      *)
LEMMA ClimbIs ==
  ASSUME NEW leaf, NEW proof, Len(proof) \in Nat
  PROVE  Climb(leaf, proof) =
           [n \in 0 .. Len(proof) |->
              IF n = 0 THEN leaf ELSE HashPair(Climb(leaf, proof)[n - 1], proof[n])]
<1> DEFINE Is(g, m) ==
             g = [n \in 0 .. m |-> IF n = 0 THEN leaf ELSE HashPair(g[n - 1], proof[n])]
           T == {m \in Nat : \E g : Is(g, m)}
<1>1. 0 \in T
  <2> DEFINE g == [n \in 0 .. 0 |-> leaf]
  <2>1. Is(g, 0)
    OBVIOUS
  <2> QED BY <2>1
<1>2. ASSUME NEW m \in T PROVE m + 1 \in T
  <2>1. PICK g : Is(g, m)
    OBVIOUS
  <2> DEFINE h == [n \in 0 .. m + 1 |-> IF n = m + 1 THEN HashPair(g[m], proof[m + 1]) ELSE g[n]]
  <2>2. ASSUME NEW n \in 0 .. m + 1
        PROVE  h[n] = IF n = 0 THEN leaf ELSE HashPair(h[n - 1], proof[n])
    <3>1. CASE n = m + 1
      BY <3>1
    <3>2. CASE n # m + 1
      <4>1. n \in 0 .. m /\ g[n] = IF n = 0 THEN leaf ELSE HashPair(g[n - 1], proof[n])
        BY <2>1, <3>2
      <4> QED BY <3>2, <4>1
    <3> QED BY <3>1, <3>2
  <2>3. Is(h, m + 1)
    BY <2>2
  <2> HIDE DEF h, Is
  <2> QED BY <2>3
<1>3. \E g : Is(g, Len(proof))
  <2> HIDE DEF T
  <2>1. T = Nat
    BY <1>1, <1>2, InductSet DEF T
  <2> QED BY <2>1 DEF T
<1>4. Climb(leaf, proof) = CHOOSE g : Is(g, Len(proof))
  BY DEF Climb
<1> HIDE DEF Is
<1>5. Is(Climb(leaf, proof), Len(proof))
  BY <1>3, <1>4
<1> QED BY <1>5 DEF Is

LEMMA TreeIs ==
  ASSUME NEW leaves, Len(leaves) \in Nat
  PROVE  BuildTree(leaves) =
           [level \in 0 .. Len(leaves) |->
              IF level = 0 THEN leaves ELSE NextLayer(BuildTree(leaves)[level - 1])]
<1> DEFINE Is(g, m) ==
             g = [n \in 0 .. m |-> IF n = 0 THEN leaves ELSE NextLayer(g[n - 1])]
           T == {m \in Nat : \E g : Is(g, m)}
<1>1. 0 \in T
  <2> DEFINE g == [n \in 0 .. 0 |-> leaves]
  <2>1. Is(g, 0)
    OBVIOUS
  <2> QED BY <2>1
<1>2. ASSUME NEW m \in T PROVE m + 1 \in T
  <2>1. PICK g : Is(g, m)
    OBVIOUS
  <2> DEFINE h == [n \in 0 .. m + 1 |-> IF n = m + 1 THEN NextLayer(g[m]) ELSE g[n]]
  <2>2. ASSUME NEW n \in 0 .. m + 1
        PROVE  h[n] = IF n = 0 THEN leaves ELSE NextLayer(h[n - 1])
    <3>1. CASE n = m + 1
      BY <3>1
    <3>2. CASE n # m + 1
      <4>1. n \in 0 .. m /\ g[n] = IF n = 0 THEN leaves ELSE NextLayer(g[n - 1])
        BY <2>1, <3>2
      <4> QED BY <3>2, <4>1
    <3> QED BY <3>1, <3>2
  <2>3. Is(h, m + 1)
    BY <2>2
  <2> HIDE DEF h, Is
  <2> QED BY <2>3
<1>3. \E g : Is(g, Len(leaves))
  <2> HIDE DEF T
  <2>1. T = Nat
    BY <1>1, <1>2, InductSet DEF T
  <2> QED BY <2>1 DEF T
<1>4. BuildTree(leaves) = CHOOSE g : Is(g, Len(leaves))
  BY DEF BuildTree
<1> HIDE DEF Is
<1>5. Is(BuildTree(leaves), Len(leaves))
  BY <1>3, <1>4
<1> QED BY <1>5 DEF Is

(* One round of the loop of getProof.                                      *)
Round(tree, n, from) ==
  [at |-> from.at \div 2, path |-> from.path \o SiblingIn(tree[n - 1], from.at)]

LEMMA AscentIs ==
  ASSUME NEW leaves, NEW index, Len(leaves) \in Nat
  PROVE  Ascent(leaves, index) =
           [n \in 0 .. Len(leaves) |->
              IF n = 0 THEN [at |-> index, path |-> <<>>]
              ELSE Round(BuildTree(leaves), n, Ascent(leaves, index)[n - 1])]
<1> DEFINE start == [at |-> index, path |-> <<>>]
           tree == BuildTree(leaves)
           Is(g, m) ==
             g = [n \in 0 .. m |-> IF n = 0 THEN start ELSE Round(tree, n, g[n - 1])]
           T == {m \in Nat : \E g : Is(g, m)}
<1> HIDE DEF start, tree
<1>1. 0 \in T
  <2> DEFINE g == [n \in 0 .. 0 |-> start]
  <2>1. Is(g, 0)
    OBVIOUS
  <2> QED BY <2>1
<1>2. ASSUME NEW m \in T PROVE m + 1 \in T
  <2>1. PICK g : Is(g, m)
    OBVIOUS
  <2> DEFINE h == [n \in 0 .. m + 1 |-> IF n = m + 1 THEN Round(tree, n, g[m]) ELSE g[n]]
  <2>2. ASSUME NEW n \in 0 .. m + 1
        PROVE  h[n] = IF n = 0 THEN start ELSE Round(tree, n, h[n - 1])
    <3>1. CASE n = m + 1
      BY <3>1
    <3>2. CASE n # m + 1
      <4>1. n \in 0 .. m /\ g[n] = IF n = 0 THEN start ELSE Round(tree, n, g[n - 1])
        BY <2>1, <3>2
      <4> QED BY <3>2, <4>1
    <3> QED BY <3>1, <3>2
  <2>3. Is(h, m + 1)
    BY <2>2
  <2> HIDE DEF h, Is
  <2> QED BY <2>3
<1>3. \E g : Is(g, Len(leaves))
  <2> HIDE DEF T
  <2>1. T = Nat
    BY <1>1, <1>2, InductSet DEF T
  <2> QED BY <2>1 DEF T
<1>4. Ascent(leaves, index) = CHOOSE g : Is(g, Len(leaves))
  BY DEF Ascent, Round, start, tree
<1> HIDE DEF Is
<1>5. Is(Ascent(leaves, index), Len(leaves))
  BY <1>3, <1>4
<1> QED BY <1>5 DEF Is, start, tree

-----------------------------------------------------------------------------
(* Climbing.                                                               *)
LEMMA ClimbStep ==
  ASSUME NEW leaf, NEW proof, Len(proof) \in Nat
  PROVE  /\ Climb(leaf, proof)[0] = leaf
         /\ \A n \in 1 .. Len(proof) :
              Climb(leaf, proof)[n] = HashPair(Climb(leaf, proof)[n - 1], proof[n])
<1> DEFINE c == Climb(leaf, proof)
<1>1. c = [n \in 0 .. Len(proof) |-> IF n = 0 THEN leaf ELSE HashPair(c[n - 1], proof[n])]
  BY ClimbIs
<1> HIDE DEF c
<1>2. c[0] = leaf /\ \A n \in 1 .. Len(proof) : c[n] = HashPair(c[n - 1], proof[n])
  BY <1>1
<1> QED BY <1>2 DEF c

LEMMA ProcessEmpty ==
  ASSUME NEW leaf
  PROVE  ProcessProof(leaf, <<>>) = leaf
<1>1. Len(<<>>) = 0
  OBVIOUS
<1> QED BY <1>1, ClimbStep DEF ProcessProof

LEMMA ProcessNext ==
  ASSUME NEW S, NEW proof \in Seq(S), NEW s \in S, NEW leaf
  PROVE  ProcessProof(leaf, proof \o <<s>>) = HashPair(ProcessProof(leaf, proof), s)
<1> DEFINE longer == proof \o <<s>>
           N == Len(proof)
           c == Climb(leaf, proof)
           d == Climb(leaf, longer)
           T == {n \in Nat : n <= N => d[n] = c[n]}
<1>1. /\ N \in Nat /\ Len(longer) = N + 1 /\ longer[N + 1] = s
      /\ \A i \in 1 .. N : longer[i] = proof[i]
  OBVIOUS
<1>2. /\ c[0] = leaf /\ \A n \in 1 .. N : c[n] = HashPair(c[n - 1], proof[n])
      /\ d[0] = leaf /\ \A n \in 1 .. N + 1 : d[n] = HashPair(d[n - 1], longer[n])
  <2> HIDE DEF longer
  <2>1. c[0] = leaf /\ \A n \in 1 .. N : c[n] = HashPair(c[n - 1], proof[n])
    BY <1>1, ClimbStep
  <2>2. d[0] = leaf /\ \A n \in 1 .. Len(longer) : d[n] = HashPair(d[n - 1], longer[n])
    BY <1>1, ClimbStep
  <2> QED BY <1>1, <2>1, <2>2
<1> HIDE DEF longer, N, c, d
<1>3. 0 \in T
  BY <1>2
<1>4. ASSUME NEW n \in T PROVE n + 1 \in T
  <2> SUFFICES ASSUME n + 1 <= N PROVE d[n + 1] = c[n + 1]
    BY <1>1
  <2>1. d[n] = c[n] /\ n + 1 \in 1 .. N /\ n + 1 \in 1 .. N + 1 /\ (n + 1) - 1 = n
    BY <1>1
  <2>2. d[n + 1] = HashPair(d[n], longer[n + 1]) /\ c[n + 1] = HashPair(c[n], proof[n + 1])
    BY <1>2, <2>1
  <2> QED BY <1>1, <2>1, <2>2
<1>5. d[N] = c[N]
  <2> HIDE DEF T
  <2>1. T = Nat
    BY <1>3, <1>4, InductSet DEF T
  <2> QED BY <1>1, <2>1 DEF T
<1>6. d[N + 1] = HashPair(c[N], s)
  <2>1. N + 1 \in 1 .. N + 1 /\ (N + 1) - 1 = N
    BY <1>1
  <2> QED BY <1>1, <1>2, <1>5, <2>1
<1> QED BY <1>1, <1>6 DEF ProcessProof, longer, N, c, d

-----------------------------------------------------------------------------
(* The levels of the tree.                                                 *)
LEMMA NextLayerIs ==
  ASSUME NEW S, NEW layer \in Seq(S)
  PROVE  /\ NextLayer(layer) \in Seq(ToSet(NextLayer(layer)))
         /\ Len(NextLayer(layer)) = (Len(layer) + 1) \div 2
         /\ \A i \in 1 .. (Len(layer) + 1) \div 2 :
              NextLayer(layer)[i] = IF 2 * i <= Len(layer)
                                    THEN HashPair(layer[2 * i - 1], layer[2 * i])
                                    ELSE layer[2 * i - 1]
<1> DEFINE M == (Len(layer) + 1) \div 2
           up == NextLayer(layer)
<1>1. M \in Nat
  OBVIOUS
<1> HIDE DEF M
<1>2. /\ up = [i \in 1 .. M |-> up[i]]
      /\ \A i \in 1 .. M : up[i] = IF 2 * i <= Len(layer)
                                   THEN HashPair(layer[2 * i - 1], layer[2 * i])
                                   ELSE layer[2 * i - 1]
  BY DEF NextLayer, M
<1> HIDE DEF up
<1>3. DOMAIN up = 1 .. M
  BY <1>2
<1>4. up \in [1 .. M -> ToSet(up)]
  BY <1>2, <1>3 DEF ToSet
<1>5. up \in Seq(ToSet(up)) /\ Len(up) = M
  BY <1>1, <1>4
<1> QED BY <1>2, <1>5 DEF M, up

LEMMA TreeStep ==
  ASSUME NEW S, NEW leaves \in Seq(S)
  PROVE  /\ BuildTree(leaves)[0] = leaves
         /\ \A n \in 1 .. Len(leaves) : BuildTree(leaves)[n] = NextLayer(BuildTree(leaves)[n - 1])
<1> DEFINE t == BuildTree(leaves)
<1>1. t = [n \in 0 .. Len(leaves) |-> IF n = 0 THEN leaves ELSE NextLayer(t[n - 1])]
  BY TreeIs
<1> HIDE DEF t
<1>2. t[0] = leaves /\ \A n \in 1 .. Len(leaves) : t[n] = NextLayer(t[n - 1])
  BY <1>1
<1> QED BY <1>2 DEF t

(* Every level is a sequence of nodes, and they shrink until one is left.  *)
Level(leaves, n) ==
  LET layer == BuildTree(leaves)[n]
  IN /\ layer \in Seq(ToSet(layer))
     /\ Len(layer) >= 1
     /\ Len(layer) = 1 \/ Len(layer) <= Len(leaves) - n

LEMMA EveryLevel ==
  ASSUME NEW S, NEW leaves \in Seq(S), Len(leaves) >= 1
  PROVE  \A n \in 0 .. Len(leaves) : Level(leaves, n)
<1> DEFINE N == Len(leaves)
           T == {n \in Nat : n <= N => Level(leaves, n)}
<1>1. N \in Nat /\ N >= 1
  OBVIOUS
<1>2. 0 \in T
  <2>1. leaves \in Seq(ToSet(leaves))
    BY DEF ToSet
  <2>2. BuildTree(leaves)[0] = leaves
    BY TreeStep
  <2> QED BY <1>1, <2>1, <2>2 DEF Level
<1>3. ASSUME NEW n \in T PROVE n + 1 \in T
  <2> SUFFICES ASSUME n + 1 <= N PROVE Level(leaves, n + 1)
    OBVIOUS
  <2>1. PICK layer : layer = BuildTree(leaves)[n]
    OBVIOUS
  <2>2. /\ layer \in Seq(ToSet(layer)) /\ Len(layer) >= 1
        /\ Len(layer) = 1 \/ Len(layer) <= N - n
    BY <1>1, <2>1 DEF Level
  <2>3. BuildTree(leaves)[n + 1] = NextLayer(layer)
    <3>1. n + 1 \in 1 .. Len(leaves) /\ (n + 1) - 1 = n
      BY <1>1
    <3> QED BY <2>1, <3>1, TreeStep
  <2>4. PICK up : up = NextLayer(layer)
    OBVIOUS
  <2>5. up \in Seq(ToSet(up)) /\ Len(up) = (Len(layer) + 1) \div 2
    BY <2>2, <2>4, NextLayerIs
  <2>6. Len(up) >= 1 /\ (Len(up) = 1 \/ Len(up) <= N - (n + 1))
    <3> DEFINE m == Len(layer)
               k == Len(up)
    <3>1. m \in Nat /\ m >= 1 /\ (m = 1 \/ m <= N - n) /\ k = (m + 1) \div 2
      BY <2>2, <2>5
    <3> HIDE DEF m, k
    <3>2. k >= 1 /\ (k = 1 \/ k <= N - (n + 1))
      BY <1>1, <3>1
    <3> QED BY <3>2 DEF k
  <2> QED BY <2>3, <2>4, <2>5, <2>6 DEF Level
<1>4. T = Nat
  <2> HIDE DEF T
  <2> QED BY <1>2, <1>3, InductSet DEF T
<1> QED BY <1>4

LEMMA TopIsAlone ==
  ASSUME NEW S, NEW leaves \in Seq(S), Len(leaves) >= 1
  PROVE  Len(BuildTree(leaves)[Len(leaves)]) = 1
<1>1. Level(leaves, Len(leaves))
  BY EveryLevel
<1> QED BY <1>1 DEF Level

-----------------------------------------------------------------------------
(* The proof of a leaf leads to the root.  On every level the siblings     *)
(* passed so far take the leaf to its node there.                          *)
LEMMA AscentStep ==
  ASSUME NEW S, NEW leaves \in Seq(S), NEW index
  PROVE  /\ Ascent(leaves, index)[0] = [at |-> index, path |-> <<>>]
         /\ \A n \in 1 .. Len(leaves) :
              Ascent(leaves, index)[n] = Round(BuildTree(leaves), n, Ascent(leaves, index)[n - 1])
<1> DEFINE w == Ascent(leaves, index)
           tree == BuildTree(leaves)
<1> HIDE DEF tree
<1>1. w = [n \in 0 .. Len(leaves) |->
             IF n = 0 THEN [at |-> index, path |-> <<>>] ELSE Round(tree, n, w[n - 1])]
  BY AscentIs DEF tree
<1> HIDE DEF w
<1>2. /\ w[0] = [at |-> index, path |-> <<>>]
      /\ \A n \in 1 .. Len(leaves) : w[n] = Round(tree, n, w[n - 1])
  BY <1>1
<1> QED BY <1>2 DEF w, tree

OnLevel(layer, at, node, path) ==
  at \in 0 .. Len(layer) - 1 /\ ProcessProof(node, path) = layer[at + 1]

(* One level up: an even node is the left of its pair or promoted, an odd  *)
(* one the right of its pair.                                              *)
LEMMA OneLevelUp ==
  ASSUME NEW S, NEW layer \in Seq(S), NEW path \in Seq(S), NEW at, NEW node,
         OnLevel(layer, at, node, path)
  PROVE  /\ path \o SiblingIn(layer, at) \in Seq(S)
         /\ OnLevel(NextLayer(layer), at \div 2, node, path \o SiblingIn(layer, at))
<1> DEFINE m == Len(layer)
<1>1. /\ m \in Nat /\ at \in Nat /\ at < m /\ \A i \in 1 .. m : layer[i] \in S
      /\ ProcessProof(node, path) = layer[at + 1]
  BY DEF OnLevel
<1>2. /\ Len(NextLayer(layer)) = (m + 1) \div 2
      /\ \A i \in 1 .. (m + 1) \div 2 :
           NextLayer(layer)[i] = IF 2 * i <= m THEN HashPair(layer[2 * i - 1], layer[2 * i])
                                 ELSE layer[2 * i - 1]
  BY NextLayerIs
<1> HIDE DEF m
<1>3. at \div 2 \in 0 .. (m + 1) \div 2 - 1 /\ at \div 2 + 1 \in 1 .. (m + 1) \div 2
  BY <1>1
<1>4. CASE at % 2 = 0 /\ at + 1 < m
  <2>1. 2 * (at \div 2 + 1) = at + 2 /\ Sibling(at) = at + 1 /\ (at + 1) + 1 \in 1 .. m
    BY <1>1, <1>4 DEF Sibling
  <2>2. SiblingIn(layer, at) = <<layer[at + 2]>> /\ layer[at + 2] \in S
    BY <1>1, <1>4, <2>1 DEF SiblingIn, m
  <2>3. ProcessProof(node, path \o SiblingIn(layer, at)) = HashPair(layer[at + 1], layer[at + 2])
    BY <1>1, <2>2, ProcessNext
  <2>4. NextLayer(layer)[at \div 2 + 1] = HashPair(layer[at + 1], layer[at + 2])
    <3>1. PICK i \in 1 .. (m + 1) \div 2 : i = at \div 2 + 1
      BY <1>3
    <3>2. 2 * i = at + 2 /\ 2 * i - 1 = at + 1 /\ 2 * i <= m
      BY <1>1, <1>4, <2>1, <3>1
    <3> QED BY <1>2, <3>1, <3>2
  <2> QED BY <1>2, <1>3, <2>2, <2>3, <2>4 DEF OnLevel
<1>5. CASE at % 2 = 0 /\ ~ (at + 1 < m)
  <2>1. 2 * (at \div 2 + 1) = at + 2 /\ Sibling(at) = at + 1 /\ m = at + 1
    BY <1>1, <1>5 DEF Sibling
  <2>2. SiblingIn(layer, at) = <<>> /\ path \o SiblingIn(layer, at) = path
    BY <1>1, <1>5, <2>1 DEF SiblingIn, m
  <2>3. NextLayer(layer)[at \div 2 + 1] = layer[at + 1]
    <3>1. PICK i \in 1 .. (m + 1) \div 2 : i = at \div 2 + 1
      BY <1>3
    <3>2. 2 * i - 1 = at + 1 /\ ~ (2 * i <= m)
      BY <1>1, <2>1, <3>1
    <3> QED BY <1>2, <3>1, <3>2
  <2> QED BY <1>1, <1>2, <1>3, <2>2, <2>3 DEF OnLevel
<1>6. CASE at % 2 # 0
  <2>1. /\ 2 * (at \div 2 + 1) = at + 1 /\ Sibling(at) = at - 1
        /\ (at - 1) + 1 \in 1 .. m /\ (at - 1) + 1 = at /\ at - 1 < m
    BY <1>1, <1>6 DEF Sibling
  <2>2. SiblingIn(layer, at) = <<layer[at]>> /\ layer[at] \in S
    BY <1>1, <2>1 DEF SiblingIn, m
  <2>3. ProcessProof(node, path \o SiblingIn(layer, at)) = HashPair(layer[at + 1], layer[at])
    BY <1>1, <2>2, ProcessNext
  <2>4. NextLayer(layer)[at \div 2 + 1] = HashPair(layer[at], layer[at + 1])
    <3>1. PICK i \in 1 .. (m + 1) \div 2 : i = at \div 2 + 1
      BY <1>3
    <3>2. 2 * i = at + 1 /\ 2 * i - 1 = at /\ 2 * i <= m
      BY <1>1, <2>1, <3>1
    <3> QED BY <1>2, <3>1, <3>2
  <2>5. HashPair(layer[at + 1], layer[at]) = HashPair(layer[at], layer[at + 1])
    BY DEF HashPair
  <2> QED BY <1>2, <1>3, <2>2, <2>3, <2>4, <2>5 DEF OnLevel
<1> QED BY <1>1, <1>4, <1>5, <1>6

NodesOf(leaves) == UNION {ToSet(BuildTree(leaves)[n]) : n \in 0 .. Len(leaves)}

LEMMA LevelOfNodes ==
  ASSUME NEW S, NEW leaves \in Seq(S), Len(leaves) >= 1, NEW n \in 0 .. Len(leaves)
  PROVE  BuildTree(leaves)[n] \in Seq(NodesOf(leaves))
<1>1. PICK layer : layer = BuildTree(leaves)[n]
  OBVIOUS
<1>2. layer \in Seq(ToSet(layer))
  BY <1>1, EveryLevel DEF Level
<1>3. ToSet(layer) \subseteq NodesOf(leaves)
  BY <1>1 DEF NodesOf
<1> HIDE DEF NodesOf
<1>4. layer \in Seq(NodesOf(leaves))
  BY <1>2, <1>3
<1> QED BY <1>1, <1>4

LEMMA ProofOfLeaf ==
  ASSUME NEW S, NEW leaves \in Seq(S), NEW k \in 1 .. Len(leaves)
  PROVE  /\ GetProof(leaves, k - 1) \in Seq(NodesOf(leaves))
         /\ VerifyProof(leaves[k], GetProof(leaves, k - 1), TreeRoot(leaves))
<1> DEFINE N == Len(leaves)
           tree == BuildTree(leaves)
           w == Ascent(leaves, k - 1)
           Here(n) == /\ w[n].path \in Seq(NodesOf(leaves))
                      /\ OnLevel(tree[n], w[n].at, leaves[k], w[n].path)
           T == {n \in Nat : n <= N => Here(n)}
<1>1. N \in Nat /\ N >= 1 /\ k \in 1 .. N /\ Len(leaves) = N
  OBVIOUS
<1>2. tree[0] = leaves /\ \A n \in 1 .. N : tree[n] = NextLayer(tree[n - 1])
  BY TreeStep
<1>3. /\ w[0] = [at |-> k - 1, path |-> <<>>]
      /\ \A n \in 1 .. N : w[n] = Round(tree, n, w[n - 1])
  BY AscentStep
<1>4. \A n \in 0 .. N : tree[n] \in Seq(NodesOf(leaves))
  BY <1>1, LevelOfNodes
<1>5. Len(tree[N]) = 1
  BY <1>1, TopIsAlone
<1> HIDE DEF N, tree, w
<1>6. 0 \in T
  <2>1. w[0].at = k - 1 /\ w[0].path = <<>> /\ <<>> \in Seq(NodesOf(leaves))
    BY <1>3
  <2>2. (k - 1) + 1 = k /\ k - 1 \in 0 .. Len(tree[0]) - 1
    BY <1>1, <1>2
  <2>3. ProcessProof(leaves[k], <<>>) = leaves[k]
    BY ProcessEmpty
  <2>4. Here(0)
    BY <1>2, <2>1, <2>2, <2>3 DEF OnLevel
  <2> HIDE DEF Here
  <2> QED BY <2>4
<1>7. ASSUME NEW n \in T PROVE n + 1 \in T
  <2> SUFFICES ASSUME n + 1 <= N PROVE Here(n + 1)
    BY <1>1
  <2>1. n \in 0 .. N /\ n + 1 \in 1 .. N /\ (n + 1) - 1 = n /\ Here(n)
    BY <1>1
  <2>2. PICK layer, at, path :
          layer \in Seq(NodesOf(leaves)) /\ layer = tree[n] /\ at = w[n].at /\ path = w[n].path
    BY <1>4, <2>1
  <2>3. path \in Seq(NodesOf(leaves)) /\ OnLevel(layer, at, leaves[k], path)
    BY <2>1, <2>2
  <2>4. /\ path \o SiblingIn(layer, at) \in Seq(NodesOf(leaves))
        /\ OnLevel(NextLayer(layer), at \div 2, leaves[k], path \o SiblingIn(layer, at))
    BY <2>2, <2>3, OneLevelUp
  <2>5. /\ tree[n + 1] = NextLayer(layer)
        /\ w[n + 1].at = at \div 2 /\ w[n + 1].path = path \o SiblingIn(layer, at)
    <3>1. tree[n + 1] = NextLayer(layer) /\ w[n + 1] = Round(tree, n + 1, w[n])
      BY <1>2, <1>3, <2>1, <2>2
    <3>2. tree[(n + 1) - 1] = layer
      BY <2>1, <2>2
    <3>3. /\ Round(tree, n + 1, w[n]).at = w[n].at \div 2
          /\ Round(tree, n + 1, w[n]).path = w[n].path \o SiblingIn(tree[(n + 1) - 1], w[n].at)
      BY DEF Round
    <3> QED BY <2>2, <3>1, <3>2, <3>3
  <2> QED BY <2>4, <2>5
<1>8. Here(N)
  <2> HIDE DEF T, Here
  <2>1. T = Nat
    BY <1>6, <1>7, InductSet DEF T
  <2>2. N \in T /\ N <= N
    BY <1>1, <2>1
  <2> QED BY <2>2 DEF T
<1>9. w[N].at + 1 = 1
  BY <1>5, <1>8 DEF OnLevel
<1> QED BY <1>1, <1>8, <1>9 DEF VerifyProof, GetProof, TreeRoot, OnLevel, N, tree, w

(* "every leaf proves, for every tree size from 1 to 300"                  *)
(* (merkle.test.ts:22), and beyond: the proof of every leaf of every       *)
(* batch, promoted nodes included, verifies against the root of the batch. *)
THEOREM ProofLeadsToRoot ==
  ASSUME NEW S, NEW leaves \in Seq(S), NEW k \in 1 .. Len(leaves)
  PROVE  VerifyProof(leaves[k], GetProof(leaves, k - 1), TreeRoot(leaves))
BY ProofOfLeaf

LEMMA ProofIsFinite ==
  ASSUME NEW S, NEW leaves \in Seq(S), NEW k \in 1 .. Len(leaves)
  PROVE  Len(GetProof(leaves, k - 1)) \in Nat
<1>1. PICK P, proof : proof = GetProof(leaves, k - 1) /\ proof \in Seq(P)
  BY ProofOfLeaf
<1> QED BY <1>1

-----------------------------------------------------------------------------
(* A leaf that climbs to the root by any path is one of the tree's.  Going *)
(* down from the root, a node that is a pair has nodes of the tree below   *)
(* it, and a leaf is not the hash of a pair.                               *)
IsLeaf(x) == x[1] = "leaf"

PairOfNodes(leaves, x) == \E a, b \in NodesOf(leaves) : x = HashPair(a, b)

LeafOrPair(leaves, x) == x \in ToSet(leaves) \/ PairOfNodes(leaves, x)

LEMMA PairsAreTagged ==
  ASSUME NEW a, NEW b
  PROVE  HashPair(a, b)[1] = "pair" /\ HashPair(a, b)[2] = {a, b}
BY DEF HashPair

LEMMA EveryNodeIs ==
  ASSUME NEW S, NEW leaves \in Seq(S), Len(leaves) >= 1
  PROVE  \A x \in NodesOf(leaves) : LeafOrPair(leaves, x)
<1> DEFINE N == Len(leaves)
           tree == BuildTree(leaves)
           Nodes == NodesOf(leaves)
           Here(n) == \A i \in 1 .. Len(tree[n]) : LeafOrPair(leaves, tree[n][i])
           T == {n \in Nat : n <= N => Here(n)}
<1>1. N \in Nat /\ N >= 1 /\ leaves \in Seq(S)
  OBVIOUS
<1>2. tree[0] = leaves /\ \A n \in 1 .. N : tree[n] = NextLayer(tree[n - 1])
  BY TreeStep
<1>3. \A n \in 0 .. N : tree[n] \in Seq(Nodes)
  BY <1>1, LevelOfNodes
<1>4. Nodes = UNION {ToSet(tree[n]) : n \in 0 .. N}
  BY DEF NodesOf
<1> HIDE DEF N, tree, Nodes
<1>5. 0 \in T
  <2>1. \A i \in 1 .. Len(leaves) : leaves[i] \in ToSet(leaves)
    BY <1>1 DEF ToSet
  <2> QED BY <1>2, <2>1 DEF LeafOrPair
<1>6. ASSUME NEW n \in T PROVE n + 1 \in T
  <2> SUFFICES ASSUME n + 1 <= N PROVE Here(n + 1)
    BY <1>1
  <2>1. n \in 0 .. N /\ n + 1 \in 1 .. N /\ (n + 1) - 1 = n /\ Here(n)
    BY <1>1
  <2>2. PICK layer : layer = tree[n]
    OBVIOUS
  <2>3. /\ layer \in Seq(Nodes) /\ tree[n + 1] = NextLayer(layer)
        /\ \A i \in 1 .. Len(layer) : LeafOrPair(leaves, layer[i])
    BY <1>2, <1>3, <2>1, <2>2
  <2>4. /\ Len(NextLayer(layer)) = (Len(layer) + 1) \div 2
        /\ \A i \in 1 .. (Len(layer) + 1) \div 2 :
             NextLayer(layer)[i] = IF 2 * i <= Len(layer)
                                   THEN HashPair(layer[2 * i - 1], layer[2 * i])
                                   ELSE layer[2 * i - 1]
    BY <2>3, NextLayerIs
  <2>5. ASSUME NEW i \in 1 .. (Len(layer) + 1) \div 2
        PROVE  LeafOrPair(leaves, NextLayer(layer)[i])
    <3>1. 2 * i - 1 \in 1 .. Len(layer)
      BY <2>3
    <3>2. CASE 2 * i <= Len(layer)
      <4>1. layer[2 * i - 1] \in Nodes /\ layer[2 * i] \in Nodes
        BY <2>3, <3>1, <3>2
      <4> QED BY <2>4, <3>2, <4>1 DEF LeafOrPair, PairOfNodes, Nodes
    <3>3. CASE ~ (2 * i <= Len(layer))
      BY <2>3, <2>4, <3>1, <3>3
    <3> QED BY <3>2, <3>3
  <2> QED BY <2>3, <2>4, <2>5
<1>7. \A n \in 0 .. N : Here(n)
  <2> HIDE DEF T, Here
  <2>1. T = Nat
    BY <1>5, <1>6, InductSet DEF T
  <2> QED BY <1>1, <2>1 DEF T
<1> SUFFICES ASSUME NEW x \in Nodes PROVE LeafOrPair(leaves, x)
  BY DEF Nodes
<1>8. PICK n \in 0 .. N : x \in ToSet(tree[n])
  BY <1>4
<1>9. PICK i \in 1 .. Len(tree[n]) : x = tree[n][i]
  BY <1>3, <1>8 DEF ToSet
<1> QED BY <1>7, <1>9

LEMMA NodeBelow ==
  ASSUME NEW S, NEW leaves \in Seq(S), Len(leaves) >= 1, \A i \in 1 .. Len(leaves) : IsLeaf(leaves[i]),
         NEW a, NEW b, HashPair(a, b) \in NodesOf(leaves)
  PROVE  a \in NodesOf(leaves)
<1>1. HashPair(a, b) \notin ToSet(leaves)
  BY PairsAreTagged DEF ToSet, IsLeaf
<1>2. PICK c, d \in NodesOf(leaves) : HashPair(a, b) = HashPair(c, d)
  BY <1>1, EveryNodeIs DEF LeafOrPair, PairOfNodes
<1>3. {a, b} = {c, d}
  BY <1>2, PairsAreTagged
<1> QED BY <1>2, <1>3

(* Whoever made up the proof, what it proves is a leaf of the tree.        *)
THEOREM OnlyLeavesProve ==
  ASSUME NEW S, NEW leaves \in Seq(S), Len(leaves) >= 1, \A i \in 1 .. Len(leaves) : IsLeaf(leaves[i]),
         NEW leaf, IsLeaf(leaf), NEW proof, Len(proof) \in Nat,
         VerifyProof(leaf, proof, TreeRoot(leaves))
  PROVE  leaf \in ToSet(leaves)
<1> DEFINE N == Len(proof)
           c == Climb(leaf, proof)
           Nodes == NodesOf(leaves)
           T == {k \in Nat : k <= N => c[N - k] \in Nodes}
<1>1. /\ c[0] = leaf /\ \A n \in 1 .. N : c[n] = HashPair(c[n - 1], proof[n])
      /\ c[N] = TreeRoot(leaves) /\ N \in Nat
  BY ClimbStep DEF VerifyProof, ProcessProof
<1>2. TreeRoot(leaves) \in Nodes
  <2>1. PICK top : top = BuildTree(leaves)[Len(leaves)]
    OBVIOUS
  <2>2. Len(top) = 1 /\ top \in Seq(Nodes)
    <3>1. Len(leaves) \in 0 .. Len(leaves)
      OBVIOUS
    <3>2. BuildTree(leaves)[Len(leaves)] \in Seq(Nodes)
      BY <3>1, LevelOfNodes
    <3> HIDE DEF Nodes
    <3> QED BY <2>1, <3>2, TopIsAlone
  <2> HIDE DEF Nodes
  <2> QED BY <2>1, <2>2 DEF TreeRoot
<1> HIDE DEF N, c
<1>3. 0 \in T
  BY <1>1, <1>2
<1>4. ASSUME NEW k \in T PROVE k + 1 \in T
  <2> SUFFICES ASSUME k + 1 <= N PROVE c[N - (k + 1)] \in Nodes
    BY <1>1
  <2>1. c[N - k] \in Nodes /\ N - k \in 1 .. N /\ (N - k) - 1 = N - (k + 1)
    BY <1>1
  <2>2. HashPair(c[(N - k) - 1], proof[N - k]) \in Nodes
    BY <1>1, <2>1
  <2>3. c[(N - k) - 1] \in Nodes
    BY <2>2, NodeBelow
  <2> QED BY <2>1, <2>3
<1>5. c[N - N] \in Nodes
  <2> HIDE DEF T, Nodes
  <2>1. T = Nat
    BY <1>3, <1>4, InductSet DEF T
  <2>2. N \in T /\ N <= N
    BY <1>1, <2>1
  <2> QED BY <2>2 DEF T
<1>6. leaf \in Nodes
  BY <1>1, <1>5
<1>7. ~ PairOfNodes(leaves, leaf)
  BY PairsAreTagged DEF PairOfNodes, IsLeaf
<1> QED BY <1>6, <1>7, EveryNodeIs DEF LeafOrPair

-----------------------------------------------------------------------------
(* The books.  Every step of this module is one of Anchoring's.            *)
LEMMA StepIsAnchorings == [LotPageNext]_allVars => [Next]_vars
BY DEF LotPageNext, allVars, pageVars, Ingest, CloseAndPublish, Flag, AnchorAndPublish,
   ReconcileAndPublish, RestartStore, Unpublished, FetchLot, FetchProof, Click, Leave, Next

LEMMA PageSpecIsAnchorings == LotPageSpec => Spec
<1>1. LotPageInit => Init
  BY DEF LotPageInit
<1> QED BY <1>1, StepIsAnchorings, PTL DEF LotPageSpec, Spec

(* Never more roots, on chain or on the way, than batches closed, and no   *)
(* more of those than digests given to the batcher.                        *)
Hand == IF job.step \in {"count", "send"} THEN 1 ELSE 0

CountsInv ==
  /\ Len(queue) + Hand + Len(mempool) + Len(roots) <= Len(closed)
  /\ nextIndex <= Len(closed)
  /\ adds \in Nat /\ adds <= MaxAdds /\ Len(closed) + Len(pending) <= adds
  /\ \A c \in AllClosed : c.index < Len(closed)

LEMMA LengthsAre ==
  ASSUME Shape, HistoryShape
  PROVE  /\ Len(queue) \in Nat /\ Len(mempool) \in Nat /\ Len(roots) \in Nat
         /\ Len(closed) \in Nat /\ Len(pending) \in Nat /\ nextIndex \in Nat
         /\ Hand \in {0, 1} /\ (job = Idle => Hand = 0)
BY DEF Shape, BatcherShape, ChainShape, HistoryShape, Hand, Idle

LEMMA WaitingStep ==
  ASSUME Shape, HistoryShape, CountsInv, [Next]_vars
  PROVE  Len(queue') + Hand' + Len(mempool') + Len(roots') <= Len(closed')
<1> DEFINE q == Len(queue)
           m == Len(mempool)
           r == Len(roots)
           k == Len(closed)
           goal == Len(queue') + Hand' + Len(mempool') + Len(roots') <= Len(closed')
<1>0. /\ q \in Nat /\ m \in Nat /\ r \in Nat /\ k \in Nat /\ Hand \in {0, 1}
      /\ q + Hand + m + r <= k /\ (job = Idle => Hand = 0)
  BY LengthsAre DEF CountsInv
<1>a. /\ queue \in Seq(AnyBatch) /\ mempool \in Seq(Tx) /\ roots \in Seq(AnyRoot)
      /\ job = Idle \/ job \in [step : JobStep, batch : AnyBatch]
  BY DEF Shape, BatcherShape, ChainShape, ServiceShape
<1> HIDE DEF goal, q, m, r, k
<1>1. ASSUME NEW leaves, Closing(leaves) PROVE goal
  <2>1. Len(closed') = k + 1 /\ NewBatch(leaves) \in AnyBatch
    BY <1>1, ClosingAdds DEF k
  <2>2. queue' = Append(queue, NewBatch(leaves)) /\ UNCHANGED <<roots, job, mempool>>
    BY <1>1 DEF Closing, CloseWith, NewBatch, serviceVars
  <2>3. Len(queue') = q + 1
    BY <1>a, <2>1, <2>2 DEF q
  <2>4. Hand' = Hand /\ Len(mempool') = m /\ Len(roots') = r
    BY <2>2 DEF Hand, m, r
  <2> QED BY <1>0, <2>1, <2>3, <2>4 DEF goal
<1>2. CASE BeginAnchor
  <2>1. /\ queue' = Tail(queue) /\ queue # <<>> /\ job = Idle
        /\ UNCHANGED <<roots, mempool, closed>>
    BY <1>2 DEF BeginAnchor
  <2>2. Len(queue') = q - 1
    BY <1>a, <2>1 DEF q
  <2>3. Hand' \in {0, 1} /\ Len(mempool') = m /\ Len(roots') = r /\ Len(closed') = k
    BY <2>1 DEF Hand, m, r, k
  <2> QED BY <1>0, <2>1, <2>2, <2>3 DEF goal
<1>3. CASE SendAnchor \/ (RpcError /\ Submit /\ job.step = "send")
  <2>1. /\ job.step = "send" /\ job # Idle /\ Submit
        /\ job'.step \notin {"count", "send"} /\ UNCHANGED <<roots, queue, closed>>
    BY <1>a, <1>3 DEF SendAnchor, RpcError, Settle, Idle
  <2>2. Len(mempool') = m + 1
    <3>1. [root |-> job.batch.root, prevRoot |-> job.batch.prevRoot] \in Tx
      BY <1>a, <2>1 DEF Tx, AnyBatch
    <3> QED BY <1>a, <2>1, <3>1 DEF Submit, m
  <2>3. Hand = 1 /\ Hand' = 0 /\ Len(queue') = q /\ Len(roots') = r /\ Len(closed') = k
    BY <2>1 DEF Hand, q, r, k
  <2> QED BY <1>0, <2>2, <2>3 DEF goal
<1>4. CASE Mine
  <2>1. mempool # <<>> /\ mempool' = Tail(mempool) /\ UNCHANGED <<queue, closed>>
    BY <1>4 DEF Mine, batcherVars
  <2>2. Len(mempool') = m - 1
    BY <1>a, <2>1 DEF m
  <2>3. Len(roots') \in {r, r + 1}
    <3>1. Head(mempool) \in Tx
      BY <1>a, <2>1
    <3>2. Head(mempool).root \in AnyRoot
      BY <3>1 DEF Tx, AnyRoot
    <3>3. Len(Append(roots, Head(mempool).root)) = r + 1
      BY <1>a, <3>2 DEF r
    <3> QED BY <1>4, <3>3 DEF Mine, ExecuteAnchor, Executed, r
  <2>4. Hand' = Hand
    <3>1. job' = job \/ (job.step = "receipt" /\ job'.step \in {"success", "reverted"})
      BY <1>4, <1>a DEF Mine, Idle
    <3> QED BY <3>1 DEF Hand
  <2>5. Len(queue') = q /\ Len(closed') = k
    BY <2>1 DEF q, k
  <2> QED BY <1>0, <2>2, <2>3, <2>4, <2>5 DEF goal
<1>5. CASE Restart
  <2>1. Len(queue') = 0 /\ job' = Idle /\ UNCHANGED <<roots, mempool, closed>>
    BY <1>5 DEF Restart
  <2>2. Hand' = 0 /\ Len(mempool') = m /\ Len(roots') = r /\ Len(closed') = k
    BY <2>1 DEF Hand, Idle, m, r, k
  <2> QED BY <1>0, <2>1, <2>2 DEF goal
<1>6. ASSUME Hand' = Hand \/ Hand' = 0, UNCHANGED <<queue, mempool, roots, closed>> PROVE goal
  BY <1>0, <1>6 DEF goal, q, m, r, k
<1>7. CASE ReadCount
  <2>1. job' = Idle \/ (job'.step = "send" /\ job.step = "count")
    BY <1>7, <1>a DEF ReadCount, Settle, Idle
  <2>2. Hand' = Hand \/ Hand' = 0
    BY <2>1 DEF Hand, Idle
  <2> QED BY <1>6, <1>7, <2>2 DEF ReadCount, batcherVars, goal
<1>8. CASE ReadReceipt \/ (RpcError /\ UNCHANGED mempool)
  <2>1. Hand' = 0 /\ UNCHANGED <<queue, mempool, roots, closed>>
    BY <1>8 DEF ReadReceipt, RpcError, Settle, Hand, Idle, batcherVars
  <2> QED BY <1>6, <2>1 DEF goal
<1>9. CASE UNCHANGED <<queue, job, mempool, roots, closed>>
  <2>1. Hand' = Hand
    BY <1>9 DEF Hand
  <2> QED BY <1>6, <1>9, <2>1 DEF goal
<1>10. CASE (\E l \in Leaf : Add(l)) \/ CloseEarly
  <2>1. (\E leaves : Closing(leaves)) \/ UNCHANGED <<queue, job, mempool, roots, closed>>
    BY <1>10, AddOrClose DEF Add, CloseEarly, serviceVars
  <2> QED BY <1>1, <1>9, <2>1 DEF goal
<1>11. RpcError => (RpcError /\ Submit /\ job.step = "send") \/ (RpcError /\ UNCHANGED mempool)
  BY DEF RpcError
<1>12. goal
  BY <1>2, <1>3, <1>4, <1>5, <1>7, <1>8, <1>9, <1>10, <1>11
     DEF goal, Next, vars, serviceVars, batcherVars, BeginReconcile, ReconcileCount, ReconcileOne,
         ReconcileError, BootReconciled, BootCount, BootRoot, BootError
<1> QED BY <1>12 DEF goal

LEMMA AddsStep ==
  ASSUME Shape, HistoryShape, CountsInv, [Next]_vars
  PROVE  adds' \in Nat /\ adds' <= MaxAdds /\ Len(closed') + Len(pending') <= adds'
<1> DEFINE k == Len(closed)
           p == Len(pending)
<1>0. /\ k \in Nat /\ p \in Nat /\ adds \in Nat /\ adds <= MaxAdds /\ k + p <= adds
      /\ pending \in Seq(Leaf) /\ MaxAdds \in Nat
  BY LengthsAre, PageAssumption DEF CountsInv, Shape, BatcherShape
<1> HIDE DEF k, p
<1>1. ASSUME NEW leaves, Closing(leaves) PROVE Len(closed') = k + 1 /\ Len(pending') = 0
  BY <1>1, ClosingAdds DEF Closing, CloseWith, k
<1>2. ASSUME NEW l \in Leaf, Add(l)
      PROVE  adds' \in Nat /\ adds' <= MaxAdds /\ Len(closed') + Len(pending') <= adds'
  <2>1. adds' = adds + 1 /\ adds < MaxAdds
    BY <1>2 DEF Add
  <2>2. CASE UNCHANGED closed /\ pending' = Append(pending, l)
    <3>1. Len(pending') = p + 1
      BY <1>0, <2>2 DEF p
    <3> QED BY <1>0, <2>1, <2>2, <3>1 DEF k
  <2>3. CASE Full(Append(pending, l))
    <3>1. Len(Append(pending, l)) = p + 1 /\ Append(pending, l) \in Seq(Leaf)
      BY <1>0 DEF p
    <3>2. Append(pending, l) # <<>> /\ Len(Append(pending, l)) <= MaxLeaves
      <4>1. p < MaxLeaves /\ MaxLeaves \in Nat
        BY LeafBound DEF Shape, BatcherShape, p
      <4>2. Append(pending, l) # <<>>
        BY <1>0, <3>1
      <4> QED BY <1>0, <3>1, <4>1, <4>2
    <3>3. Closing(Append(pending, l))
      BY <1>2, <2>3, <3>1, <3>2 DEF Add, Closing
    <3> QED BY <1>0, <1>1, <2>1, <3>3
  <2> QED BY <1>2, <2>2, <2>3 DEF Add
<1>3. CASE CloseEarly
  <2>1. p >= 1
    BY <1>0, <1>3, EmptySeq DEF CloseEarly, p
  <2>2. Closing(pending) /\ UNCHANGED adds
    BY <1>0, <1>3, LeafBound DEF CloseEarly, Closing, Shape, BatcherShape
  <2> QED BY <1>0, <1>1, <2>1, <2>2
<1>4. CASE Restart
  BY <1>0, <1>4 DEF Restart, k, p
<1>5. CASE UNCHANGED <<closed, pending, adds>>
  BY <1>0, <1>5 DEF k, p
<1> QED
  BY <1>2, <1>3, <1>4, <1>5 DEF Next, vars, batcherVars, BeginAnchor, ReadCount, SendAnchor, Mine,
     ReadReceipt, RpcError, BeginReconcile, ReconcileCount, ReconcileOne, ReconcileError,
     BootReconciled, BootCount, BootRoot, BootError

LEMMA IndicesStep ==
  ASSUME Shape, HistoryShape, CountsInv, [Next]_vars
  PROVE  nextIndex' <= Len(closed') /\ \A c \in AllClosed' : c.index < Len(closed')
<1> DEFINE k == Len(closed)
<1>0. /\ k \in Nat /\ nextIndex \in Nat /\ nextIndex <= k /\ Len(roots) \in Nat /\ Len(roots) <= k
      /\ \A c \in AllClosed : c.index < k /\ c.index \in Nat
  <2>1. Len(roots) <= k
    <3>1. \A q, h, m, r \in Nat : q + h + m + r <= k => r <= k
      BY LengthsAre
    <3> QED BY <3>1, LengthsAre DEF CountsInv
  <2> QED BY <2>1, LengthsAre, AllClosedAre DEF CountsInv
<1> HIDE DEF k
<1>1. ASSUME NEW leaves, Closing(leaves)
      PROVE  nextIndex' <= Len(closed') /\ \A c \in AllClosed' : c.index < Len(closed')
  <2>1. /\ Len(closed') = k + 1 /\ AllClosed' = AllClosed \cup {NewBatch(leaves)}
        /\ nextIndex' = nextIndex + 1 /\ NewBatch(leaves).index = nextIndex
    BY <1>1, ClosingAdds DEF k, Closing, CloseWith, NewBatch
  <2> QED BY <1>0, <2>1
<1>2. CASE BootCount \/ BootRoot
  <2>1. UNCHANGED closed /\ nextIndex' \in {nextIndex, 0, Len(roots)} \cup 0 .. Len(roots)
    BY <1>0, <1>2 DEF BootCount, BootRoot, Resume, HistoryShape
  <2> QED BY <1>0, <2>1 DEF AllClosed, k
<1>3. CASE UNCHANGED closed /\ (nextIndex' = nextIndex \/ nextIndex' = 0)
  BY <1>0, <1>3 DEF AllClosed, k
<1>4. CASE (\E l \in Leaf : Add(l)) \/ CloseEarly
  BY <1>1, <1>3, <1>4, AddOrClose
<1> QED
  BY <1>2, <1>3, <1>4 DEF Next, vars, batcherVars, BeginAnchor, ReadCount, SendAnchor, Mine,
     ReadReceipt, RpcError, BeginReconcile, ReconcileCount, ReconcileOne, ReconcileError,
     BootReconciled, BootError, Restart

LEMMA CountsStep ==
  ASSUME Shape, HistoryShape, CountsInv, [Next]_vars
  PROVE  CountsInv'
BY WaitingStep, AddsStep, IndicesStep DEF CountsInv

LEMMA CountsInit == Init => CountsInv
BY PageAssumption DEF Init, AnchorInit, CountsInv, Hand, Idle, AllClosed

-----------------------------------------------------------------------------
(* The books tie records, batches and roots together.                      *)
WasClosed(r) == \E c \in AllClosed : c.root = r

Names(i, r) == \E c \in AllClosed : c.index = i /\ c.root = r

Record == [digest : Leaf, broken : BOOLEAN]

RecordsShape ==
  /\ records \in Seq(Record)
  /\ DOMAIN published = Lot

ProofsPoint ==
  /\ batchOf \in [Leaf -> AllClosed \cup {NoBatch}]
  /\ \A d \in Leaf : batchOf[d] # NoBatch => d \in ToSet(batchOf[d].leaves)

RootsOfLeaves == \A c \in AllClosed : c.root = TreeRoot(c.leaves)

ChainOfClosed ==
  /\ \A i \in DOMAIN mempool : WasClosed(mempool[i].root)
  /\ \A k \in DOMAIN roots : WasClosed(roots[k])

AnchorsOfClosed ==
  /\ \A i \in Index : anchors[i].status \in Status => Names(i, anchors[i].root)
  /\ reconciling # Idle => \A r \in reconciling.todo : Names(r.index, r.root)

BooksInv == RecordsShape /\ ProofsPoint /\ RootsOfLeaves /\ ChainOfClosed /\ AnchorsOfClosed

LEMMA LeavesAre ==
  ASSUME NEW s \in Leaves
  PROVE  s \in Seq(Leaf) /\ Len(s) \in Nat /\ Len(s) >= 1
<1>1. s \in Seq(Leaf) /\ s # <<>>
  BY LeafBound DEF Leaves, BoundedSeq, SeqOf
<1> QED BY <1>1

LEMMA ClosedLeaves ==
  ASSUME HistoryShape, NEW c \in AllClosed
  PROVE  c.leaves \in Seq(Leaf) /\ Len(c.leaves) \in Nat /\ Len(c.leaves) >= 1
<1>1. c.leaves \in Leaves
  BY AllClosedAre DEF AnyBatch
<1> QED BY <1>1, LeavesAre

LEMMA NamesStay ==
  ASSUME Shape, HistoryShape, [Next]_vars
  PROVE  /\ \A r : WasClosed(r) => WasClosed(r)'
         /\ \A i, r : Names(i, r) => Names(i, r)'
BY ClosedGrows DEF WasClosed, Names

LEMMA RecordsShapeStep ==
  ASSUME RecordsShape, [LotPageNext]_allVars
  PROVE  RecordsShape'
<1>1. ASSUME NEW d \in Leaf, NEW broken \in BOOLEAN, NEW found \in BOOLEAN, Ingest(d, broken, found)
      PROVE  RecordsShape'
  <2>0. PICK record \in Record : record = [digest |-> d, broken |-> broken]
    BY DEF Record
  <2>1. records' = Append(records, record) /\ DOMAIN published' = Lot
    BY <1>1, <2>0 DEF Ingest, PublishLots
  <2> QED BY <2>1 DEF RecordsShape
<1>2. CASE CloseAndPublish \/ AnchorAndPublish \/ ReconcileAndPublish \/ RestartStore
  <2>1. /\ records' = records \/ records' = <<>>
        /\ published' = published \/ DOMAIN published' = Lot
    BY <1>2 DEF CloseAndPublish, AnchorAndPublish, ReconcileAndPublish, RestartStore,
       PublishLots, PublishAnchor
  <2>2. <<>> \in Seq(Record)
    OBVIOUS
  <2>3. DOMAIN published' = Lot
    BY <2>1 DEF RecordsShape
  <2>4. records' \in Seq(Record)
    BY <2>1, <2>2 DEF RecordsShape
  <2> QED BY <2>3, <2>4 DEF RecordsShape
<1>3. ASSUME NEW l \in Lot, Flag(l) PROVE RecordsShape'
  BY <1>3 DEF Flag, PublishLots, RecordsShape
<1>4. CASE UNCHANGED <<records, published>>
  BY <1>4 DEF RecordsShape
<1> QED
  BY <1>1, <1>2, <1>3, <1>4 DEF LotPageNext, allVars, pageVars, Unpublished, FetchLot, FetchProof,
     Click, Leave

LEMMA ProofsPointStep ==
  ASSUME Shape, HistoryShape, ProofsPoint, [Next]_vars
  PROVE  ProofsPoint'
<1>1. AllClosed \subseteq AllClosed'
  BY ClosedGrows
<1>2. ASSUME NEW leaves, Closing(leaves) PROVE ProofsPoint'
  <2> DEFINE batch == NewBatch(leaves)
  <2>1. /\ batch \in AllClosed' /\ batch.leaves = leaves
        /\ batchOf' = [l \in Leaf |-> IF l \in ToSet(leaves) THEN batch ELSE batchOf[l]]
    BY <1>2, ClosingAdds DEF Closing, CloseWith, NewBatch
  <2> HIDE DEF batch
  <2> QED BY <1>1, <2>1 DEF ProofsPoint
<1>3. CASE UNCHANGED batchOf
  BY <1>1, <1>3 DEF ProofsPoint
<1>4. CASE Restart
  BY <1>4 DEF Restart, ProofsPoint
<1>5. CASE (\E l \in Leaf : Add(l)) \/ CloseEarly
  BY <1>2, <1>3, <1>5, AddOrClose
<1> QED
  BY <1>3, <1>4, <1>5 DEF Next, vars, batcherVars, BeginAnchor, ReadCount, SendAnchor, Mine,
     ReadReceipt, RpcError, BeginReconcile, ReconcileCount, ReconcileOne, ReconcileError,
     BootReconciled, BootCount, BootRoot, BootError

LEMMA RootsOfLeavesStep ==
  ASSUME Shape, HistoryShape, RootsOfLeaves, [Next]_vars
  PROVE  RootsOfLeaves'
<1>1. ASSUME NEW leaves, Closing(leaves) PROVE RootsOfLeaves'
  <2>1. /\ AllClosed' = AllClosed \cup {NewBatch(leaves)}
        /\ NewBatch(leaves).root = TreeRoot(NewBatch(leaves).leaves)
    BY <1>1, ClosingAdds DEF NewBatch, RootOf
  <2> QED BY <2>1 DEF RootsOfLeaves
<1>2. CASE UNCHANGED closed
  BY <1>2 DEF RootsOfLeaves, AllClosed
<1> QED BY <1>1, <1>2, ClosedBy

LEMMA ChainOfClosedStep ==
  ASSUME Shape, HistoryShape, FromClosed, ChainOfClosed, [Next]_vars
  PROVE  ChainOfClosed'
<1>0. /\ mempool \in Seq(Tx) /\ roots \in Seq(AnyRoot)
      /\ job = Idle \/ job \in [step : JobStep, batch : AnyBatch]
  BY DEF Shape, ChainShape, ServiceShape
<1>1. CASE UNCHANGED <<mempool, roots>>
  BY <1>1, NamesStay DEF ChainOfClosed
<1>2. CASE Submit /\ job # Idle /\ UNCHANGED roots
  <2> DEFINE tx == [root |-> job.batch.root, prevRoot |-> job.batch.prevRoot]
  <2>1. tx \in Tx /\ mempool' = Append(mempool, tx) /\ WasClosed(tx.root)
    BY <1>0, <1>2 DEF Tx, AnyBatch, Submit, FromClosed, WasClosed
  <2> HIDE DEF tx
  <2>2. \A i \in DOMAIN mempool' : (i \in DOMAIN mempool /\ mempool'[i] = mempool[i]) \/ mempool'[i] = tx
    BY <1>0, <2>1
  <2> QED BY <1>2, <2>1, <2>2, NamesStay DEF ChainOfClosed
<1>3. CASE Mine
  <2>1. /\ mempool # <<>> /\ mempool' = Tail(mempool)
        /\ roots' = roots \/ roots' = Append(roots, Head(mempool).root)
    BY <1>3 DEF Mine, ExecuteAnchor, Executed
  <2>2. /\ Head(mempool) = mempool[1] /\ 1 \in DOMAIN mempool /\ Head(mempool) \in Tx
        /\ \A i \in DOMAIN mempool' : i + 1 \in DOMAIN mempool /\ mempool'[i] = mempool[i + 1]
    BY <1>0, <2>1
  <2>3. WasClosed(Head(mempool).root) /\ Head(mempool).root \in AnyRoot
    BY <2>2 DEF ChainOfClosed, Tx, AnyRoot
  <2>4. PICK r \in AnyRoot : r = Head(mempool).root /\ WasClosed(r)
    BY <2>3
  <2>5. \A k \in DOMAIN roots' : (k \in DOMAIN roots /\ roots'[k] = roots[k]) \/ roots'[k] = r
    BY <1>0, <2>1, <2>4
  <2>6. \A k \in DOMAIN roots' : WasClosed(roots'[k])
    BY <2>4, <2>5 DEF ChainOfClosed
  <2>7. \A i \in DOMAIN mempool' : WasClosed(mempool'[i].root)
    BY <2>2 DEF ChainOfClosed
  <2> QED BY <2>6, <2>7, NamesStay DEF ChainOfClosed
<1>4. CASE (\E l \in Leaf : Add(l)) \/ CloseEarly
  BY <1>1, <1>4 DEF Add, CloseEarly
<1>5. CASE SendAnchor \/ RpcError
  <2>1. UNCHANGED roots /\ (UNCHANGED mempool \/ (Submit /\ job # Idle))
    BY <1>5 DEF SendAnchor, RpcError, Idle
  <2> QED BY <1>1, <1>2, <2>1
<1> QED
  BY <1>1, <1>3, <1>4, <1>5 DEF Next, vars, BeginAnchor, ReadCount, ReadReceipt, BeginReconcile,
     ReconcileCount, ReconcileOne, ReconcileError, BootReconciled, BootCount, BootRoot,
     BootError, Restart

(* A step rewrites at most one record, of a batch that was closed.         *)
Records(x, status, r) ==
  /\ status \in Status /\ Names(x, r)
  /\ anchors' = [anchors EXCEPT ![x] = [status |-> status, root |-> r]]

LEMMA OneClosedRewrite ==
  ASSUME Shape, HistoryShape, FromClosed, AnchorsOfClosed, [Next]_vars
  PROVE  UNCHANGED anchors \/ \E x, status, r : Records(x, status, r)
<1>0. job # Idle => Names(job.batch.index, job.batch.root)
  BY DEF FromClosed, Names
<1>1. CASE BeginAnchor
  <2>1. Head(queue) = queue[1] /\ 1 \in DOMAIN queue
    BY <1>1 DEF BeginAnchor, Shape, BatcherShape
  <2>2. Records(Head(queue).index, "PENDING", Head(queue).root)
    BY <1>1, <2>1 DEF BeginAnchor, Records, Names, FromClosed, Status
  <2> QED BY <2>2
<1>2. ASSUME NEW status \in Status, job # Idle, Settle(status)
      PROVE  Records(job.batch.index, status, job.batch.root)
  BY <1>0, <1>2 DEF Settle, Records
<1>3. CASE ReadCount
  <2>1. job # Idle /\ (UNCHANGED anchors \/ \E status \in Status : Settle(status))
    BY <1>3 DEF ReadCount, Outcome, Status, Idle
  <2> QED BY <1>2, <2>1
<1>4. CASE ReadReceipt \/ RpcError
  <2>1. job # Idle /\ \E status \in Status : Settle(status)
    BY <1>4 DEF ReadReceipt, RpcError, Status, Idle
  <2> QED BY <1>2, <2>1
<1>5. CASE ReconcileOne
  <2>1. PICK r \in reconciling.todo :
          anchors' = [anchors EXCEPT ![r.index] =
                        [status |-> Outcome(r.index, r.root), root |-> r.root]]
    BY <1>5 DEF ReconcileOne
  <2>2. Names(r.index, r.root) /\ Outcome(r.index, r.root) \in Status
    BY <1>5, <2>1 DEF ReconcileOne, AnchorsOfClosed, Idle, Outcome, Status
  <2>3. Records(r.index, Outcome(r.index, r.root), r.root)
    BY <2>1, <2>2 DEF Records
  <2> QED BY <2>3
<1> QED
  BY <1>1, <1>3, <1>4, <1>5 DEF Next, vars, serviceVars, Add, CloseEarly, SendAnchor, Mine,
     BeginReconcile, ReconcileCount, ReconcileError, BootReconciled, BootCount, BootRoot,
     BootError, Restart

LEMMA AnchorsOfClosedStep ==
  ASSUME Shape, HistoryShape, FromClosed, AnchorsOfClosed, [Next]_vars
  PROVE  AnchorsOfClosed'
<1>0. /\ anchors \in [Index -> {NoRecord} \cup [status : Status, root : Root]]
      /\ reconciling = Idle \/ reconciling \in [step : {"count", "resolve"}, todo : SUBSET Doubt]
  BY DEF Shape, ServiceShape
<1>1. ASSUME NEW i \in Index, anchors'[i].status \in Status PROVE Names(i, anchors[i].root)'
  <2>1. CASE anchors'[i] = anchors[i]
    BY <1>1, <2>1, NamesStay DEF AnchorsOfClosed
  <2>2. ASSUME NEW x, NEW status, NEW r, Records(x, status, r), i = x
        PROVE  Names(i, anchors[i].root)'
    <3>1. anchors'[i].root = r /\ Names(i, r)
      BY <1>0, <2>2 DEF Records
    <3> QED BY <3>1, NamesStay
  <2>3. ASSUME NEW x, NEW status, NEW r, Records(x, status, r), i # x
        PROVE  anchors'[i] = anchors[i]
    BY <1>0, <2>3 DEF Records
  <2> QED BY <2>1, <2>2, <2>3, OneClosedRewrite
<1>2. ASSUME reconciling' # Idle, NEW r \in reconciling'.todo PROVE Names(r.index, r.root)'
  <2>1. CASE reconciling # Idle /\ r \in reconciling.todo
    BY <2>1, NamesStay DEF AnchorsOfClosed
  <2>2. CASE BeginReconcile \/ Restart
    <3>1. r \in PendingRecords
      BY <1>2, <2>2 DEF BeginReconcile, Restart, Reconciliation
    <3>2. PICK i \in Index : anchors[i].status = "PENDING" /\ r.index = i /\ r.root = anchors[i].root
      BY <3>1 DEF PendingRecords
    <3>3. Names(r.index, r.root)
      BY <3>2 DEF AnchorsOfClosed, Status
    <3> QED BY <3>3, NamesStay
  <2>3. CASE ReconcileCount
    BY <1>2, <2>1, <2>3 DEF ReconcileCount, Idle
  <2>4. CASE ReconcileOne
    <3>1. PICK q \in reconciling.todo :
            reconciling' = IF reconciling.todo = {q} THEN Idle ELSE [reconciling EXCEPT !.todo = @ \ {q}]
      BY <2>4 DEF ReconcileOne
    <3>2. reconciling # Idle /\ reconciling' = [reconciling EXCEPT !.todo = @ \ {q}]
      BY <1>2, <2>4, <3>1 DEF ReconcileOne, Idle
    <3>3. reconciling'.todo \subseteq reconciling.todo
      BY <1>0, <3>2
    <3> QED BY <1>2, <2>1, <3>2, <3>3
  <2>5. CASE ReconcileError \/ UNCHANGED reconciling
    BY <1>2, <2>1, <2>5 DEF ReconcileError
  <2> QED
    BY <2>2, <2>3, <2>4, <2>5 DEF Next, vars, serviceVars, Add, CloseEarly, BeginAnchor, ReadCount,
       SendAnchor, Mine, ReadReceipt, RpcError, BootReconciled, BootCount, BootRoot, BootError
<1> QED BY <1>1, <1>2 DEF AnchorsOfClosed, Index

LEMMA BooksInit == LotPageInit => BooksInv
<1> SUFFICES ASSUME LotPageInit PROVE BooksInv
  OBVIOUS
<1>1. RecordsShape /\ ProofsPoint
  BY DEF LotPageInit, Init, RecordsShape, ProofsPoint
<1>2. RootsOfLeaves /\ ChainOfClosed
  BY DEF LotPageInit, Init, AnchorInit, RootsOfLeaves, ChainOfClosed, AllClosed
<1>3. AnchorsOfClosed
  BY DEF LotPageInit, Init, AnchorsOfClosed, NoRecord, Status, Idle
<1> QED BY <1>1, <1>2, <1>3 DEF BooksInv

LEMMA BooksStep ==
  ASSUME Shape, HistoryShape, FromClosed, BooksInv, [LotPageNext]_allVars
  PROVE  BooksInv'
<1>1. [Next]_vars
  BY StepIsAnchorings
<1> QED
  BY <1>1, RecordsShapeStep, ProofsPointStep, RootsOfLeavesStep, ChainOfClosedStep,
     AnchorsOfClosedStep DEF BooksInv

-----------------------------------------------------------------------------
(* The page: the verdict it shows is that of the root it read, and roots   *)
(* on chain stay where they are.                                           *)
LotShown == [step : {"lot"}, first : Leaf, digest : Leaf]

ReadyShape ==
  /\ page.first \in Leaf
  /\ page = [step |-> "ready", first |-> page.first, digest |-> page.digest,
             proof |-> page.proof, result |-> page.result]

PageShape == page = NoPage \/ page \in LotShown \/ ReadyShape

ProofIsPath ==
  page.step = "ready" /\ page.proof # NoProof => page.proof.index \in Nat /\ Len(page.proof.path) \in Nat

ResultIsOfRead ==
  page.step = "ready" /\ page.result \in {"verified", "failed"} =>
    /\ page.proof # NoProof /\ page.proof.index < Len(roots)
    /\ page.result = "verified" <=> VerifyProof(page.first, page.proof.path, roots[page.proof.index + 1])

PageInv == PageShape /\ ProofIsPath /\ ResultIsOfRead

LEMMA PositionIs ==
  ASSUME NEW S, NEW leaves \in Seq(S), NEW d \in ToSet(leaves)
  PROVE  Position(d, leaves) \in 1 .. Len(leaves) /\ leaves[Position(d, leaves)] = d
<1> DEFINE here == {i \in DOMAIN leaves : leaves[i] = d}
<1>1. here \in SUBSET Nat /\ here # {} /\ DOMAIN leaves = 1 .. Len(leaves)
  BY DEF ToSet
<1>2. \E i \in here : \A j \in here : i <= j
  <2> HIDE DEF here
  <2> QED BY <1>1, LeastNatural
<1>3. \E i \in DOMAIN leaves : leaves[i] = d /\ \A j \in DOMAIN leaves : leaves[j] = d => i <= j
  BY <1>2
<1> QED BY <1>1, <1>3 DEF Position

(* The proof the gateway serves leads to the root of the batch it names.   *)
LEMMA HonestPath ==
  ASSUME HistoryShape, RootsOfLeaves, NEW c \in AllClosed, NEW d \in ToSet(c.leaves)
  PROVE  LET proof == ProofIn(d, c)
         IN /\ proof.index = c.index /\ c.index \in Nat /\ Len(proof.path) \in Nat
            /\ VerifyProof(d, proof.path, c.root)
<1>1. PICK leaves \in Seq(Leaf) : leaves = c.leaves
  BY ClosedLeaves
<1>2. PICK k \in 1 .. Len(leaves) : k = Position(d, leaves) /\ leaves[k] = d
  BY <1>1, PositionIs
<1>3. VerifyProof(d, GetProof(leaves, k - 1), TreeRoot(leaves)) /\ Len(GetProof(leaves, k - 1)) \in Nat
  BY <1>2, ProofLeadsToRoot, ProofIsFinite
<1>4. TreeRoot(leaves) = c.root /\ c.index \in Nat
  BY <1>1, AllClosedAre DEF RootsOfLeaves
<1>5. ProofIn(d, c).index = c.index /\ ProofIn(d, c).path = GetProof(leaves, k - 1)
  BY <1>1, <1>2 DEF ProofIn
<1> QED BY <1>3, <1>4, <1>5

LEMMA FetchLotKeeps ==
  ASSUME RecordsShape, NEW l \in Lot, NEW first \in Leaf, FetchLot(l, first)
  PROVE  PageInv'
<1> DEFINE at == Min(RecordsForLot(l))
<1>1. RecordsForLot(l) \in SUBSET Nat /\ RecordsForLot(l) \subseteq DOMAIN records
  BY DEF RecordsForLot, RecordsShape
<1>2. at \in RecordsForLot(l)
  <2>1. \E i \in RecordsForLot(l) : \A j \in RecordsForLot(l) : i <= j
    BY <1>1, LeastNatural DEF FetchLot
  <2> QED BY <2>1 DEF Min
<1>3. records[at] \in Record
  BY <1>1, <1>2 DEF RecordsShape
<1>4. page' = [step |-> "lot", first |-> first, digest |-> records[at].digest]
  BY DEF FetchLot
<1> HIDE DEF at
<1>5. page' \in LotShown /\ page'.step = "lot"
  BY <1>3, <1>4 DEF LotShown, Record
<1> QED BY <1>5 DEF PageInv, PageShape, ProofIsPath, ResultIsOfRead

LEMMA FetchProofKeeps ==
  ASSUME HistoryShape, RootsOfLeaves, ProofsPoint, PageInv, FetchProof
  PROVE  PageInv'
<1>1. PICK proof \in {ProofFor(page.digest), NoProof} \cup MadeUp :
        page' = [step |-> "ready", first |-> page.first, digest |-> page.digest,
                 proof |-> proof, result |-> "idle"]
  BY DEF FetchProof
<1>2. page \in LotShown
  BY DEF FetchProof, PageInv, PageShape, ReadyShape, NoPage
<1>3. /\ page'.step = "ready" /\ page'.proof = proof /\ page'.result = "idle"
      /\ page'.first = page.first /\ page'.digest = page.digest /\ page.first \in Leaf
      /\ page.digest \in Leaf
  BY <1>1, <1>2 DEF LotShown
<1>4. ReadyShape'
  BY <1>1, <1>3 DEF ReadyShape
<1>5. ASSUME proof # NoProof PROVE proof.index \in Nat /\ Len(proof.path) \in Nat
  <2>1. CASE proof \in MadeUp
    BY <2>1, PageAssumption DEF MadeUp, Index
  <2>2. CASE proof = ProofFor(page.digest)
    <3>1. PICK c \in AllClosed : c = batchOf[page.digest] /\ page.digest \in ToSet(c.leaves)
      BY <1>3, <1>5, <2>2 DEF ProofFor, ProofsPoint
    <3>2. proof = ProofIn(page.digest, c)
      BY <1>5, <2>2, <3>1 DEF ProofFor
    <3> QED BY <3>1, <3>2, HonestPath
  <2> QED BY <1>5, <2>1, <2>2
<1> QED BY <1>3, <1>4, <1>5 DEF PageInv, PageShape, ProofIsPath, ResultIsOfRead

LEMMA ClickKeeps ==
  ASSUME PageInv, Click
  PROVE  PageInv'
<1>1. /\ page.step = "ready" /\ page.proof # NoProof /\ UNCHANGED roots
      /\ page = [step |-> "ready", first |-> page.first, digest |-> page.digest,
                 proof |-> page.proof, result |-> page.result]
      /\ page.first \in Leaf
  BY DEF Click, PageInv, PageShape, ReadyShape, LotShown, NoPage, vars
<1>2. PICK result : /\ page' = [page EXCEPT !.result = result]
                    /\ \/ result = "unread"
                       \/ /\ page.proof.index < Len(roots)
                          /\ result = IF VerifyProof(page.first, page.proof.path, roots[page.proof.index + 1])
                                      THEN "verified" ELSE "failed"
  BY DEF Click, CheckLeaf, AnchorCount
<1>3. page' = [step |-> "ready", first |-> page.first, digest |-> page.digest,
               proof |-> page.proof, result |-> result]
  BY <1>1, <1>2
<1>4. /\ page'.step = "ready" /\ page'.first = page.first /\ page'.digest = page.digest
      /\ page'.proof = page.proof /\ page'.result = result
  BY <1>3
<1>5. ReadyShape'
  BY <1>1, <1>3, <1>4 DEF ReadyShape
<1>6. ProofIsPath'
  BY <1>1, <1>4 DEF PageInv, ProofIsPath
<1>7. ResultIsOfRead'
  BY <1>1, <1>2, <1>4 DEF ResultIsOfRead
<1> QED BY <1>5, <1>6, <1>7 DEF PageInv, PageShape

LEMMA PageStays ==
  ASSUME Shape, PageInv, [Next]_vars, UNCHANGED page
  PROVE  PageInv'
<1>1. PageShape' /\ ProofIsPath'
  BY DEF PageInv, PageShape, ReadyShape, ProofIsPath
<1>2. ASSUME page.step = "ready", page.result \in {"verified", "failed"}
      PROVE  ResultIsOfRead'
  <2>1. /\ page.proof # NoProof /\ page.proof.index < Len(roots) /\ page.proof.index \in Nat
        /\ page.result = "verified" <=> VerifyProof(page.first, page.proof.path, roots[page.proof.index + 1])
    BY <1>2 DEF PageInv, ProofIsPath, ResultIsOfRead
  <2>2. page.proof.index < Len(roots') /\ roots'[page.proof.index + 1] = roots[page.proof.index + 1]
    <3>1. PICK i \in Nat : i = page.proof.index
      BY <2>1
    <3>2. i + 1 \in 1 .. Len(roots) /\ i < Len(roots')
      BY <2>1, <3>1, RootsOnlyGrow
    <3> QED BY <3>1, <3>2, RootsOnlyGrow
  <2> QED BY <2>1, <2>2 DEF ResultIsOfRead
<1> QED BY <1>1, <1>2 DEF PageInv, ResultIsOfRead

LEMMA PageInit == LotPageInit => PageInv
BY DEF LotPageInit, NoPage, PageInv, PageShape, ProofIsPath, ResultIsOfRead

LEMMA PageStep ==
  ASSUME Shape, HistoryShape, BooksInv, PageInv, [LotPageNext]_allVars
  PROVE  PageInv'
<1>0. [Next]_vars /\ RecordsShape /\ RootsOfLeaves /\ ProofsPoint
  BY StepIsAnchorings DEF BooksInv
<1>1. ASSUME NEW l \in Lot, NEW first \in Leaf, FetchLot(l, first) PROVE PageInv'
  BY <1>0, <1>1, FetchLotKeeps
<1>2. CASE FetchProof
  BY <1>0, <1>2, FetchProofKeeps
<1>3. CASE Click
  BY <1>3, ClickKeeps
<1>4. CASE Leave
  BY <1>4 DEF Leave, NoPage, PageInv, PageShape, ProofIsPath, ResultIsOfRead
<1>5. CASE UNCHANGED page
  BY <1>0, <1>5, PageStays
<1> QED
  BY <1>1, <1>2, <1>3, <1>4, <1>5 DEF LotPageNext, allVars, pageVars, Ingest, CloseAndPublish, Flag,
     AnchorAndPublish, ReconcileAndPublish, RestartStore, Unpublished

-----------------------------------------------------------------------------
(* What the page says, from the books.                                     *)
LEMMA SoleBatch ==
  ASSUME NEW i, Sole(i), NEW c \in AllClosed, NEW d \in AllClosed, c.index = i, d.index = i
  PROVE  c = d
BY DEF Sole, AllClosed

LEMMA RootsHaveDomain ==
  ASSUME Shape
  PROVE  DOMAIN roots = 1 .. Len(roots) /\ Len(roots) \in Nat
BY DEF Shape, ChainShape

LEMMA ClosedIndex ==
  ASSUME Shape, HistoryShape, CountsInv, NEW c \in AllClosed
  PROVE  c.index \in Index
<1>1. c.index \in Nat /\ c.index < Len(closed)
  BY AllClosedAre DEF CountsInv
<1>2. Len(closed) \in Nat /\ Len(pending) \in Nat
  BY LengthsAre
<1>3. Len(closed) + Len(pending) <= adds /\ adds <= MaxAdds /\ adds \in Nat /\ MaxAdds \in Nat
  BY PageAssumption DEF CountsInv
<1> QED BY <1>1, <1>2, <1>3 DEF Index

LEMMA GreenFollows ==
  ASSUME Shape, HistoryShape, BooksInv, PageInv
  PROVE  GreenMeansCommitted
<1> SUFFICES ASSUME page # NoPage, page.step = "ready", page.result = "verified"
             PROVE  \E k \in DOMAIN closed : /\ Landed(closed[k].batch, page.proof.index)
                                             /\ page.first \in ToSet(closed[k].batch.leaves)
  BY DEF GreenMeansCommitted
<1>1. /\ page.proof.index \in Nat /\ page.proof.index < Len(roots) /\ Len(page.proof.path) \in Nat
      /\ VerifyProof(page.first, page.proof.path, roots[page.proof.index + 1])
  BY DEF PageInv, ProofIsPath, ResultIsOfRead
<1>2. page.first \in Leaf
  BY DEF PageInv, PageShape, ReadyShape, LotShown, NoPage
<1>3. PICK c \in AllClosed : c.root = roots[page.proof.index + 1]
  <2>1. PICK at \in DOMAIN roots : at = page.proof.index + 1
    BY <1>1, RootsHaveDomain
  <2> QED BY <2>1 DEF BooksInv, ChainOfClosed, WasClosed
<1>4. PICK leaves \in Seq(Leaf) : leaves = c.leaves /\ Len(leaves) >= 1
  BY ClosedLeaves
<1>5. c.root = TreeRoot(leaves)
  BY <1>4 DEF BooksInv, RootsOfLeaves
<1>6. page.first \in ToSet(leaves)
  <2>1. IsLeaf(page.first) /\ \A i \in 1 .. Len(leaves) : IsLeaf(leaves[i])
    BY <1>2, PageAssumption DEF IsLeaf
  <2> QED BY <1>1, <1>3, <1>4, <1>5, <2>1, OnlyLeavesProve
<1>7. PICK k \in DOMAIN closed : c = closed[k].batch
  BY DEF AllClosed
<1> QED BY <1>1, <1>3, <1>4, <1>6, <1>7 DEF Landed, HoldsAt

LEMMA HonestFollows ==
  ASSUME Shape, HistoryShape, BooksInv, PageInv, RootsDiffer => SlotsInv
  PROVE  HonestIsGreen
<1> SUFFICES ASSUME page # NoPage, page.step = "ready", page.result \in {"verified", "failed"},
                    HonestProof, RootsDiffer, Sole(page.proof.index)
             PROVE  page.result = "verified"
  BY DEF HonestIsGreen
<1>1. PICK c \in AllClosed : page.first \in ToSet(c.leaves) /\ page.proof = ProofIn(page.first, c)
  BY DEF HonestProof, AllClosed
<1>2. /\ page.proof.index = c.index /\ c.index \in Nat
      /\ VerifyProof(page.first, page.proof.path, c.root)
  BY <1>1, HonestPath DEF BooksInv
<1>3. PICK i \in Nat : i = page.proof.index /\ i < Len(roots)
  BY <1>2 DEF PageInv, ResultIsOfRead
<1>4. PICK e \in AllClosed : e.root = roots[i + 1] /\ e.index = i
  <2>1. PICK at \in DOMAIN roots : at = i + 1 /\ at - 1 = i
    BY <1>3, RootsHaveDomain
  <2> QED BY <2>1 DEF SlotsInv
<1>5. e = c
  BY <1>2, <1>3, <1>4, SoleBatch
<1> QED BY <1>2, <1>3, <1>4, <1>5 DEF PageInv, ResultIsOfRead

LEMMA VerifiedFollows ==
  ASSUME FullInv, CountsInv, BooksInv
  PROVE  VerifiedIsCommitted
<1> SUFFICES ASSUME NEW l \in Lot, LotState(l) = "VERIFIED", Clear(l), NEW r \in RecordsForLot(l)
             PROVE  /\ batchOf[records[r].digest] # NoBatch
                    /\ Committed(batchOf[records[r].digest].root)
  BY DEF VerifiedIsCommitted, AllCommitted
<1>1. IsAnchored(records[r].digest)
  BY DEF LotState, BadgeFor
<1>2. PICK d \in Leaf : d = records[r].digest
  <2>1. records[r] \in Record
    BY DEF RecordsForLot, BooksInv, RecordsShape
  <2> QED BY <2>1 DEF Record
<1>3. PICK b \in AllClosed : b = batchOf[d] /\ b # NoBatch
  BY <1>1, <1>2 DEF IsAnchored, BooksInv, ProofsPoint
<1>4. b.index \in Index
  BY ClosedIndex DEF FullInv, AnchorInv
<1>5. anchors[b.index].status = "ANCHORED"
  BY <1>1, <1>2, <1>3 DEF IsAnchored
<1>6. PICK c \in AllClosed : c.index = b.index /\ c.root = anchors[b.index].root
  BY <1>4, <1>5 DEF BooksInv, AnchorsOfClosed, Names, Status
<1>7. c = b
  BY <1>2, <1>3, <1>6, SoleBatch DEF Clear
<1>8. Committed(anchors[b.index].root)
  BY <1>4, <1>5 DEF FullInv, AnchorInv, AnchoredIsCommitted
<1> QED BY <1>2, <1>3, <1>6, <1>7, <1>8

(* The two badges agree in whatever state of the books.                    *)
LEMMA BadgesFollow == BadgesAgree
<1> SUFFICES ASSUME NEW l \in LotsOf(records)
             PROVE  LET own == DecideVerificationStatus(l)  gateway == LotState(l)
                    IN /\ own = "UNVERIFIABLE" <=> gateway = "UNVERIFIABLE"
                       /\ own = "VERIFIED" => gateway \in {"VERIFIED", "FLAGGED"}
                       /\ gateway = "VERIFIED" => own \in {"VERIFIED", "FLAGGED"}
  BY DEF BadgesAgree
<1>1. RecordsForLot(l) # {}
  BY DEF LotsOf, RecordsForLot
<1>2. CASE \E i \in RecordsForLot(l) : records[i].broken
  BY <1>2 DEF DecideVerificationStatus, LotState, BadgeFor
<1>3. CASE /\ ~ \E i \in RecordsForLot(l) : records[i].broken
           /\ \E i \in RecordsForLot(l) : ~ IsAnchored(records[i].digest)
  BY <1>3 DEF DecideVerificationStatus, LotState, BadgeFor
<1>4. CASE /\ ~ \E i \in RecordsForLot(l) : records[i].broken
           /\ \A i \in RecordsForLot(l) : IsAnchored(records[i].digest)
  BY <1>1, <1>4 DEF DecideVerificationStatus, LotState, BadgeFor
<1> QED BY <1>2, <1>3, <1>4

-----------------------------------------------------------------------------
(* What is published.  A lot that a step does not publish keeps its badge, *)
(* or one of its records is no longer called anchored: then it was         *)
(* VERIFIED and is, by the theorem above, committed all the same.          *)
CurrentOf(l) ==
  \/ published[l] = LotState(l)
  \/ published[l] = "VERIFIED" /\ LotState(l) = "PENDING_ANCHOR" /\ AllCommitted(l)

AnchoredRecord(r) == IsAnchored(records[r].digest)

BatchOfRecord(r) == batchOf[records[r].digest]

NoneNewlyAnchored == \A d \in Leaf : IsAnchored(d)' => IsAnchored(d)

Keeps(l) ==
  /\ RecordsForLot(l)' = RecordsForLot(l)
  /\ \A r \in RecordsForLot(l) : records'[r] = records[r] /\ BatchOfRecord(r)' = BatchOfRecord(r)
  /\ \A r \in RecordsForLot(l) : AnchoredRecord(r)' => AnchoredRecord(r)
  /\ l \in flaggedLots' <=> l \in flaggedLots
  /\ published'[l] = published[l]

LEMMA SoleBefore ==
  ASSUME Shape, HistoryShape, [Next]_vars, NEW index, Sole(index)'
  PROVE  Sole(index)
<1>1. CASE UNCHANGED closed
  BY <1>1 DEF Sole
<1>2. ASSUME NEW leaves, Closing(leaves) PROVE Sole(index)
  <2>1. /\ Len(closed') = Len(closed) + 1 /\ \A i \in 1 .. Len(closed) : closed'[i] = closed[i]
    BY <1>2, ClosingAdds
  <2>2. DOMAIN closed' = 1 .. Len(closed')
    BY <1>2, ClosingAdds
  <2>3. DOMAIN closed = 1 .. Len(closed) /\ Len(closed) \in Nat
    BY DEF HistoryShape
  <2> QED BY <2>1, <2>2, <2>3 DEF Sole
<1> QED BY <1>1, <1>2, ClosedBy

LEMMA RecordLeaf ==
  ASSUME RecordsShape, NEW l, NEW r \in RecordsForLot(l)
  PROVE  records[r].digest \in Leaf
<1>1. records[r] \in Record
  BY DEF RecordsForLot, RecordsShape
<1> QED BY <1>1 DEF Record

LEMMA StateOf ==
  ASSUME NEW l
  PROVE  LotState(l) = IF \E r \in RecordsForLot(l) : records[r].broken THEN "UNVERIFIABLE"
                       ELSE IF l \in flaggedLots THEN "FLAGGED"
                       ELSE IF RecordsForLot(l) # {} /\ \A r \in RecordsForLot(l) : AnchoredRecord(r)
                            THEN "VERIFIED" ELSE "PENDING_ANCHOR"
BY DEF LotState, BadgeFor, AnchoredRecord

LEMMA KeptIsCurrent ==
  ASSUME Shape, HistoryShape, [Next]_vars, VerifiedIsCommitted, LiveIsCurrent,
         NEW l \in Lot, RecordsForLot(l) # {}, Keeps(l), Clear(l)'
  PROVE  CurrentOf(l)'
<1> DEFINE R == RecordsForLot(l)
           before == LotState(l)
           after == LotState(l)'
<1>1. /\ R' = R /\ R # {} /\ (l \in flaggedLots' <=> l \in flaggedLots) /\ published'[l] = published[l]
      /\ \A r \in R : records'[r] = records[r] /\ BatchOfRecord(r)' = BatchOfRecord(r)
      /\ \A r \in R : AnchoredRecord(r)' => AnchoredRecord(r)
  BY DEF Keeps
<1>2. Clear(l)
  <2> SUFFICES ASSUME NEW r \in R, BatchOfRecord(r) # NoBatch PROVE Sole(BatchOfRecord(r).index)
    BY DEF Clear, BatchOfRecord
  <2>1. PICK i : i = BatchOfRecord(r).index
    OBVIOUS
  <2>2. Sole(i)'
    BY <1>1, <2>1 DEF Clear, BatchOfRecord, Sole
  <2> QED BY <2>1, <2>2, SoleBefore
<1>3. AllCommitted(l) => AllCommitted(l)'
  <2> SUFFICES ASSUME AllCommitted(l), NEW r \in R
               PROVE  BatchOfRecord(r) # NoBatch /\ Committed(BatchOfRecord(r).root)'
    BY <1>1 DEF AllCommitted, BatchOfRecord, Committed
  <2>1. PICK root : root = BatchOfRecord(r).root
    OBVIOUS
  <2>2. BatchOfRecord(r) # NoBatch /\ Committed(root)
    BY <2>1 DEF AllCommitted, BatchOfRecord
  <2>3. Committed(root)'
    BY <2>2, RootsGrow DEF Committed, Shape
  <2> QED BY <1>1, <2>1, <2>2, <2>3 DEF Committed
<1>4. before = IF \E r \in R : records[r].broken THEN "UNVERIFIABLE"
               ELSE IF l \in flaggedLots THEN "FLAGGED"
               ELSE IF \A r \in R : AnchoredRecord(r) THEN "VERIFIED" ELSE "PENDING_ANCHOR"
  BY <1>1, StateOf
<1>5. after = IF \E r \in R : records[r].broken THEN "UNVERIFIABLE"
              ELSE IF l \in flaggedLots THEN "FLAGGED"
              ELSE IF \A r \in R : AnchoredRecord(r)' THEN "VERIFIED" ELSE "PENDING_ANCHOR"
  <2>1. after = IF \E r \in R' : records'[r].broken THEN "UNVERIFIABLE"
                ELSE IF l \in flaggedLots' THEN "FLAGGED"
                ELSE IF R' # {} /\ \A r \in R' : AnchoredRecord(r)' THEN "VERIFIED"
                ELSE "PENDING_ANCHOR"
    BY DEF LotState, BadgeFor, AnchoredRecord
  <2> HIDE DEF R, after
  <2> QED BY <1>1, <2>1
<1>6. published[l] = before \/ (published[l] = "VERIFIED" /\ before = "PENDING_ANCHOR" /\ AllCommitted(l))
  <2>1. l \in LotsOf(records)
    BY <1>1 DEF LotsOf, RecordsForLot
  <2> QED BY <1>2, <2>1 DEF LiveIsCurrent
<1>7. before = "VERIFIED" => AllCommitted(l)
  BY <1>2 DEF VerifiedIsCommitted
<1> HIDE DEF R, before, after
<1>8. after = before \/ (before = "VERIFIED" /\ after = "PENDING_ANCHOR")
  BY <1>1, <1>4, <1>5
<1> QED BY <1>1, <1>3, <1>6, <1>7, <1>8 DEF CurrentOf, before, after

LEMMA QuietKeeps ==
  ASSUME RecordsShape, UNCHANGED <<records, flaggedLots, published, batchOf>>, NoneNewlyAnchored,
         NEW l \in Lot
  PROVE  Keeps(l)
<1>1. \A r \in RecordsForLot(l) : records[r].digest \in Leaf
  BY RecordLeaf
<1>2. RecordsForLot(l)' = RecordsForLot(l)
  BY DEF RecordsForLot
<1>3. \A r \in RecordsForLot(l) : AnchoredRecord(r)' => AnchoredRecord(r)
  BY <1>1 DEF AnchoredRecord, NoneNewlyAnchored, IsAnchored
<1> QED BY <1>2, <1>3 DEF Keeps, BatchOfRecord

(* Written anew with anything but ANCHORED, or not written, a record of    *)
(* the state file makes nothing anchored.                                  *)
LEMMA RewriteAnchorsNothing ==
  ASSUME Shape, HistoryShape, CountsInv, ProofsPoint, UNCHANGED batchOf,
         \/ UNCHANGED anchors
         \/ \E x, record : anchors' = [anchors EXCEPT ![x] = record] /\ anchors'[x].status # "ANCHORED"
  PROVE  NoneNewlyAnchored
<1> SUFFICES ASSUME NEW d \in Leaf, IsAnchored(d)' PROVE IsAnchored(d)
  BY DEF NoneNewlyAnchored
<1>1. PICK b \in AllClosed : b = batchOf[d] /\ b # NoBatch
  BY DEF IsAnchored, ProofsPoint
<1>2. b.index \in Index /\ anchors'[b.index].status = "ANCHORED"
  BY <1>1, ClosedIndex DEF IsAnchored
<1>3. anchors'[b.index] = anchors[b.index]
  <2>1. anchors \in [Index -> {NoRecord} \cup [status : Status, root : Root]]
    BY DEF Shape, ServiceShape
  <2> QED BY <1>2, <2>1
<1> QED BY <1>1, <1>2, <1>3 DEF IsAnchored

(* What a step publishes is current; so is the rest, if it keeps it.       *)
LEMMA PublishedIsCurrent ==
  ASSUME NEW lots, PublishLots(lots), NEW l \in Lot, l \in lots
  PROVE  CurrentOf(l)'
BY DEF PublishLots, CurrentOf

LEMMA LotsAreLots ==
  ASSUME NEW rs \in Seq(Record), NEW l \in LotsOf(rs)
  PROVE  l \in Lot /\ \E i \in DOMAIN rs : LotOf[rs[i].digest] = l
<1>1. PICK i \in DOMAIN rs : LotOf[rs[i].digest] = l
  BY DEF LotsOf
<1>2. rs[i] \in Record
  OBVIOUS
<1> QED BY <1>1, <1>2, PageAssumption DEF Record

LEMMA LotsHaveRecords ==
  ASSUME RecordsShape, NEW l \in LotsOf(records)
  PROVE  l \in Lot /\ RecordsForLot(l) # {}
BY LotsAreLots DEF RecordsShape, RecordsForLot

LEMMA IngestIsLive ==
  ASSUME RecordsShape, RecordsShape', NEW d \in Leaf, NEW broken \in BOOLEAN, NEW found \in BOOLEAN,
         Ingest(d, broken, found), Shape, NEW l \in LotsOf(records')
  PROVE  CurrentOf(l)' \/ (Keeps(l) /\ RecordsForLot(l) # {})
<1> DEFINE rec == [digest |-> d, broken |-> broken]
<1>0. l \in Lot /\ \E i \in DOMAIN records' : LotOf[records'[i].digest] = l
  BY LotsAreLots DEF RecordsShape
<1>1. /\ records' = Append(records, rec) /\ Add(d)
      /\ PublishLots(IF pending' = <<>> THEN LotsOf(records') ELSE {LotOf[d]})
      /\ flaggedLots' = IF found THEN flaggedLots \cup {LotOf[d]} ELSE flaggedLots
  BY DEF Ingest
<1>2. CASE pending' = <<>> \/ l = LotOf[d]
  <2>1. CASE pending' = <<>>
    <3>1. PublishLots(LotsOf(records'))
      BY <1>1, <2>1
    <3> QED BY <1>0, <3>1, PublishedIsCurrent
  <2>2. CASE pending' # <<>> /\ l = LotOf[d]
    <3>1. PublishLots({LotOf[d]})
      BY <1>1, <2>2
    <3> QED BY <1>0, <2>2, <3>1, PublishedIsCurrent
  <2> QED BY <1>2, <2>1, <2>2
<1>3. CASE pending' # <<>> /\ l # LotOf[d]
  <2>1. UNCHANGED <<batchOf, anchors>>
    BY <1>1, <1>3 DEF Add, CloseWith, serviceVars
  <2>2. published'[l] = published[l]
    BY <1>0, <1>1, <1>3 DEF PublishLots
  <2>3. rec \in Record /\ records \in Seq(Record) /\ rec.digest = d
    BY DEF Record, RecordsShape
  <2> HIDE DEF rec
  <2>4. /\ DOMAIN records' = DOMAIN records \cup {Len(records) + 1}
        /\ \A r \in DOMAIN records : records'[r] = records[r]
        /\ records'[Len(records) + 1] = rec /\ Len(records) + 1 \notin DOMAIN records
    BY <1>1, <2>3
  <2>5. RecordsForLot(l)' = RecordsForLot(l)
    BY <1>3, <2>3, <2>4 DEF RecordsForLot
  <2>6. \A r \in RecordsForLot(l) : records'[r] = records[r]
    BY <2>4 DEF RecordsForLot
  <2>7. /\ \A r \in RecordsForLot(l) : BatchOfRecord(r)' = BatchOfRecord(r)
        /\ \A r \in RecordsForLot(l) : AnchoredRecord(r)' => AnchoredRecord(r)
    BY <2>1, <2>6 DEF BatchOfRecord, AnchoredRecord, IsAnchored
  <2>8. l \in flaggedLots' <=> l \in flaggedLots
    BY <1>1, <1>3
  <2>9. Keeps(l)
    BY <2>2, <2>5, <2>6, <2>7, <2>8 DEF Keeps
  <2>10. RecordsForLot(l)' # {}
    BY <1>0 DEF RecordsForLot
  <2> QED BY <2>5, <2>9, <2>10
<1> QED BY <1>2, <1>3

(* An answer of the chain, to anchorOne or to reconcile().                 *)
LEMMA AnswerIsLive ==
  ASSUME RecordsShape, Shape, HistoryShape, CountsInv, ProofsPoint, NEW x, NEW record,
         anchors' = [anchors EXCEPT ![x] = record], x \in Index, PublishAnchor(x),
         UNCHANGED <<records, flaggedLots, batchOf>>, NEW l \in LotsOf(records)
  PROVE  CurrentOf(l)' \/ (Keeps(l) /\ RecordsForLot(l) # {})
<1>0. l \in Lot /\ RecordsForLot(l) # {}
  BY LotsHaveRecords
<1>1. CASE anchors'[x].status = "ANCHORED"
  <2>1. PublishLots(LotsOf(records))
    BY <1>1 DEF PublishAnchor, LotsToPublish
  <2> QED BY <1>0, <2>1, PublishedIsCurrent
<1>2. CASE anchors'[x].status # "ANCHORED"
  <2>1. PublishLots({})
    BY <1>2 DEF PublishAnchor
  <2>2. published'[l] = published[l]
    BY <1>0, <2>1 DEF PublishLots
  <2>3. NoneNewlyAnchored
    BY <1>2, RewriteAnchorsNothing
  <2>4. Keeps(l)
    <3>1. \A r \in RecordsForLot(l) : records[r].digest \in Leaf
      BY RecordLeaf
    <3>2. RecordsForLot(l)' = RecordsForLot(l)
      BY DEF RecordsForLot
    <3>3. \A r \in RecordsForLot(l) : AnchoredRecord(r)' => AnchoredRecord(r)
      BY <2>3, <3>1 DEF AnchoredRecord, NoneNewlyAnchored, IsAnchored
    <3> QED BY <2>2, <3>2, <3>3 DEF Keeps, BatchOfRecord
  <2> QED BY <1>0, <2>4
<1> QED BY <1>1, <1>2

LEMMA QuietIsLive ==
  ASSUME RecordsShape, UNCHANGED <<records, flaggedLots, published, batchOf>>, NoneNewlyAnchored,
         NEW l \in LotsOf(records)
  PROVE  Keeps(l) /\ RecordsForLot(l) # {}
BY LotsHaveRecords, QuietKeeps

LEMMA AnchorAndPublishIsLive ==
  ASSUME RecordsShape, Shape, HistoryShape, CountsInv, ProofsPoint, FromClosed, AnchorAndPublish,
         NEW l \in LotsOf(records)
  PROVE  CurrentOf(l)' \/ (Keeps(l) /\ RecordsForLot(l) # {})
<1>0. /\ ReadCount \/ ReadReceipt
      /\ job # Idle /\ UNCHANGED <<records, flaggedLots, batchOf>>
      /\ IF job' = Idle THEN PublishAnchor(job.batch.index) ELSE UNCHANGED published
  BY DEF AnchorAndPublish, ReadCount, ReadReceipt, batcherVars, Idle
<1>1. (\E status : Settle(status)) \/ (job' # Idle /\ UNCHANGED anchors)
  <2>1. job \in [step : JobStep, batch : AnyBatch]
    BY <1>0 DEF Shape, ServiceShape
  <2> QED BY <1>0, <2>1 DEF ReadCount, ReadReceipt, Idle
<1>2. ASSUME NEW status, Settle(status)
      PROVE  CurrentOf(l)' \/ (Keeps(l) /\ RecordsForLot(l) # {})
  <2>1. PICK x, record : /\ x = job.batch.index
                         /\ anchors' = [anchors EXCEPT ![x] = record]
    BY <1>2 DEF Settle
  <2>2. x \in Index
    BY <1>0, <2>1, ClosedIndex DEF FromClosed
  <2>3. PublishAnchor(x)
    BY <1>0, <1>2, <2>1 DEF Settle
  <2> QED BY <1>0, <2>1, <2>2, <2>3, AnswerIsLive
<1>3. ASSUME job' # Idle, UNCHANGED anchors
      PROVE  Keeps(l) /\ RecordsForLot(l) # {}
  <2>1. NoneNewlyAnchored
    BY <1>0, <1>3 DEF NoneNewlyAnchored, IsAnchored
  <2> QED BY <1>0, <1>3, <2>1, QuietIsLive
<1> QED BY <1>1, <1>2, <1>3

LEMMA ReconcileAndPublishIsLive ==
  ASSUME RecordsShape, Shape, HistoryShape, CountsInv, ProofsPoint, ReconcileAndPublish,
         NEW l \in LotsOf(records)
  PROVE  CurrentOf(l)' \/ (Keeps(l) /\ RecordsForLot(l) # {})
<1>0. UNCHANGED <<records, flaggedLots, batchOf>> /\ reconciling # Idle
  BY DEF ReconcileAndPublish, ReconcileOne, batcherVars, Idle
<1>1. PICK r \in reconciling.todo :
        /\ \A q \in reconciling.todo : r.index <= q.index
        /\ anchors' = [anchors EXCEPT ![r.index] =
                         [status |-> Outcome(r.index, r.root), root |-> r.root]]
  BY DEF ReconcileAndPublish, ReconcileOne
<1>2. PICK p \in reconciling.todo : (\A q \in reconciling.todo : p.index <= q.index) /\ PublishAnchor(p.index)
  BY DEF ReconcileAndPublish
<1>3. r.index \in Index /\ p.index \in Index
  BY <1>0 DEF Shape, ServiceShape, Doubt
<1>4. p.index = r.index
  <2>1. p.index <= r.index /\ r.index <= p.index
    BY <1>1, <1>2
  <2> QED BY <1>3, <2>1 DEF Index
<1>5. PublishAnchor(r.index)
  BY <1>2, <1>4
<1> QED BY <1>0, <1>1, <1>3, <1>5, AnswerIsLive

LEMMA UnpublishedIsLive ==
  ASSUME RecordsShape, Shape, HistoryShape, CountsInv, ProofsPoint, FromClosed, Unpublished,
         NEW l \in LotsOf(records)
  PROVE  Keeps(l) /\ RecordsForLot(l) # {}
<1>1. /\ UNCHANGED <<records, flaggedLots, published, batchOf>>
      /\ \/ UNCHANGED anchors
         \/ \E x, record : anchors' = [anchors EXCEPT ![x] = record] /\ record.status # "ANCHORED" /\ x \in Index
  <2>0. UNCHANGED <<records, flaggedLots, published, batchOf>>
    BY DEF Unpublished, pageVars, batcherVars, BeginAnchor, SendAnchor, Mine, RpcError,
       BeginReconcile, ReconcileCount, ReconcileError, BootReconciled, BootCount, BootRoot, BootError
  <2>1. CASE BeginAnchor
    <3> DEFINE record == [status |-> "PENDING", root |-> Head(queue).root]
    <3>1. anchors' = [anchors EXCEPT ![Head(queue).index] = record] /\ record.status = "PENDING"
      BY <2>1 DEF BeginAnchor
    <3> HIDE DEF record
    <3>2. Head(queue) = queue[1] /\ 1 \in DOMAIN queue
      BY <2>1 DEF BeginAnchor, Shape, BatcherShape
    <3>3. Head(queue).index \in Index
      BY <3>2, ClosedIndex DEF FromClosed
    <3> QED BY <2>0, <3>1, <3>3
  <2>2. CASE RpcError
    <3> DEFINE record == [status |-> "PENDING", root |-> job.batch.root]
    <3>1. anchors' = [anchors EXCEPT ![job.batch.index] = record] /\ record.status = "PENDING"
      BY <2>2 DEF RpcError, Settle
    <3> HIDE DEF record
    <3>2. job.batch.index \in Index
      BY <2>2, ClosedIndex DEF RpcError, FromClosed
    <3> QED BY <2>0, <3>1, <3>2
  <2> QED
    BY <2>0, <2>1, <2>2 DEF Unpublished, serviceVars, SendAnchor, Mine, BeginReconcile,
       ReconcileCount, ReconcileError, BootReconciled, BootCount, BootRoot, BootError
<1>2. NoneNewlyAnchored
  <2>1. anchors \in [Index -> {NoRecord} \cup [status : Status, root : Root]]
    BY DEF Shape, ServiceShape
  <2>2. ASSUME NEW x, NEW record, anchors' = [anchors EXCEPT ![x] = record],
               record.status # "ANCHORED", x \in Index
        PROVE  anchors'[x].status # "ANCHORED"
    BY <2>1, <2>2
  <2> QED BY <1>1, <2>2, RewriteAnchorsNothing
<1> QED BY <1>1, <1>2, QuietIsLive

LEMMA FlagIsLive ==
  ASSUME RecordsShape, NEW f \in Lot, Flag(f), NEW l \in LotsOf(records)
  PROVE  CurrentOf(l)' \/ (Keeps(l) /\ RecordsForLot(l) # {})
<1>0. l \in Lot /\ RecordsForLot(l) # {}
  BY LotsHaveRecords
<1>1. /\ PublishLots({f}) /\ UNCHANGED <<records, batchOf, anchors>>
      /\ flaggedLots' = flaggedLots \cup {f}
  BY DEF Flag, vars, batcherVars, serviceVars
<1>2. CASE l = f
  BY <1>0, <1>1, <1>2, PublishedIsCurrent
<1>3. CASE l # f
  <2>1. published'[l] = published[l] /\ (l \in flaggedLots' <=> l \in flaggedLots)
    BY <1>0, <1>1, <1>3 DEF PublishLots
  <2> QED BY <1>0, <1>1, <2>1 DEF Keeps, RecordsForLot, BatchOfRecord, AnchoredRecord, IsAnchored
<1> QED BY <1>2, <1>3

LEMMA PublishedStep ==
  ASSUME FullInv, CountsInv, BooksInv, LiveIsCurrent, [LotPageNext]_allVars
  PROVE  LiveIsCurrent'
<1>0. /\ [Next]_vars /\ Shape /\ HistoryShape /\ FromClosed /\ RecordsShape /\ ProofsPoint
      /\ VerifiedIsCommitted
  BY StepIsAnchorings, VerifiedFollows DEF FullInv, AnchorInv, BooksInv
<1>1. RecordsShape'
  BY <1>0, RecordsShapeStep
<1> SUFFICES ASSUME NEW l \in LotsOf(records'), Clear(l)' PROVE CurrentOf(l)'
  BY DEF LiveIsCurrent, CurrentOf, LotsOf
<1>2. l \in Lot
  BY <1>1, LotsAreLots DEF RecordsShape
<1>3. ASSUME Keeps(l), RecordsForLot(l) # {} PROVE CurrentOf(l)'
  BY <1>0, <1>2, <1>3, KeptIsCurrent
<1>4. ASSUME NEW d \in Leaf, NEW broken \in BOOLEAN, NEW found \in BOOLEAN, Ingest(d, broken, found)
      PROVE  CurrentOf(l)'
  BY <1>0, <1>1, <1>3, <1>4, IngestIsLive
<1>5. CASE CloseAndPublish
  <2>1. PublishLots(LotsOf(records)) /\ l \in LotsOf(records)
    BY <1>5 DEF CloseAndPublish
  <2> QED BY <1>2, <2>1, PublishedIsCurrent
<1>6. CASE AnchorAndPublish
  <2>1. l \in LotsOf(records)
    BY <1>6 DEF AnchorAndPublish
  <2> QED BY <1>0, <1>3, <1>6, <2>1, AnchorAndPublishIsLive
<1>7. CASE ReconcileAndPublish
  <2>1. l \in LotsOf(records)
    BY <1>7 DEF ReconcileAndPublish
  <2> QED BY <1>0, <1>3, <1>7, <2>1, ReconcileAndPublishIsLive
<1>8. CASE RestartStore
  <2>1. LotsOf(records') = {}
    BY <1>8 DEF RestartStore, LotsOf
  <2> QED BY <2>1
<1>9. CASE Unpublished
  <2>1. l \in LotsOf(records)
    BY <1>9 DEF Unpublished, pageVars
  <2> QED BY <1>0, <1>3, <1>9, <2>1, UnpublishedIsLive
<1>10. ASSUME NEW f \in Lot, Flag(f) PROVE CurrentOf(l)'
  <2>1. l \in LotsOf(records)
    BY <1>10 DEF Flag
  <2> QED BY <1>0, <1>3, <1>10, <2>1, FlagIsLive
<1>11. CASE UNCHANGED <<vars, records, flaggedLots, published>>
  <2>1. /\ l \in LotsOf(records) /\ UNCHANGED <<records, flaggedLots, published, batchOf>>
        /\ NoneNewlyAnchored
    BY <1>11 DEF vars, batcherVars, serviceVars, NoneNewlyAnchored, IsAnchored
  <2> QED BY <1>0, <1>3, <2>1, QuietIsLive
<1>12. CASE FetchProof \/ Click \/ Leave \/ (\E f \in Lot, first \in Leaf : FetchLot(f, first))
  <2>1. UNCHANGED <<vars, records, flaggedLots, published>>
    BY <1>12 DEF FetchLot, FetchProof, Click, Leave
  <2> QED BY <1>11, <2>1
<1>13. CASE UNCHANGED allVars
  BY <1>11, <1>13 DEF allVars, pageVars
<1>14. \/ \E d \in Leaf, broken, found \in BOOLEAN : Ingest(d, broken, found)
       \/ CloseAndPublish \/ AnchorAndPublish \/ ReconcileAndPublish \/ RestartStore \/ Unpublished
       \/ \E f \in Lot : Flag(f)
       \/ \E f \in Lot, first \in Leaf : FetchLot(f, first)
       \/ FetchProof \/ Click \/ Leave \/ UNCHANGED allVars
  BY DEF LotPageNext
<1> QED BY <1>4, <1>5, <1>6, <1>7, <1>8, <1>9, <1>10, <1>12, <1>13, <1>14

-----------------------------------------------------------------------------
LotPageInv == FullInv /\ CountsInv /\ BooksInv /\ PageInv /\ LiveIsCurrent

LEMMA LotPageInvAlways == LotPageSpec => []LotPageInv
<1>1. LotPageInit => LotPageInv
  <2> SUFFICES ASSUME LotPageInit PROVE LotPageInv
    OBVIOUS
  <2>1. Init
    BY DEF LotPageInit
  <2>2. LiveIsCurrent
    BY DEF LotPageInit, LiveIsCurrent, LotsOf
  <2> QED BY <2>1, <2>2, FullInit, CountsInit, BooksInit, PageInit DEF LotPageInv
<1>2. LotPageInv /\ [LotPageNext]_allVars => LotPageInv'
  <2> SUFFICES ASSUME LotPageInv, [LotPageNext]_allVars PROVE LotPageInv'
    OBVIOUS
  <2>1. /\ [Next]_vars /\ FullInv /\ CountsInv /\ BooksInv /\ PageInv /\ LiveIsCurrent
        /\ Shape /\ HistoryShape /\ FromClosed
    BY StepIsAnchorings DEF LotPageInv, FullInv, AnchorInv
  <2>2. FullInv'
    BY <2>1, FullStep
  <2>3. CountsInv' /\ BooksInv'
    BY <2>1, CountsStep, BooksStep
  <2>4. PageInv'
    BY <2>1, PageStep
  <2>5. LiveIsCurrent'
    BY <2>1, PublishedStep
  <2> QED BY <2>2, <2>3, <2>4, <2>5 DEF LotPageInv
<1> QED BY <1>1, <1>2, PTL DEF LotPageSpec

(* Whatever index and path the gateway, or anybody in between, hands to    *)
(* the page, and whichever records it shows: "the LOCALLY RECOMPUTED leaf" *)
(* (VerifyPanel.tsx:140) that is called verified is in a batch whose root  *)
(* the contract holds there.                                               *)
THEOREM GreenMeansCommittedAlways == LotPageSpec => []GreenMeansCommitted
<1>1. LotPageInv => GreenMeansCommitted
  BY GreenFollows DEF LotPageInv, FullInv, AnchorInv
<1> QED BY <1>1, LotPageInvAlways, PTL

(* And no honest proof is refused once the root is there, for batches of   *)
(* every size, unless an index was offered twice or two roots are equal.   *)
THEOREM HonestIsGreenAlways == LotPageSpec => []HonestIsGreen
<1>1. LotPageInv => HonestIsGreen
  BY HonestFollows DEF LotPageInv, FullInv, AnchorInv
<1> QED BY <1>1, LotPageInvAlways, PTL

(* The page and the gateway never disagree about the same records, flags   *)
(* aside.                                                                  *)
THEOREM BadgesAgreeAlways == LotPageSpec => []BadgesAgree
BY BadgesFollow, PTL

(* "It must mean the anchor transaction CONFIRMED" (store.ts:302): every   *)
(* record of a VERIFIED lot is committed, over restarts, timeouts and      *)
(* retries, where no index was offered twice.                              *)
THEOREM VerifiedIsCommittedAlways == LotPageSpec => []VerifiedIsCommitted
<1>1. LotPageInv => VerifiedIsCommitted
  BY VerifiedFollows DEF LotPageInv
<1> QED BY <1>1, LotPageInvAlways, PTL

(* What the broker retains of a lot is what the gateway would say of it,   *)
(* or a VERIFIED that is still true.                                       *)
THEOREM LiveIsCurrentAlways == LotPageSpec => []LiveIsCurrent
<1>1. LotPageInv => LiveIsCurrent
  BY DEF LotPageInv
<1> QED BY <1>1, LotPageInvAlways, PTL
=============================================================================
