----------------------------- MODULE LotRegistry -----------------------------
(***************************************************************************)
(* contracts/contracts/LotRegistry.sol: the life of a lot of produce on    *)
(* chain.  A transaction is one action: the contract either performs all   *)
(* of it or reverts, and a revert is the action not being enabled.         *)
(*                                                                         *)
(* Left out: gtin, geohash, timestamps and events, which no guard reads,   *)
(* and the order of a children array.  _flagCount is kept as the set of    *)
(* lots whose count is not 0.                                              *)
(***************************************************************************)
EXTENDS ActorRegistry, FiniteSets, Naturals

CONSTANTS LotId,          \* values of bytes16 in use, the zero value included
          ZeroLot,        \* bytes16(0): "no parent" to the contract
          NoAddress,      \* address(0): the custodian of a lot not yet opened
          MaxSignatures   \* bound: handoff signatures made in a behaviour

ASSUME LotIdAssumption == ZeroLot \in LotId
ASSUME AddressAssumption == NoAddress \notin Address
ASSUME SignatureBound == MaxSignatures \in Nat

VARIABLES lotState,       \* LotId -> lifecycle state of _lots[id]
          creator,        \* LotId -> who opened the lot
          custodian,      \* LotId -> who holds it
          parent,         \* LotId -> the lot it was rolled into, ZeroLot if none
          children,       \* LotId -> _children[id]
          flagged,        \* LotId -> the flag a verifier shows
          reported,       \* the lots flagLot was called on
          signatures      \* <<lot, from, to>>: handoffs the receiver has signed

lotVars == <<lotState, creator, custodian, parent, children, flagged, reported>>
vars == <<actorStatus, lotVars, signatures>>

LotState == {"NONE", "CREATED", "AGGREGATED", "IN_TRANSIT", "FINALIZED"}

Exists(l) == lotState[l] # "NONE"

TypeOK ==
  /\ ActorTypeOK
  /\ lotState \in [LotId -> LotState]
  /\ creator \in [LotId -> Address \cup {NoAddress}]
  /\ custodian \in [LotId -> Address \cup {NoAddress}]
  /\ \A l \in LotId : Exists(l) => creator[l] \in Address /\ custodian[l] \in Address
  /\ parent \in [LotId -> LotId]
  /\ children \in [LotId -> SUBSET LotId]
  /\ flagged \in [LotId -> BOOLEAN]
  /\ reported \in SUBSET LotId
  /\ signatures \in SUBSET (LotId \X Address \X Address)

Init ==
  /\ ActorInit
  /\ lotState = [l \in LotId |-> "NONE"]
  /\ creator = [l \in LotId |-> NoAddress]
  /\ custodian = [l \in LotId |-> NoAddress]
  /\ parent = [l \in LotId |-> ZeroLot]
  /\ children = [l \in LotId |-> {}]
  /\ flagged = [l \in LotId |-> FALSE]
  /\ reported = {}
  /\ signatures = {}

CreateLot(sender, l) ==
  /\ IsActive(sender)
  /\ ~Exists(l)
  /\ lotState' = [lotState EXCEPT ![l] = "CREATED"]
  /\ creator' = [creator EXCEPT ![l] = sender]
  /\ custodian' = [custodian EXCEPT ![l] = sender]
  /\ parent' = [parent EXCEPT ![l] = ZeroLot]
  /\ flagged' = [flagged EXCEPT ![l] = FALSE]
  /\ UNCHANGED <<actorStatus, children, reported, signatures>>

MayAdoptAny(c) == Exists(c)                   \* variant: ChildAlreadyAggregated dropped

MayAdopt(c) == Exists(c) /\ parent[c] = ZeroLot

TaintIgnored(p, kids) == flagged[p]           \* variant: children's flags not read

TaintAssigned(p, kids) == \E c \in kids : flagged[c]    \* variant: flag overwritten

Tainted(p, kids) == flagged[p] \/ \E c \in kids : flagged[c]

(* The loop over the children array: every element is checked before it    *)
(* is linked, so the array is refused as a whole if one element is.        *)
Aggregate(sender, p, kids) ==
  /\ IsActive(sender)
  /\ Exists(p)
  /\ custodian[p] = sender
  /\ kids # {}
  /\ \A c \in kids : MayAdopt(c)
  /\ parent' = [c \in LotId |-> IF c \in kids THEN p ELSE parent[c]]
  /\ children' = [children EXCEPT ![p] = @ \cup kids]
  /\ flagged' = [flagged EXCEPT ![p] = Tainted(p, kids)]
  /\ lotState' = [lotState EXCEPT ![p] = "AGGREGATED"]
  /\ UNCHANGED <<actorStatus, creator, custodian, reported, signatures>>

SignedByAnyone(l, from, to) == \E x \in Address : <<l, from, x>> \in signatures  \* variant

Countersigned(l, from, to) == <<l, from, to>> \in signatures

TransferCustody(sender, l, to) ==
  /\ IsActive(sender)
  /\ lotState[l] \notin {"NONE", "FINALIZED"}
  /\ custodian[l] = sender
  /\ Countersigned(l, sender, to)
  /\ custodian' = [custodian EXCEPT ![l] = to]
  /\ lotState' = [lotState EXCEPT ![l] = "IN_TRANSIT"]
  /\ UNCHANGED <<actorStatus, creator, parent, children, flagged, reported, signatures>>

(* The lots the loop of flagLot visits: the least set that holds l's       *)
(* parent and, with every lot but the zero one, that lot's parent.  The    *)
(* loop ends when it reaches the zero lot; on a cycle it never does, the   *)
(* transaction runs out of gas and reverts.                                *)
ClosedUpward(S) == \A x \in S \ {ZeroLot} : parent[x] \in S

TaintsDownward(l) == children[l] \cup {ZeroLot}      \* variant: wrong direction

AncestorChain(l) ==
  {a \in LotId : \A S \in SUBSET LotId : parent[l] \in S /\ ClosedUpward(S) => a \in S}

FlagLot(sender, l) ==
  /\ IsActive(sender)
  /\ Exists(l)
  /\ ZeroLot \in AncestorChain(l)
  /\ flagged' = [x \in LotId |->
       flagged[x] \/ x = l \/ (x # ZeroLot /\ x \in AncestorChain(l))]
  /\ reported' = reported \cup {l}
  /\ UNCHANGED <<actorStatus, lotState, creator, custodian, parent, children, signatures>>

Finalize(sender, l) ==
  /\ IsActive(sender)
  /\ lotState[l] \notin {"NONE", "FINALIZED"}
  /\ custodian[l] = sender
  /\ lotState' = [lotState EXCEPT ![l] = "FINALIZED"]
  /\ UNCHANGED <<actorStatus, creator, custodian, parent, children, flagged, reported, signatures>>

(* The receiver's wallet signs a handoff; the contract learns of it when   *)
(* the sender submits it.  Signing needs no registration.                  *)
SignHandoff(l, from, to) ==
  /\ Cardinality(signatures) < MaxSignatures
  /\ signatures' = signatures \cup {<<l, from, to>>}
  /\ UNCHANGED <<actorStatus, lotVars>>

Register(a) == RegisterActor(a) /\ UNCHANGED <<lotVars, signatures>>
Revoke(a) == RevokeActor(a) /\ UNCHANGED <<lotVars, signatures>>

Next ==
  \/ \E a \in Address : Register(a) \/ Revoke(a)
  \/ \E s \in Address, l \in LotId :
       CreateLot(s, l) \/ FlagLot(s, l) \/ Finalize(s, l)
  \/ \E s \in Address, p \in LotId, kids \in SUBSET LotId : Aggregate(s, p, kids)
  \/ \E s, to \in Address, l \in LotId : TransferCustody(s, l, to) \/ SignHandoff(l, s, to)

Spec == Init /\ [][Next]_vars

-----------------------------------------------------------------------------
(* Both directions of the aggregation graph agree, so that a recall walked *)
(* down from a shipment and one walked up from a crate find the same lots: *)
(* a lot is among the children of p exactly when its parent is p.  (The    *)
(* zero lot, which anyone may open, is no lot's parent in that sense.)     *)
FamilyConsistent ==
  \A p \in LotId \ {ZeroLot}, c \in LotId : c \in children[p] <=> parent[c] = p

(* The lots rolled into l, directly or not, l included.                    *)
ClosedDownward(S) == \A x \in S : children[x] \subseteq S

RolledInto(l) ==
  {d \in LotId : \A S \in SUBSET LotId : l \in S /\ ClosedDownward(S) => d \in S}

(* No lot is condemned without evidence: every flagged lot was reported    *)
(* itself, or a lot rolled into it was.                                    *)
FlagIsTraceable ==
  \A l \in LotId : flagged[l] => \E d \in RolledInto(l) : d \in reported

(* Whatever the order of reports and aggregations, the lot that a reported *)
(* lot was rolled into is flagged.                                         *)
ReportedTaintsParent ==
  \A l \in reported : parent[l] # ZeroLot => flagged[parent[l]]

(* Nobody holds a lot without having opened it or signed for it.           *)
NoUnsolicitedCustody ==
  \A l \in LotId : Exists(l) =>
    \/ custodian[l] = creator[l]
    \/ \E from \in Address : <<l, from, custodian[l]>> \in signatures

(* Flags, reports and parents, once recorded, are never cleared or         *)
(* rewritten by any transaction ("flags are additive and cannot be         *)
(* cleared", LotRegistry.sol:168), and no lot ceases to exist.             *)
EvidenceStays ==
  /\ reported \subseteq reported'
  /\ \A l \in LotId :
       /\ flagged[l] => flagged'[l]
       /\ Exists(l) => Exists(l)'
       /\ parent[l] # ZeroLot => parent'[l] = parent[l]
       /\ children[l] \subseteq children'[l]

EvidencePermanent == [][EvidenceStays]_vars

(* A revocation stops future claims (ActorRegistry.sol:59): a lot held by  *)
(* an address that is not active changes neither hands nor lifecycle       *)
(* state, and nothing is rolled into it.                                   *)
FrozenUnlessActive ==
  \A l \in LotId : Exists(l) /\ actorStatus[custodian[l]] # "active" =>
    /\ custodian'[l] = custodian[l]
    /\ lotState'[l] = lotState[l]
    /\ children'[l] = children[l]

InactiveCustodianFrozen == [][FrozenUnlessActive]_vars

-----------------------------------------------------------------------------
(* What the contract's own comment says and its code does not do: "a       *)
(* tainted child taints every parent it has been rolled into" (flagLot,    *)
(* LotRegistry.sol:178).  aggregate() taints one level only.               *)
TaintReachesAncestors ==
  \A l \in LotId : flagged[l] =>
    \A a \in AncestorChain(l) \ {ZeroLot} : flagged[a]

(* What the gateway's traversal believes of the graph: "a cycle should be  *)
(* impossible" (apps/gateway/src/chain.ts:251).                            *)
NoLotInItself == \A l \in LotId : l \notin AncestorChain(l) \ {ZeroLot}
=============================================================================
