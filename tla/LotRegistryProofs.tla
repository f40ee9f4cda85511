-------------------------- MODULE LotRegistryProofs --------------------------
(***************************************************************************)
(* What LotRegistry promises for any set of lots and addresses.            *)
(*                                                                         *)
(* The invariant behind every theorem is LotInv: besides the properties    *)
(* themselves it says that a lot nobody opened is blank, that a parent     *)
(* exists, and that the lots a lot was rolled into stay so.                *)
(***************************************************************************)
EXTENDS LotRecall, FiniteSetTheorems, WellFoundedInduction, TLAPS

UnbornIsBlank ==
  \A l \in LotId : ~Exists(l) => parent[l] = ZeroLot /\ ~flagged[l] /\ l \notin reported

ParentExists == \A l \in LotId : parent[l] # ZeroLot => Exists(parent[l])

GraphInv == UnbornIsBlank /\ ParentExists /\ FamilyConsistent

ReportedIsFlagged == \A l \in reported : flagged[l]

TaintInv == ReportedIsFlagged /\ ReportedTaintsParent /\ FlagIsTraceable

LotInv == TypeOK /\ GraphInv /\ TaintInv /\ NoUnsolicitedCustody

-----------------------------------------------------------------------------
(* The loop of flagLot visits l's parent, and never leaves the existing    *)
(* lots.                                                                   *)
LEMMA ChainHasParent ==
  ASSUME TypeOK, NEW l \in LotId
  PROVE  parent[l] \in AncestorChain(l)
BY DEF TypeOK, AncestorChain

LEMMA ChainExists ==
  ASSUME TypeOK, ParentExists, NEW l \in LotId, NEW a \in AncestorChain(l), a # ZeroLot
  PROVE  Exists(a)
<1> DEFINE S == {x \in LotId : Exists(x)} \cup {ZeroLot}
<1>1. S \in SUBSET LotId
  BY LotIdAssumption
<1>2. parent[l] \in S /\ ClosedUpward(S)
  BY DEF TypeOK, ParentExists, ClosedUpward
<1>3. a \in S
  BY <1>1, <1>2 DEF AncestorChain
<1> QED BY <1>3

-----------------------------------------------------------------------------
(* RolledInto is reflexive, holds what a child holds, and only grows when  *)
(* children are added.                                                     *)
LEMMA RolledIntoSelf ==
  ASSUME NEW l \in LotId
  PROVE  l \in RolledInto(l)
BY DEF RolledInto

LEMMA RolledIntoChild ==
  ASSUME NEW p \in LotId, NEW c \in LotId, c \in children[p], NEW d \in RolledInto(c)
  PROVE  d \in RolledInto(p)
BY DEF RolledInto, ClosedDownward

LEMMA RolledIntoGrows ==
  ASSUME NEW l \in LotId, NEW d \in RolledInto(l),
         \A x \in LotId : children[x] \subseteq children'[x]
  PROVE  d \in RolledInto(l)'
<1> SUFFICES ASSUME NEW S \in SUBSET LotId, l \in S, \A x \in S : children'[x] \subseteq S
             PROVE  d \in S
  BY DEF RolledInto, ClosedDownward
<1>1. ClosedDownward(S)
  BY DEF ClosedDownward
<1> QED BY <1>1 DEF RolledInto

(* Every lot the loop visits holds the lot the loop started from.          *)
LEMMA ChainHolds ==
  ASSUME TypeOK, FamilyConsistent, NEW l \in LotId,
         NEW a \in AncestorChain(l), a # ZeroLot
  PROVE  l \in RolledInto(a)
<1> DEFINE S == {x \in LotId : l \in RolledInto(x)} \cup {ZeroLot}
<1>1. S \in SUBSET LotId
  BY LotIdAssumption
<1>2. ASSUME NEW x \in LotId, x = l \/ l \in RolledInto(x)
      PROVE  parent[x] \in S
  <2>1. l \in RolledInto(x)
    BY <1>2, RolledIntoSelf
  <2>2. CASE parent[x] = ZeroLot
    BY <2>2
  <2>3. CASE parent[x] # ZeroLot
    <3>1. parent[x] \in LotId /\ x \in children[parent[x]]
      BY <2>3 DEF TypeOK, FamilyConsistent
    <3> QED BY <2>1, <3>1, RolledIntoChild
  <2> QED BY <2>2, <2>3
<1>3. parent[l] \in S /\ ClosedUpward(S)
  BY <1>2 DEF ClosedUpward
<1>4. a \in S
  BY <1>1, <1>3 DEF AncestorChain
<1> QED BY <1>4

-----------------------------------------------------------------------------
LEMMA TypeInit == Init => TypeOK
BY LotIdAssumption DEF Init, ActorInit, TypeOK, ActorTypeOK, ActorStatus, LotState, Exists

LEMMA TypeStep == TypeOK /\ [Next]_vars => TypeOK'
<1> SUFFICES ASSUME TypeOK, [Next]_vars PROVE TypeOK'
  OBVIOUS
<1> USE DEF TypeOK, ActorTypeOK, ActorStatus, LotState, Exists
<1>1. ASSUME NEW a \in Address, Register(a) \/ Revoke(a) PROVE TypeOK'
  BY <1>1 DEF Register, Revoke, RegisterActor, RevokeActor, lotVars
<1>2. ASSUME NEW s \in Address, NEW l \in LotId, CreateLot(s, l) PROVE TypeOK'
  BY <1>2, LotIdAssumption DEF CreateLot
<1>3. ASSUME NEW s \in Address, NEW l \in LotId, FlagLot(s, l) PROVE TypeOK'
  BY <1>3 DEF FlagLot
<1>4. ASSUME NEW s \in Address, NEW l \in LotId, Finalize(s, l) PROVE TypeOK'
  BY <1>4 DEF Finalize
<1>5. ASSUME NEW s \in Address, NEW p \in LotId, NEW kids \in SUBSET LotId,
             Aggregate(s, p, kids)
      PROVE TypeOK'
  BY <1>5 DEF Aggregate, Tainted
<1>6. ASSUME NEW s \in Address, NEW to \in Address, NEW l \in LotId,
             TransferCustody(s, l, to)
      PROVE TypeOK'
  BY <1>6 DEF TransferCustody
<1>7. ASSUME NEW s \in Address, NEW to \in Address, NEW l \in LotId,
             SignHandoff(l, s, to)
      PROVE TypeOK'
  BY <1>7 DEF SignHandoff, lotVars
<1>8. CASE UNCHANGED vars
  BY <1>8 DEF vars, lotVars
<1> QED BY <1>1, <1>2, <1>3, <1>4, <1>5, <1>6, <1>7, <1>8 DEF Next

(* Every value a variable takes is of its type, and an opened lot has a    *)
(* creator and a custodian.                                                *)
THEOREM TypeCorrect == Spec => []TypeOK
<1> QED BY TypeInit, TypeStep, PTL DEF Spec

-----------------------------------------------------------------------------
(* The aggregation graph.                                                  *)
LEMMA GraphStep == TypeOK /\ GraphInv /\ [Next]_vars => GraphInv'
<1> SUFFICES ASSUME TypeOK, GraphInv, [Next]_vars PROVE GraphInv'
  OBVIOUS
<1> USE DEF GraphInv, UnbornIsBlank, ParentExists, FamilyConsistent, Exists
<1>1. ASSUME NEW a \in Address, Register(a) \/ Revoke(a) PROVE GraphInv'
  BY <1>1 DEF Register, Revoke, lotVars
<1>2. ASSUME NEW s \in Address, NEW l \in LotId, CreateLot(s, l) PROVE GraphInv'
  BY <1>2 DEF CreateLot, TypeOK
<1>3. ASSUME NEW s \in Address, NEW l \in LotId, FlagLot(s, l) PROVE GraphInv'
  <2>1. \A x \in AncestorChain(l) \ {ZeroLot} : lotState[x] # "NONE"
    BY ChainExists
  <2>2. UnbornIsBlank'
    BY <1>3, <2>1 DEF FlagLot, TypeOK
  <2> QED BY <1>3, <2>2 DEF FlagLot
<1>4. ASSUME NEW s \in Address, NEW l \in LotId, Finalize(s, l) PROVE GraphInv'
  BY <1>4 DEF Finalize, TypeOK
<1>5. ASSUME NEW s \in Address, NEW p \in LotId, NEW kids \in SUBSET LotId,
             Aggregate(s, p, kids)
      PROVE GraphInv'
  <2>1. UnbornIsBlank'
    BY <1>5 DEF Aggregate, MayAdopt, Tainted, TypeOK
  <2>2. ParentExists'
    BY <1>5 DEF Aggregate, MayAdopt, TypeOK
  <2>3. FamilyConsistent'
    <3> SUFFICES ASSUME NEW q \in LotId \ {ZeroLot}, NEW c \in LotId
                 PROVE  c \in children'[q] <=> parent'[c] = q
      OBVIOUS
    <3>1. children'[q] = IF q = p THEN children[p] \cup kids ELSE children[q]
      BY <1>5 DEF Aggregate, TypeOK
    <3>2. parent'[c] = IF c \in kids THEN p ELSE parent[c]
      BY <1>5 DEF Aggregate
    <3>3. c \in kids => parent[c] = ZeroLot
      BY <1>5 DEF Aggregate, MayAdopt
    <3> QED BY <3>1, <3>2, <3>3
  <2> QED BY <2>1, <2>2, <2>3
<1>6. ASSUME NEW s \in Address, NEW to \in Address, NEW l \in LotId,
             TransferCustody(s, l, to)
      PROVE GraphInv'
  BY <1>6 DEF TransferCustody, TypeOK
<1>7. ASSUME NEW s \in Address, NEW to \in Address, NEW l \in LotId,
             SignHandoff(l, s, to)
      PROVE GraphInv'
  BY <1>7 DEF SignHandoff, lotVars
<1>8. CASE UNCHANGED vars
  BY <1>8 DEF vars, lotVars
<1> QED BY <1>1, <1>2, <1>3, <1>4, <1>5, <1>6, <1>7, <1>8 DEF Next

-----------------------------------------------------------------------------
(* No transaction takes back what an earlier one recorded.                 *)
LEMMA EvidenceStep == TypeOK /\ GraphInv /\ [Next]_vars => EvidenceStays
<1> SUFFICES ASSUME TypeOK, GraphInv, [Next]_vars PROVE EvidenceStays
  OBVIOUS
<1> USE DEF GraphInv, UnbornIsBlank, EvidenceStays, Exists
<1>1. ASSUME NEW a \in Address, Register(a) \/ Revoke(a) PROVE EvidenceStays
  BY <1>1 DEF Register, Revoke, lotVars
<1>2. ASSUME NEW s \in Address, NEW l \in LotId, CreateLot(s, l) PROVE EvidenceStays
  BY <1>2 DEF CreateLot, TypeOK
<1>3. ASSUME NEW s \in Address, NEW l \in LotId, FlagLot(s, l) PROVE EvidenceStays
  BY <1>3 DEF FlagLot, TypeOK
<1>4. ASSUME NEW s \in Address, NEW l \in LotId, Finalize(s, l) PROVE EvidenceStays
  BY <1>4 DEF Finalize, TypeOK
<1>5. ASSUME NEW s \in Address, NEW p \in LotId, NEW kids \in SUBSET LotId,
             Aggregate(s, p, kids)
      PROVE EvidenceStays
  BY <1>5 DEF Aggregate, MayAdopt, Tainted, TypeOK
<1>6. ASSUME NEW s \in Address, NEW to \in Address, NEW l \in LotId,
             TransferCustody(s, l, to)
      PROVE EvidenceStays
  BY <1>6 DEF TransferCustody, TypeOK
<1>7. ASSUME NEW s \in Address, NEW to \in Address, NEW l \in LotId,
             SignHandoff(l, s, to)
      PROVE EvidenceStays
  BY <1>7 DEF SignHandoff, lotVars
<1>8. CASE UNCHANGED vars
  BY <1>8 DEF vars, lotVars
<1> QED BY <1>1, <1>2, <1>3, <1>4, <1>5, <1>6, <1>7, <1>8 DEF Next

(* A flag keeps its evidence across any step that leaves flags alone or    *)
(* flags lots that hold evidence of their own.                             *)
LEMMA TraceKept ==
  ASSUME FlagIsTraceable, EvidenceStays,
         \A x \in LotId : flagged'[x] /\ ~flagged[x]
            => \E d \in RolledInto(x)' : d \in reported'
  PROVE  FlagIsTraceable'
<1> SUFFICES ASSUME NEW l \in LotId, flagged'[l]
             PROVE  \E d \in RolledInto(l)' : d \in reported'
  BY DEF FlagIsTraceable
<1>1. CASE flagged[l]
  <2>1. PICK d \in RolledInto(l) : d \in reported
    BY <1>1 DEF FlagIsTraceable
  <2>2. d \in RolledInto(l)'
    BY <2>1, RolledIntoGrows DEF EvidenceStays
  <2> QED BY <2>1, <2>2 DEF EvidenceStays
<1>2. CASE ~flagged[l]
  BY <1>2
<1> QED BY <1>1, <1>2

LEMMA TaintStep ==
  TypeOK /\ GraphInv /\ TaintInv /\ [Next]_vars => TaintInv'
<1> SUFFICES ASSUME TypeOK, GraphInv, TaintInv, [Next]_vars PROVE TaintInv'
  OBVIOUS
<1>0. EvidenceStays
  BY EvidenceStep
<1>1. ASSUME UNCHANGED lotVars PROVE TaintInv'
  BY <1>1 DEF TaintInv, ReportedIsFlagged, ReportedTaintsParent, FlagIsTraceable, RolledInto, ClosedDownward, lotVars
<1>2. ASSUME NEW s \in Address, NEW l \in LotId, CreateLot(s, l) PROVE TaintInv'
  <2>0. ReportedIsFlagged'
    BY <1>2, <1>0 DEF CreateLot, TaintInv, ReportedIsFlagged, TypeOK, EvidenceStays
  <2>1. ReportedTaintsParent'
    BY <1>2, <1>0 DEF CreateLot, TaintInv, ReportedTaintsParent, TypeOK, EvidenceStays, Exists
  <2>2. \A x \in LotId : flagged'[x] => flagged[x]
    BY <1>2 DEF CreateLot, TypeOK
  <2> QED BY <2>0, <2>1, <2>2, <1>0, TraceKept DEF TaintInv
<1>3. ASSUME NEW s \in Address, NEW l \in LotId, FlagLot(s, l) PROVE TaintInv'
  <2>0. ReportedIsFlagged'
    BY <1>3 DEF FlagLot, TaintInv, ReportedIsFlagged, TypeOK
  <2>1. ReportedTaintsParent'
    BY <1>3, ChainHasParent DEF FlagLot, TaintInv, ReportedTaintsParent, TypeOK
  <2>2. ASSUME NEW x \in LotId, flagged'[x], ~flagged[x]
        PROVE  \E d \in RolledInto(x)' : d \in reported'
    <3>1. x = l \/ (x # ZeroLot /\ x \in AncestorChain(l))
      BY <1>3, <2>2 DEF FlagLot
    <3>2. l \in RolledInto(x)
      BY <3>1, RolledIntoSelf, ChainHolds DEF GraphInv
    <3>3. l \in RolledInto(x)' /\ l \in reported'
      BY <1>3, <3>2, <1>0, RolledIntoGrows DEF FlagLot, EvidenceStays
    <3> QED BY <3>3
  <2> QED BY <2>0, <2>1, <2>2, <1>0, TraceKept DEF TaintInv
<1>4. ASSUME NEW s \in Address, NEW l \in LotId, Finalize(s, l) PROVE TaintInv'
  <2>1. UNCHANGED <<parent, children, flagged, reported>>
    BY <1>4 DEF Finalize
  <2> QED BY <2>1 DEF TaintInv, ReportedIsFlagged, ReportedTaintsParent, FlagIsTraceable, RolledInto, ClosedDownward
<1>5. ASSUME NEW s \in Address, NEW p \in LotId, NEW kids \in SUBSET LotId,
             Aggregate(s, p, kids)
      PROVE TaintInv'
  <2>1. \A x \in LotId : flagged'[x] <=> flagged[x] \/ (x = p /\ \E c \in kids : flagged[c])
    BY <1>5 DEF Aggregate, Tainted, TypeOK
  <2>0. ReportedIsFlagged'
    BY <1>5, <2>1 DEF Aggregate, TaintInv, ReportedIsFlagged, TypeOK
  <2>2. ReportedTaintsParent'
    <3> SUFFICES ASSUME NEW l \in reported', parent'[l] # ZeroLot
                 PROVE  flagged'[parent'[l]]
      BY DEF ReportedTaintsParent
    <3>1. l \in reported /\ l \in LotId
      BY <1>5 DEF Aggregate, TypeOK
    <3>2. CASE l \in kids
      <4>1. flagged[l] /\ parent'[l] = p
        BY <1>5, <3>1, <3>2 DEF Aggregate, TypeOK, TaintInv, ReportedIsFlagged
      <4> QED BY <4>1, <2>1, <3>2
    <3>3. CASE l \notin kids
      BY <1>5, <2>1, <3>1, <3>3 DEF Aggregate, TaintInv, ReportedTaintsParent, TypeOK
    <3> QED BY <3>2, <3>3
  <2>3. ASSUME NEW x \in LotId, flagged'[x], ~flagged[x]
        PROVE  \E d \in RolledInto(x)' : d \in reported'
    <3>1. PICK c \in kids : x = p /\ flagged[c]
      BY <2>1, <2>3
    <3>2. PICK d \in RolledInto(c) : d \in reported
      BY <3>1 DEF TaintInv, FlagIsTraceable
    <3>3. c \in children'[p] /\ d \in RolledInto(c)'
      BY <1>5, <3>1, <3>2, <1>0, RolledIntoGrows DEF Aggregate, TypeOK, EvidenceStays
    <3>4. d \in RolledInto(p)'
      BY <3>1, <3>3 DEF RolledInto, ClosedDownward
    <3> QED BY <3>1, <3>2, <3>4, <1>0 DEF EvidenceStays
  <2> QED BY <2>0, <2>2, <2>3, <1>0, TraceKept DEF TaintInv
<1>6. ASSUME NEW s \in Address, NEW to \in Address, NEW l \in LotId,
             TransferCustody(s, l, to)
      PROVE TaintInv'
  <2>1. UNCHANGED <<parent, children, flagged, reported>>
    BY <1>6 DEF TransferCustody
  <2> QED BY <2>1 DEF TaintInv, ReportedIsFlagged, ReportedTaintsParent, FlagIsTraceable, RolledInto, ClosedDownward
<1> QED BY <1>1, <1>2, <1>3, <1>4, <1>5, <1>6 DEF Next, vars, Register, Revoke, SignHandoff

-----------------------------------------------------------------------------
(* Custody.                                                                *)
LEMMA CustodyStep ==
  TypeOK /\ NoUnsolicitedCustody /\ [Next]_vars => NoUnsolicitedCustody'
<1> SUFFICES ASSUME TypeOK, NoUnsolicitedCustody, [Next]_vars PROVE NoUnsolicitedCustody'
  OBVIOUS
<1> USE DEF NoUnsolicitedCustody, Exists
<1>1. ASSUME UNCHANGED <<lotState, creator, custodian>>, signatures \subseteq signatures'
      PROVE  NoUnsolicitedCustody'
  BY <1>1
<1>2. ASSUME NEW s \in Address, NEW l \in LotId, CreateLot(s, l)
      PROVE  NoUnsolicitedCustody'
  BY <1>2 DEF CreateLot, TypeOK
<1>3. ASSUME NEW s \in Address, NEW l \in LotId, FlagLot(s, l)
      PROVE  NoUnsolicitedCustody'
  BY <1>3, <1>1 DEF FlagLot
<1>4. ASSUME NEW s \in Address, NEW l \in LotId, Finalize(s, l)
      PROVE  NoUnsolicitedCustody'
  BY <1>4 DEF Finalize, TypeOK
<1>5. ASSUME NEW s \in Address, NEW p \in LotId, NEW kids \in SUBSET LotId,
             Aggregate(s, p, kids)
      PROVE  NoUnsolicitedCustody'
  BY <1>5 DEF Aggregate, TypeOK
<1>6. ASSUME NEW s \in Address, NEW to \in Address, NEW l \in LotId,
             TransferCustody(s, l, to)
      PROVE  NoUnsolicitedCustody'
  BY <1>6 DEF TransferCustody, Countersigned, TypeOK
<1> QED BY <1>1, <1>2, <1>3, <1>4, <1>5, <1>6
      DEF Next, vars, lotVars, Register, Revoke, SignHandoff

LEMMA FrozenStep == TypeOK /\ [Next]_vars => FrozenUnlessActive
<1> SUFFICES ASSUME TypeOK, [Next]_vars PROVE FrozenUnlessActive
  OBVIOUS
<1> USE DEF FrozenUnlessActive, Exists, TypeOK, IsActive
<1>1. ASSUME UNCHANGED <<lotState, custodian, children>> PROVE FrozenUnlessActive
  BY <1>1
<1>2. ASSUME NEW s \in Address, NEW l \in LotId, CreateLot(s, l) PROVE FrozenUnlessActive
  BY <1>2 DEF CreateLot
<1>3. ASSUME NEW s \in Address, NEW l \in LotId, FlagLot(s, l) PROVE FrozenUnlessActive
  BY <1>3, <1>1 DEF FlagLot
<1>4. ASSUME NEW s \in Address, NEW l \in LotId, Finalize(s, l) PROVE FrozenUnlessActive
  BY <1>4 DEF Finalize
<1>5. ASSUME NEW s \in Address, NEW p \in LotId, NEW kids \in SUBSET LotId,
             Aggregate(s, p, kids)
      PROVE FrozenUnlessActive
  BY <1>5 DEF Aggregate
<1>6. ASSUME NEW s \in Address, NEW to \in Address, NEW l \in LotId,
             TransferCustody(s, l, to)
      PROVE FrozenUnlessActive
  BY <1>6 DEF TransferCustody
<1> QED BY <1>1, <1>2, <1>3, <1>4, <1>5, <1>6
      DEF Next, vars, lotVars, Register, Revoke, SignHandoff

-----------------------------------------------------------------------------
LEMMA InvInit == Init => LotInv
<1> SUFFICES ASSUME Init PROVE LotInv
  OBVIOUS
<1>1. TypeOK
  BY TypeInit
<1>2. GraphInv
  BY DEF Init, GraphInv, UnbornIsBlank, ParentExists, FamilyConsistent
<1>3. TaintInv /\ NoUnsolicitedCustody
  BY DEF Init, TaintInv, ReportedIsFlagged, ReportedTaintsParent, FlagIsTraceable,
         NoUnsolicitedCustody, Exists
<1> QED BY <1>1, <1>2, <1>3 DEF LotInv

LEMMA InvStep == LotInv /\ [Next]_vars => LotInv'
BY TypeStep, GraphStep, TaintStep, CustodyStep DEF LotInv

THEOREM Invariance == Spec => []LotInv
<1> QED BY InvInit, InvStep, PTL DEF Spec

(* A recall finds the same lots walking down from a shipment as walking up *)
(* from a crate.                                                           *)
THEOREM GraphConsistent == Spec => []FamilyConsistent
<1>1. LotInv => FamilyConsistent
  BY DEF LotInv, GraphInv
<1> QED BY <1>1, Invariance, PTL

(* Behind every flag stands a report on that lot or on one rolled into it. *)
THEOREM NoFlagWithoutReport == Spec => []FlagIsTraceable
<1>1. LotInv => FlagIsTraceable
  BY DEF LotInv, TaintInv
<1> QED BY <1>1, Invariance, PTL

(* A reported lot taints the lot it is in, whichever came first.           *)
THEOREM ReportReachesParent == Spec => []ReportedTaintsParent
<1>1. LotInv => ReportedTaintsParent
  BY DEF LotInv, TaintInv
<1> QED BY <1>1, Invariance, PTL

(* Custody is taken by opening a lot or by signing for it.                 *)
THEOREM CustodyIsAccepted == Spec => []NoUnsolicitedCustody
<1>1. LotInv => NoUnsolicitedCustody
  BY DEF LotInv
<1> QED BY <1>1, Invariance, PTL

(* No transaction clears a flag, a report, a parent or a lot.              *)
THEOREM NothingIsErased == Spec => EvidencePermanent
<1>1. LotInv /\ [Next]_vars => [EvidenceStays]_vars
  BY EvidenceStep DEF LotInv
<1> QED BY <1>1, Invariance, PTL DEF Spec, EvidencePermanent

(* A lot whose custodian is not active stays as it is.                     *)
THEOREM RevokedHoldsStill == Spec => InactiveCustodianFrozen
<1>1. LotInv /\ [Next]_vars => [FrozenUnlessActive]_vars
  BY FrozenStep DEF LotInv
<1> QED BY <1>1, Invariance, PTL DEF Spec, InactiveCustodianFrozen

-----------------------------------------------------------------------------
(* The recall.  Its walks stop after MaxDepth levels, so it finds what is  *)
(* due in a graph where no lot has more than MaxDepth lots above it.       *)
Above(l) == AncestorChain(l) \ {ZeroLot}

Shallow == \A l \in LotId : IsFiniteSet(Above(l)) /\ Cardinality(Above(l)) <= MaxDepth

LEMMA LeastNatural ==
  ASSUME NEW T \in SUBSET Nat, T # {}
  PROVE  \E x \in T : \A y \in T : x <= y
<1> DEFINE R == OpToRel(<, Nat)
<1>1. PICK x \in T : \A y \in T : ~ (<<y, x>> \in R)
  <2>1. IsWellFoundedOn(R, Nat)
    BY NatLessThanWellFounded
  <2> HIDE DEF R
  <2> QED BY <2>1, WFMin
<1>2. ASSUME NEW y \in T PROVE x <= y
  <2>1. ~ (y < x)
    BY <1>1 DEF OpToRel
  <2> QED BY <2>1
<1> QED BY <1>2

LEMMA InductSet ==
  ASSUME NEW T \in SUBSET Nat, 0 \in T, \A n \in T : n + 1 \in T
  PROVE  T = Nat
<1> SUFFICES ASSUME Nat \ T # {} PROVE FALSE
  OBVIOUS
<1>1. PICK x \in Nat \ T : \A y \in Nat \ T : x <= y
  BY LeastNatural
<1>2. x # 0 /\ x - 1 \in Nat
  BY <1>1
<1>3. x - 1 \in T
  BY <1>1, <1>2
<1> QED BY <1>1, <1>2, <1>3

(* The levels of a walk.                                                   *)
Grown(next, S) == S \cup UNION {next[x] : x \in S}

Reaches(reach, next, l) ==
  /\ reach[0] = {l}
  /\ \A n \in 1 .. MaxDepth : reach[n] = Grown(next, reach[n - 1])

LEMMA WalkIs ==
  ASSUME NEW next, NEW l
  PROVE  \E reach : Reaches(reach, next, l) /\ Walk(next, l) = reach[MaxDepth] \ {l}
<1> DEFINE first == {l}
           Is(g, m) == g = [n \in 0 .. m |-> IF n = 0 THEN first ELSE Grown(next, g[n - 1])]
           T == {m \in Nat : \E g : Is(g, m)}
<1>1. 0 \in T
  <2> DEFINE g == [n \in 0 .. 0 |-> first]
  <2> HIDE DEF first
  <2>1. Is(g, 0)
    OBVIOUS
  <2> QED BY <2>1
<1>2. ASSUME NEW m \in T PROVE m + 1 \in T
  <2> HIDE DEF first
  <2>1. PICK g : Is(g, m)
    OBVIOUS
  <2> DEFINE h == [n \in 0 .. m + 1 |-> IF n = m + 1 THEN Grown(next, g[m]) ELSE g[n]]
  <2>2. ASSUME NEW n \in 0 .. m + 1
        PROVE  h[n] = IF n = 0 THEN first ELSE Grown(next, h[n - 1])
    <3>1. CASE n = m + 1
      BY <3>1
    <3>2. CASE n # m + 1
      <4>1. n \in 0 .. m /\ g[n] = IF n = 0 THEN first ELSE Grown(next, g[n - 1])
        BY <2>1, <3>2
      <4> QED BY <3>2, <4>1
    <3> QED BY <3>1, <3>2
  <2>3. Is(h, m + 1)
    BY <2>2
  <2> HIDE DEF h, Is
  <2> QED BY <2>3
<1>3. MaxDepth \in Nat
  BY DEF MaxDepth
<1>4. \E g : Is(g, MaxDepth)
  <2> HIDE DEF T
  <2>1. T = Nat
    BY <1>1, <1>2, InductSet DEF T
  <2> QED BY <1>3, <2>1 DEF T
<1>5. PICK reach : reach = CHOOSE g : Is(g, MaxDepth)
  OBVIOUS
<1>6. Walk(next, l) = reach[MaxDepth] \ {l}
  BY <1>5 DEF Walk, Grown
<1> HIDE DEF Is
<1>7. Is(reach, MaxDepth)
  BY <1>4, <1>5
<1>8. reach[0] = first /\ \A n \in 1 .. MaxDepth : reach[n] = Grown(next, reach[n - 1])
  <2> HIDE DEF first
  <2>1. /\ reach = [n \in 0 .. MaxDepth |-> IF n = 0 THEN first ELSE Grown(next, reach[n - 1])]
        /\ 0 \in 0 .. MaxDepth
    BY <1>3, <1>7 DEF Is
  <2>2. reach[0] = first
    BY <2>1
  <2>3. ASSUME NEW n \in 1 .. MaxDepth PROVE reach[n] = Grown(next, reach[n - 1])
    <3>1. n \in 0 .. MaxDepth /\ n # 0
      BY <1>3
    <3> QED BY <2>1, <3>1
  <2> QED BY <2>2, <2>3
<1> QED BY <1>6, <1>8 DEF Reaches

(* A walk up from d that goes far enough visits every lot above d.         *)
LEMMA WalkUp ==
  ASSUME TypeOK, GraphInv, Shallow, NEW d \in LotId, NEW up, Reaches(up, Parents, d)
  PROVE  Above(d) \subseteq up[MaxDepth]
<1> DEFINE A == Above(d) \cup {d}
           Next1(S) == Grown(Parents, S)
<1>1. MaxDepth = 8 /\ MaxDepth \in Nat
  BY DEF MaxDepth
<1>2. /\ IsFiniteSet(A) /\ Cardinality(A) \in Nat
      /\ Cardinality(A) <= MaxDepth + 1 /\ A \subseteq LotId
  <2>1. IsFiniteSet(Above(d)) /\ Cardinality(Above(d)) <= MaxDepth
    BY DEF Shallow
  <2>2. Cardinality(Above(d)) \in Nat
    BY <2>1, FS_CardinalityType
  <2>3. IsFiniteSet(A) /\ Cardinality(A) \in {Cardinality(Above(d)), Cardinality(Above(d)) + 1}
    BY <2>1, FS_AddElement
  <2>4. A \subseteq LotId
    BY DEF Above, AncestorChain
  <2> QED BY <1>1, <2>1, <2>2, <2>3, <2>4
<1>3. ASSUME NEW S \in SUBSET A PROVE Next1(S) \subseteq A /\ S \subseteq Next1(S)
  <2>1. ASSUME NEW x \in S, NEW p \in Parents[x] PROVE p \in A
    <3>1. x \in LotId /\ p = parent[x] /\ p # ZeroLot /\ p \in LotId
      BY <1>2, <2>1 DEF Parents, TypeOK
    <3>2. CASE x = d
      BY <3>1, <3>2, ChainHasParent DEF Above
    <3>3. CASE x \in Above(d)
      BY <3>1, <3>3 DEF Above, AncestorChain, ClosedUpward
    <3> QED BY <2>1, <3>2, <3>3
  <2> HIDE DEF A
  <2> QED BY <2>1 DEF Grown
<1> DEFINE Still(S) == Next1(S) = S
           Good(n) == /\ up[n] \in SUBSET A /\ d \in up[n]
                      /\ Still(up[n]) \/ n + 1 <= Cardinality(up[n])
           T == {n \in Nat : n <= MaxDepth => Good(n)}
<1> HIDE DEF A, Next1
<1>4. up[0] = {d} /\ \A n \in 1 .. MaxDepth : up[n] = Next1(up[n - 1])
  BY DEF Reaches, Next1
<1>5. 0 \in T
  <2>1. d \in A
    BY DEF A
  <2>2. Cardinality({d}) = 1
    BY FS_Singleton
  <2> QED BY <1>4, <2>1, <2>2
<1>6. ASSUME NEW n \in T PROVE n + 1 \in T
  <2> SUFFICES ASSUME n + 1 <= MaxDepth PROVE Good(n + 1)
    OBVIOUS
  <2>1. n + 1 \in 1 .. MaxDepth /\ Good(n) /\ n \in Nat
    <3> HIDE DEF Good
    <3> QED BY <1>1
  <2>2. up[n + 1] = Next1(up[n])
    BY <1>4, <2>1
  <2>3. up[n + 1] \in SUBSET A /\ up[n] \subseteq up[n + 1] /\ d \in up[n + 1]
    BY <1>3, <2>1, <2>2
  <2>4. CASE Still(up[n])
    <3>1. up[n + 1] = up[n]
      BY <2>2, <2>4
    <3> QED BY <2>3, <2>4, <3>1
  <2>5. CASE ~ Still(up[n])
    <3>1. up[n + 1] # up[n]
      BY <2>2, <2>5
    <3>2. IsFiniteSet(up[n + 1])
      BY <1>2, <2>3, FS_Subset
    <3>3. IsFiniteSet(up[n]) /\ Cardinality(up[n]) <= Cardinality(up[n + 1])
          /\ Cardinality(up[n + 1]) # Cardinality(up[n])
      BY <2>3, <3>1, <3>2, FS_Subset
    <3>4. Cardinality(up[n]) \in Nat /\ Cardinality(up[n + 1]) \in Nat
      BY <3>2, <3>3, FS_CardinalityType
    <3>5. n + 1 <= Cardinality(up[n])
      BY <2>1, <2>5
    <3>6. (n + 1) + 1 <= Cardinality(up[n + 1])
      BY <2>1, <3>3, <3>4, <3>5
    <3> QED BY <2>3, <3>6
  <2> QED BY <2>4, <2>5
<1>7. Good(MaxDepth)
  <2> HIDE DEF T
  <2>1. T = Nat
    BY <1>5, <1>6, InductSet DEF T
  <2> HIDE DEF Good
  <2> QED BY <1>1, <2>1 DEF T
<1>8. CASE Still(up[MaxDepth])
  <2> DEFINE S == up[MaxDepth] \cup {ZeroLot}
  <2>1. S \in SUBSET LotId
    BY <1>2, <1>7, LotIdAssumption
  <2>2. \A x \in up[MaxDepth] : parent[x] \in S
    <3> SUFFICES ASSUME NEW x \in up[MaxDepth], parent[x] # ZeroLot PROVE parent[x] \in up[MaxDepth]
      OBVIOUS
    <3>1. x \in LotId
      BY <2>1
    <3>2. Exists(x)
      BY <3>1 DEF GraphInv, UnbornIsBlank
    <3>3. parent[x] \in Parents[x]
      BY <3>1, <3>2 DEF Parents
    <3> QED BY <1>8, <3>3 DEF Next1, Grown
  <2>3. parent[d] \in S /\ ClosedUpward(S)
    BY <1>7, <2>2 DEF ClosedUpward
  <2>4. AncestorChain(d) \subseteq S
    BY <2>1, <2>3 DEF AncestorChain
  <2> QED BY <2>4 DEF Above
<1>9. CASE MaxDepth + 1 <= Cardinality(up[MaxDepth])
  <2>1. IsFiniteSet(up[MaxDepth]) /\ Cardinality(up[MaxDepth]) <= Cardinality(A)
        /\ (Cardinality(A) = Cardinality(up[MaxDepth]) => A = up[MaxDepth])
    BY <1>2, <1>7, FS_Subset
  <2>2. Cardinality(up[MaxDepth]) \in Nat
    BY <2>1, FS_CardinalityType
  <2>3. A = up[MaxDepth]
    BY <1>1, <1>2, <1>9, <2>1, <2>2
  <2> QED BY <2>3 DEF A
<1> QED BY <1>7, <1>8, <1>9

(* The way down is the way up: from a lot within n levels above d, d is    *)
(* within n levels below.                                                  *)
LEMMA WalkDown ==
  ASSUME TypeOK, GraphInv, NEW d \in LotId, NEW up, Reaches(up, Parents, d),
         NEW l \in up[MaxDepth], NEW down, Reaches(down, Children, l)
  PROVE  d \in down[MaxDepth]
<1>1. MaxDepth \in Nat
  BY DEF MaxDepth
<1>2. ASSUME NEW x, NEW y, y \in Children[x], NEW r, Reaches(r, Children, x), NEW q, Reaches(q, Children, y)
      PROVE  \A n \in Nat : n + 1 <= MaxDepth => q[n] \subseteq r[n + 1]
  <2> DEFINE T == {n \in Nat : n + 1 <= MaxDepth => q[n] \subseteq r[n + 1]}
  <2>1. 0 \in T
    <3> SUFFICES ASSUME 0 + 1 <= MaxDepth PROVE q[0] \subseteq r[0 + 1]
      OBVIOUS
    <3>1. r[1] = Grown(Children, r[0]) /\ r[0] = {x} /\ q[0] = {y}
      BY <1>1, <1>2 DEF Reaches
    <3> QED BY <1>2, <3>1 DEF Grown
  <2>2. ASSUME NEW n \in T PROVE n + 1 \in T
    <3> SUFFICES ASSUME (n + 1) + 1 <= MaxDepth PROVE q[n + 1] \subseteq r[(n + 1) + 1]
      OBVIOUS
    <3>1. n + 1 \in 1 .. MaxDepth /\ (n + 1) + 1 \in 1 .. MaxDepth /\ (n + 1) - 1 = n
          /\ ((n + 1) + 1) - 1 = n + 1 /\ q[n] \subseteq r[n + 1]
      BY <1>1
    <3>2. q[n + 1] = Grown(Children, q[n]) /\ r[(n + 1) + 1] = Grown(Children, r[n + 1])
      BY <1>2, <3>1 DEF Reaches
    <3> QED BY <3>1, <3>2 DEF Grown
  <2> HIDE DEF T
  <2>3. T = Nat
    BY <2>1, <2>2, InductSet DEF T
  <2> QED BY <2>3 DEF T
<1> DEFINE Good(n) == /\ up[n] \subseteq LotId
                      /\ \A x \in up[n] : \A r : Reaches(r, Children, x) => d \in r[n]
           T == {n \in Nat : n <= MaxDepth => Good(n)}
<1>3. 0 \in T
  BY DEF Reaches
<1>4. ASSUME NEW n \in T PROVE n + 1 \in T
  <2> SUFFICES ASSUME n + 1 <= MaxDepth PROVE Good(n + 1)
    OBVIOUS
  <2>1. n + 1 \in 1 .. MaxDepth /\ (n + 1) - 1 = n /\ Good(n) /\ n \in Nat
    <3> HIDE DEF Good
    <3> QED BY <1>1
  <2>2. up[n + 1] = up[n] \cup UNION {Parents[y] : y \in up[n]}
    BY <2>1 DEF Reaches, Grown
  <2>3. \A x \in up[n + 1] : x \in up[n] \/ \E y \in up[n] : x \in Parents[y]
    BY <2>2
  <2>4. \A y \in up[n] : \A x \in Parents[y] : x \in LotId /\ x # ZeroLot /\ y \in Children[x]
    <3> SUFFICES ASSUME NEW y \in up[n], NEW x \in Parents[y]
                 PROVE  x \in LotId /\ x # ZeroLot /\ y \in Children[x]
      OBVIOUS
    <3>1. y \in LotId
      BY <2>1
    <3>2. x = parent[y] /\ x # ZeroLot
      BY <3>1 DEF Parents
    <3> QED BY <3>1, <3>2 DEF TypeOK, GraphInv, FamilyConsistent, Children
  <2>5. ASSUME NEW x \in up[n + 1], NEW r, Reaches(r, Children, x) PROVE d \in r[n + 1]
    <3>1. CASE x \in up[n]
      <4>1. d \in r[n] /\ r[n + 1] = Grown(Children, r[n])
        BY <2>1, <2>5, <3>1 DEF Reaches
      <4> QED BY <4>1 DEF Grown
    <3>2. CASE \E y \in up[n] : x \in Parents[y]
      <4>1. PICK y \in up[n] : x \in Parents[y]
        BY <3>2
      <4>2. PICK q : Reaches(q, Children, y)
        BY WalkIs
      <4>3. d \in q[n]
        BY <2>1, <4>2
      <4>4. q[n] \subseteq r[n + 1]
        BY <1>2, <2>1, <2>4, <2>5, <4>1, <4>2
      <4> QED BY <4>3, <4>4
    <3> QED BY <2>3, <2>5, <3>1, <3>2
  <2> QED BY <2>1, <2>3, <2>4, <2>5
<1>5. Good(MaxDepth)
  <2> HIDE DEF T
  <2>1. T = Nat
    BY <1>3, <1>4, InductSet DEF T
  <2> HIDE DEF Good
  <2> QED BY <1>1, <2>1 DEF T
<1> QED BY <1>5

(* What is rolled into a lot has that lot above it.                        *)
LEMMA HeldIsBelow ==
  ASSUME TypeOK, FamilyConsistent, children[ZeroLot] = {},
         NEW l \in LotId, NEW d \in RolledInto(l), d # l
  PROVE  l \in Above(d)
<1> DEFINE S == {x \in LotId : x = l \/ (l # ZeroLot /\ l \in AncestorChain(x))}
<1>1. S \in SUBSET LotId /\ l \in S
  OBVIOUS
<1>2. ASSUME NEW x \in S, NEW c \in children[x] PROVE c \in S
  <2>1. x \in LotId /\ x # ZeroLot /\ c \in LotId /\ parent[c] = x
    BY <1>2 DEF TypeOK, FamilyConsistent
  <2>2. CASE x = l
    BY <2>1, <2>2, ChainHasParent
  <2>3. CASE l # ZeroLot /\ l \in AncestorChain(x)
    <3>1. ASSUME NEW U \in SUBSET LotId, parent[c] \in U, ClosedUpward(U) PROVE l \in U
      <4>1. parent[x] \in U
        BY <2>1, <3>1 DEF ClosedUpward
      <4> QED BY <2>3, <3>1, <4>1 DEF AncestorChain
    <3>2. l \in AncestorChain(c)
      BY <3>1 DEF AncestorChain
    <3> QED BY <2>1, <2>3, <3>2
  <2> QED BY <1>2, <2>2, <2>3
<1>3. ClosedDownward(S)
  BY <1>2 DEF ClosedDownward
<1>4. d \in S
  BY <1>1, <1>3 DEF RolledInto
<1> QED BY <1>4 DEF Above

LEMMA RecallIs ==
  ASSUME LotInv, Shallow
  PROVE  RecallFindsCulprit
<1> USE DEF LotInv
<1> SUFFICES ASSUME children[ZeroLot] = {}, NEW l \in LotId, flagged[l]
             PROVE  \E r \in reported \cap Affected(l) : l \in Affected(r)
  BY DEF RecallFindsCulprit
<1>1. PICK d \in RolledInto(l) : d \in reported
  BY DEF TaintInv, FlagIsTraceable
<1>2. d \in LotId /\ l \in Affected(l)
  BY DEF RolledInto, Affected
<1>3. CASE d = l
  BY <1>1, <1>2, <1>3
<1>4. CASE d # l
  <2>1. PICK up : Reaches(up, Parents, d) /\ Ancestors(d) = up[MaxDepth] \ {d}
    BY WalkIs DEF Ancestors
  <2>2. PICK down : Reaches(down, Children, l) /\ Descendants(l) = down[MaxDepth] \ {l}
    BY WalkIs DEF Descendants
  <2>3. l \in up[MaxDepth]
    BY <1>2, <1>4, <2>1, HeldIsBelow, WalkUp DEF GraphInv
  <2>4. d \in down[MaxDepth]
    BY <1>2, <2>1, <2>2, <2>3, WalkDown
  <2>5. l \in Affected(d) /\ d \in Affected(l)
    BY <1>4, <2>1, <2>2, <2>3, <2>4 DEF Affected
  <2> QED BY <1>1, <2>5
<1> QED BY <1>3, <1>4

(* The recall of a flagged lot names a lot that a breach was reported of,  *)
(* and the recall of that one names the flagged one (GET                   *)
(* /lot/:lotId/recall), in every graph of any number of lots, cycles       *)
(* included, where no lot has more above it than the walks go up           *)
(* (maxDepth, chain.ts:255).                                               *)
THEOREM RecallIsComplete == Spec => [](Shallow => RecallFindsCulprit)
<1>1. LotInv => (Shallow => RecallFindsCulprit)
  BY RecallIs
<1> QED BY <1>1, Invariance, PTL
=============================================================================
