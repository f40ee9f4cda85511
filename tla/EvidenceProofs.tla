---------------------------- MODULE EvidenceProofs ----------------------------
(***************************************************************************)
(* What the gateway's evidence promises, for any number of devices, lots,  *)
(* records and companions and for every configuration of the engine: a     *)
(* companion waits exactly as long as its subject is missing, a lot is     *)
(* flagged only on evidence the gateway holds, and two independent signals *)
(* are found in whichever order they come.                                 *)
(***************************************************************************)
EXTENDS Evidence, FiniteSetTheorems, WellFoundedInduction, TLAPS

LEMMA LeastNatural ==
  ASSUME NEW T \in SUBSET Nat, T # {}
  PROVE  \E x \in T : \A y \in T : x <= y
<1> DEFINE R == OpToRel(<, Nat)
<1>1. PICK x \in T : \A y \in T : ~ (<<y, x>> \in R)
  <2>1. IsWellFoundedOn(R, Nat)
    BY NatLessThanWellFounded
  <2> HIDE DEF R
  <2> QED BY <2>1, WFMin
<1>2. ASSUME NEW y \in T PROVE x <= y
  <2>1. ~ (y < x)
    BY <1>1 DEF OpToRel
  <2> QED BY <2>1
<1> QED BY <1>2

LEMMA InductSet ==
  ASSUME NEW T \in SUBSET Nat, 0 \in T, \A n \in T : n + 1 \in T
  PROVE  T = Nat
<1> SUFFICES ASSUME Nat \ T # {} PROVE FALSE
  OBVIOUS
<1>1. PICK x \in Nat \ T : \A y \in Nat \ T : x <= y
  BY LeastNatural
<1>2. x # 0 /\ x - 1 \in Nat
  BY <1>1
<1>3. x - 1 \in T
  BY <1>1, <1>2
<1> QED BY <1>1, <1>2, <1>3

-----------------------------------------------------------------------------
(* The pools of waiting companions.                                        *)

Place == Lot \cup {ZeroLot, NoLot}

Witness == {StoredCompanion(c, shown, lot) : c \in Companion, shown \in BOOLEAN, lot \in Place}

LEMMA WitnessOf ==
  ASSUME NEW c \in Companion, NEW shown \in BOOLEAN, NEW lot \in Place
  PROVE  /\ StoredCompanion(c, shown, lot) \in Witness
         /\ StoredCompanion(c, shown, lot).lot = lot
         /\ StoredCompanion(c, shown, lot).subject = c.subject
<1>1. StoredCompanion(c, shown, lot) \in Witness
  BY DEF Witness
<1>2. /\ StoredCompanion(c, shown, lot).lot = lot
      /\ StoredCompanion(c, shown, lot).subject = c.subject
  BY DEF StoredCompanion
<1> QED BY <1>1, <1>2

LEMMA InLotIs ==
  ASSUME NEW w \in Witness, NEW lot \in Place
  PROVE  /\ InLot(w, lot) \in Witness
         /\ InLot(w, lot).lot = lot
         /\ InLot(w, lot).subject = w.subject
         /\ InLot(w, lot).dev = w.dev
         /\ InLot(w, lot).at = w.at
         /\ InLot(w, lot).flags = w.flags
         /\ InLot(w, lot).imu = w.imu
<1>1. PICK c \in Companion, shown \in BOOLEAN, was \in Place : w = StoredCompanion(c, shown, was)
  BY DEF Witness
<1>2. InLot(w, lot) = StoredCompanion(c, shown, lot)
  <2> DEFINE s == StoredCompanion(c, shown, was)
  <2>1. s = [dev |-> s.dev, at |-> s.at, flags |-> s.flags, subject |-> s.subject,
             digest |-> s.digest, synced |-> s.synced, imu |-> s.imu, lot |-> s.lot]
    BY Zenon DEF StoredCompanion
  <2>2. StoredCompanion(c, shown, lot) =
          [dev |-> s.dev, at |-> s.at, flags |-> s.flags, subject |-> s.subject,
           digest |-> s.digest, synced |-> s.synced, imu |-> s.imu, lot |-> lot]
    BY Zenon DEF StoredCompanion
  <2> HIDE DEF s
  <2>3. [s EXCEPT !.lot = lot] =
          [dev |-> s.dev, at |-> s.at, flags |-> s.flags, subject |-> s.subject,
           digest |-> s.digest, synced |-> s.synced, imu |-> s.imu, lot |-> lot]
    BY <2>1
  <2> QED BY <1>1, <2>2, <2>3 DEF InLot, s
<1>3. /\ InLot(w, lot).dev = w.dev /\ InLot(w, lot).at = w.at
      /\ InLot(w, lot).flags = w.flags /\ InLot(w, lot).imu = w.imu
  <2>1. ASSUME NEW l
        PROVE  LET s == StoredCompanion(c, shown, l)
               IN s.dev = c.dev /\ s.at = c.at /\ s.flags = c.flags
                    /\ s.imu = IF shown THEN c.imu ELSE "none"
    BY Zenon DEF StoredCompanion
  <2> QED BY <1>1, <1>2, <2>1, Zenon
<1> QED BY <1>1, <1>2, <1>3, WitnessOf

(* A pool holds companions of its subject that have no lot yet.            *)
PoolsInv ==
  /\ records \in SUBSET Record
  /\ companions \in SUBSET Witness
  /\ \A d \in DOMAIN orphans :
       /\ orphans[d] \in Seq(Witness)
       /\ \A w \in ToSet(orphans[d]) : w \in companions /\ w.subject = d /\ w.lot = NoLot

WaitInv == PoolsInv /\ NoWitnessLost

LEMMA WaitingIs ==
  ASSUME PoolsInv, NEW d
  PROVE  /\ Waiting(d) \in Seq(Witness)
         /\ \A w \in ToSet(Waiting(d)) : w \in companions /\ w.subject = d /\ w.lot = NoLot
<1>1. CASE d \in DOMAIN orphans
  BY <1>1 DEF PoolsInv, Waiting
<1>2. CASE d \notin DOMAIN orphans
  BY <1>2 DEF Waiting, ToSet
<1> QED BY <1>1, <1>2

LEMMA AppendedSet ==
  ASSUME NEW S, NEW s \in Seq(S), NEW w \in S
  PROVE  Append(s, w) \in Seq(S) /\ ToSet(Append(s, w)) = ToSet(s) \cup {w}
<1>1. Append(s, w) \in Seq(S)
  OBVIOUS
<1>2. /\ DOMAIN Append(s, w) = 1 .. Len(s) + 1 /\ DOMAIN s = 1 .. Len(s) /\ Len(s) \in Nat
      /\ \A i \in 1 .. Len(s) : Append(s, w)[i] = s[i]
      /\ Append(s, w)[Len(s) + 1] = w
  OBVIOUS
<1>3. ToSet(Append(s, w)) = ToSet(s) \cup {w}
  BY <1>2 DEF ToSet
<1> QED BY <1>1, <1>3

LEMMA RecordPlace ==
  ASSUME NEW r \in Record
  PROVE  r.lot \in Place /\ r.lot # NoLot
BY EvidenceAssumption DEF Place

(* A record takes its pool with it: the companions that waited learn their *)
(* lot, and every other pool is left as it was.                            *)
LEMMA RecordKeepsWaiting ==
  ASSUME WaitInv, NEW r \in Record, AddRecord(r)
  PROVE  WaitInv'
<1> DEFINE pool == ToSet(Waiting(r.digest))
           Moved(w) == IF w \in pool THEN InLot(w, r.lot) ELSE w
<1>1. r.lot \in Place /\ r.lot # NoLot
  BY RecordPlace
<1>2. /\ pool \subseteq Witness
      /\ \A w \in pool : w \in companions /\ w.subject = r.digest /\ w.lot = NoLot
  <2>1. \A w \in pool : w \in companions /\ w.subject = r.digest /\ w.lot = NoLot
    BY WaitingIs DEF WaitInv
  <2> QED BY <2>1 DEF WaitInv, PoolsInv
<1>3. companions' = {Moved(w) : w \in companions}
  BY DEF AddRecord
<1>4. records' = records \cup {r} /\ records' \in SUBSET Record
  BY DEF AddRecord, WaitInv, PoolsInv
<1>5. \A w \in companions : /\ Moved(w) \in Witness /\ Moved(w).subject = w.subject
                            /\ w \in pool => Moved(w).lot = r.lot
                            /\ w \notin pool => Moved(w) = w
  BY <1>1, <1>2, InLotIs DEF WaitInv, PoolsInv
<1>6. orphans' = [d \in DOMAIN orphans \ {r.digest} |-> orphans[d]]
  BY DEF AddRecord
<1>7. /\ Waiting(r.digest)' = <<>>
      /\ \A d : d # r.digest => Waiting(d)' = Waiting(d)
  BY <1>6 DEF Waiting
<1>8. PoolsInv'
  <2>1. companions' \in SUBSET Witness
    BY <1>3, <1>5
  <2>2. ASSUME NEW d \in DOMAIN orphans'
        PROVE  /\ orphans'[d] \in Seq(Witness)
               /\ \A w \in ToSet(orphans'[d]) : w \in companions' /\ w.subject = d /\ w.lot = NoLot
    <3>1. d \in DOMAIN orphans /\ d # r.digest /\ orphans'[d] = orphans[d]
      BY <1>6
    <3>2. \A w \in ToSet(orphans[d]) : w \in companions /\ w.subject = d /\ w.lot = NoLot
      BY <3>1 DEF WaitInv, PoolsInv
    <3>3. \A w \in ToSet(orphans[d]) : Moved(w) = w
      BY <1>2, <1>5, <3>1, <3>2
    <3> QED BY <1>3, <3>1, <3>2, <3>3 DEF WaitInv, PoolsInv
  <2> QED BY <1>4, <2>1, <2>2 DEF PoolsInv
<1>9. NoWitnessLost'
  <2> SUFFICES ASSUME NEW w \in companions, NEW m, m = Moved(w)
               PROVE  LET subject == {s \in records' : s.digest = m.subject}
                      IN /\ (subject = {}) <=> (m \in ToSet(Waiting(m.subject)'))
                         /\ (subject = {}) <=> (m.lot = NoLot)
                         /\ \A s \in subject : m.lot = s.lot
    BY <1>3 DEF NoWitnessLost, ToSet
  <2>1. m.subject = w.subject
    BY <1>5
  <2>2. LET subject == {s \in records : s.digest = w.subject}
        IN /\ (subject = {}) <=> (w \in ToSet(Waiting(w.subject)))
           /\ (subject = {}) <=> (w.lot = NoLot)
           /\ \A s \in subject : w.lot = s.lot
    BY DEF WaitInv, NoWitnessLost
  <2>3. ToSet(<<>>) = {}
    BY DEF ToSet
  <2>4. CASE w.subject = r.digest
    <3>1. \A s \in records' : s.digest = w.subject => s = r
      BY <1>4, <2>4, DigestAssumption
    <3>2. m.lot = r.lot
      BY <1>4, <1>5, <2>2, <2>4, <3>1
    <3> QED BY <1>1, <1>4, <1>7, <2>1, <2>3, <2>4, <3>1, <3>2
  <2>5. CASE w.subject # r.digest
    <3>1. m = w
      BY <1>2, <1>5, <2>5
    <3>2. {s \in records' : s.digest = w.subject} = {s \in records : s.digest = w.subject}
      BY <1>4, <2>5
    <3> QED BY <1>7, <2>2, <2>5, <3>1, <3>2
  <2> QED BY <2>4, <2>5
<1> QED BY <1>8, <1>9 DEF WaitInv

LEMMA CompanionKeepsWaiting ==
  ASSUME WaitInv, NEW c \in Companion, NEW shown \in BOOLEAN, AddCompanion(c, shown),
         UNCHANGED records
  PROVE  WaitInv'
<1> DEFINE subject == {r \in records : r.digest = c.subject}
<1> USE WaitInv DEF WaitInv
<1>1. CASE subject = {}
  <2> DEFINE w == StoredCompanion(c, shown, NoLot)
  <2>1. w \in Witness /\ w.lot = NoLot /\ w.subject = c.subject
    BY WitnessOf DEF Place
  <2>2. companions' = companions \cup {w} /\ Hold(w)
    BY <1>1 DEF AddCompanion
  <2> HIDE DEF w
  <2>3. /\ Held(w) \in Seq(Witness)
        /\ ToSet(Held(w)) = ToSet(Waiting(w.subject)) \cup {w}
    BY <2>1, WaitingIs, AppendedSet DEF Held
  <2>4. /\ orphans' = [d \in DOMAIN orphans \cup {w.subject} |->
                         IF d = w.subject THEN Held(w) ELSE orphans[d]]
        /\ Waiting(w.subject)' = Held(w)
        /\ \A d : d # w.subject => Waiting(d)' = Waiting(d)
    BY <2>1, <2>2 DEF Hold, Waiting
  <2>5. PoolsInv'
    <3>1. ASSUME NEW d \in DOMAIN orphans'
          PROVE  /\ orphans'[d] \in Seq(Witness)
                 /\ \A x \in ToSet(orphans'[d]) : x \in companions' /\ x.subject = d /\ x.lot = NoLot
      <4>1. CASE d = w.subject
        <5>1. orphans'[d] = Held(w)
          BY <2>4, <4>1
        <5> QED BY <2>1, <2>2, <2>3, <4>1, <5>1, WaitingIs
      <4>2. CASE d # w.subject
        <5>1. d \in DOMAIN orphans /\ orphans'[d] = orphans[d]
          BY <2>4, <4>2
        <5> QED BY <2>2, <5>1 DEF PoolsInv
      <4> QED BY <4>1, <4>2
    <3> QED BY <2>1, <2>2, <3>1 DEF PoolsInv
  <2>6. NoWitnessLost'
    <3> SUFFICES ASSUME NEW x \in companions'
                 PROVE  LET sub == {s \in records' : s.digest = x.subject}
                        IN /\ (sub = {}) <=> (x \in ToSet(Waiting(x.subject)'))
                           /\ (sub = {}) <=> (x.lot = NoLot)
                           /\ \A s \in sub : x.lot = s.lot
      BY DEF NoWitnessLost, ToSet
    <3>1. CASE x = w
      BY <1>1, <2>1, <2>3, <2>4, <3>1
    <3>2. CASE x # w
      <4>1. x \in companions
        BY <2>2, <3>2
      <4>2. ToSet(Waiting(x.subject)') = ToSet(Waiting(x.subject)) \cup {w} \/ Waiting(x.subject)' = Waiting(x.subject)
        BY <2>3, <2>4
      <4> QED BY <3>2, <4>1, <4>2 DEF NoWitnessLost
    <3> QED BY <3>1, <3>2
  <2> QED BY <2>5, <2>6
<1>2. CASE subject # {}
  <2>1. PICK r \in subject : /\ companions' = companions \cup {StoredCompanion(c, shown, r.lot)}
                             /\ UNCHANGED orphans
    BY <1>2 DEF AddCompanion
  <2> DEFINE w == StoredCompanion(c, shown, r.lot)
  <2>2. r \in Record /\ r.lot \in Place /\ r.lot # NoLot
    BY RecordPlace DEF PoolsInv
  <2>3. w \in Witness /\ w.lot = r.lot /\ w.subject = c.subject
    BY <2>2, WitnessOf
  <2>4. companions' = companions \cup {w}
    BY <2>1
  <2> HIDE DEF w
  <2>5. \A d : Waiting(d)' = Waiting(d)
    BY <2>1 DEF Waiting
  <2>6. PoolsInv'
    BY <2>1, <2>3, <2>4 DEF PoolsInv
  <2>7. NoWitnessLost'
    <3> SUFFICES ASSUME NEW x \in companions'
                 PROVE  LET sub == {s \in records' : s.digest = x.subject}
                        IN /\ (sub = {}) <=> (x \in ToSet(Waiting(x.subject)'))
                           /\ (sub = {}) <=> (x.lot = NoLot)
                           /\ \A s \in sub : x.lot = s.lot
      BY DEF NoWitnessLost, ToSet
    <3>1. CASE x = w
      <4>1. \A s \in records : s.digest = w.subject => s = r
        BY <2>2, <2>3, DigestAssumption DEF PoolsInv
      <4>2. w \notin ToSet(Waiting(w.subject))
        BY <2>2, <2>3, WaitingIs
      <4> QED BY <2>2, <2>3, <2>5, <3>1, <4>1, <4>2
    <3>2. CASE x # w
      BY <2>4, <2>5, <3>2 DEF NoWitnessLost
    <3> QED BY <3>1, <3>2
  <2> QED BY <2>6, <2>7
<1> QED BY <1>1, <1>2

LEMMA WaitStart == Init => WaitInv
<1> SUFFICES ASSUME Init PROVE WaitInv
  OBVIOUS
<1> QED BY DEF Init, WaitInv, PoolsInv, NoWitnessLost

LEMMA WaitStep == WaitInv /\ [Next]_evidenceVars => WaitInv'
<1> SUFFICES ASSUME WaitInv, [Next]_evidenceVars PROVE WaitInv'
  OBVIOUS
<1>1. ASSUME NEW r \in Record, PostRecord(r) PROVE WaitInv'
  BY <1>1, RecordKeepsWaiting DEF PostRecord
<1>2. ASSUME NEW c \in Companion, NEW shown \in BOOLEAN, PostCompanion(c, shown) PROVE WaitInv'
  BY <1>2, CompanionKeepsWaiting DEF PostCompanion
<1>3. CASE UNCHANGED <<records, companions, orphans>>
  BY <1>3 DEF WaitInv, PoolsInv, NoWitnessLost, Waiting
<1> QED BY <1>1, <1>2, <1>3 DEF Next, Register, evidenceVars

(* A companion waits as long as its subject is missing and no longer, and  *)
(* knows its lot from then on (store.ts addRecord, addCompanion), however  *)
(* many companions, subjects and replays there are.                        *)
THEOREM NoWitnessLostAlways == Spec => []NoWitnessLost
<1>1. WaitInv => NoWitnessLost
  BY DEF WaitInv
<1> QED BY WaitStart, WaitStep, <1>1, PTL DEF Spec
-----------------------------------------------------------------------------
(* The rules engine, one turn at a time.                                   *)

Digest == {r.digest : r \in Record} \cup {c.digest : c \in Companion}

Observation == [signal : BreachSignal, dev : Device, at : Nat, correlatable : BOOLEAN, evidence : Digest]

Excursion == [dev : Device, at : Nat]

State == [observations : SUBSET Observation, latched : SUBSET FindingKind,
          excursionStart : SUBSET Excursion, episodeEndsAt : Nat]

Finding == [kind : FindingKind, at : Nat, evidence : SUBSET Digest]

Turn == [state : State, found : SUBSET Finding]

LEMMA LatchIs ==
  ASSUME NEW turn \in Turn, NEW kind \in FindingKind, NEW at \in Nat, NEW evidence \in SUBSET Digest
  PROVE  LET next == Latch(turn, kind, at, evidence)
         IN /\ next \in Turn
            /\ next.state.observations = turn.state.observations
            /\ next.state.excursionStart = turn.state.excursionStart
            /\ turn.found \subseteq next.found
            /\ \A f \in next.found \ turn.found : f.kind = kind
            /\ kind \in next.state.latched
            /\ "CONSENSUS_BREACH" \in next.state.latched =>
                 \/ "CONSENSUS_BREACH" \in turn.state.latched
                 \/ kind = "CONSENSUS_BREACH" /\ \E f \in next.found : f.kind = kind
<1>1. CASE kind \in turn.state.latched
  BY <1>1 DEF Latch
<1>2. CASE kind \notin turn.state.latched
  <2> DEFINE more == IF kind = "CONSENSUS_BREACH" THEN EpisodeKinds ELSE {kind}
             state == [turn.state EXCEPT !.latched = @ \cup more]
             finding == [kind |-> kind, at |-> at, evidence |-> evidence]
             next == [state |-> state, found |-> turn.found \cup {finding}]
  <2>1. Latch(turn, kind, at, evidence) = next
    BY <1>2 DEF Latch
  <2>2. more \subseteq FindingKind /\ kind \in more
    BY DEF FindingKind, EpisodeKinds
  <2>3. kind # "CONSENSUS_BREACH" => "CONSENSUS_BREACH" \notin more
    OBVIOUS
  <2> HIDE DEF more
  <2>4. turn.state \in State /\ turn.found \in SUBSET Finding
    BY DEF Turn
  <2>5. /\ state \in State /\ state.latched = turn.state.latched \cup more
        /\ state.observations = turn.state.observations
        /\ state.excursionStart = turn.state.excursionStart
    BY <2>2, <2>4 DEF State
  <2>6. finding \in Finding /\ finding.kind = kind
    BY DEF Finding
  <2> HIDE DEF state, finding
  <2>7. /\ next \in Turn /\ next.state = state /\ next.found = turn.found \cup {finding}
    BY <2>4, <2>5, <2>6 DEF Turn
  <2> HIDE DEF next
  <2> QED BY <2>1, <2>2, <2>3, <2>5, <2>6, <2>7
<1> QED BY <1>1, <1>2

LEMMA DistanceIs ==
  ASSUME NEW a \in Nat, NEW b \in Nat
  PROVE  Distance(a, b) \in Nat /\ Distance(a, b) = Distance(b, a)
           /\ (Distance(a, b) <= Window => b >= a - Window)
BY ConfigAssumption DEF Distance

(* The observations o is judged among.                                     *)
WindowOf(turn, o) == {p \in Kept(turn.state.observations \cup {o}, o) : InWindow(o, p)}

Many(window) == /\ Cardinality(ClassesOf(window)) >= MinSignals
                /\ Cardinality(DevicesOf(window)) >= MinDevices

LEMMA ObserveIs ==
  ASSUME NEW turn \in Turn, NEW o \in Observation
  PROVE  LET next == Observe(turn, o)
             window == WindowOf(turn, o)
         IN /\ next \in Turn
            /\ next.state.observations = Kept(turn.state.observations \cup {o}, o)
            /\ next.state.excursionStart = turn.state.excursionStart
            /\ turn.found \subseteq next.found
            /\ \A f \in next.found \ turn.found :
                 f.kind \in EpisodeKinds /\ (f.kind = "CONSENSUS_BREACH" => Many(window))
            /\ "CONSENSUS_BREACH" \in next.state.latched =>
                 \/ "CONSENSUS_BREACH" \in turn.state.latched
                 \/ \E f \in next.found : f.kind = "CONSENSUS_BREACH"
            /\ Many(window) => "CONSENSUS_BREACH" \in next.state.latched
<1> DEFINE s == turn.state
           kept == Kept(s.observations \cup {o}, o)
           window == {p \in kept : InWindow(o, p)}
           latched == IF o.at > s.episodeEndsAt THEN s.latched \ EpisodeKinds ELSE s.latched
           ends == IF o.at + Window > s.episodeEndsAt THEN o.at + Window ELSE s.episodeEndsAt
           mid == [s EXCEPT !.observations = kept, !.latched = latched, !.episodeEndsAt = ends]
           next == [turn EXCEPT !.state = mid]
           kind == IF Cardinality(DevicesOf(window)) >= MinDevices
                   THEN "CONSENSUS_BREACH" ELSE "SUSPECTED_BREACH"
<1>1. s \in State /\ turn.found \in SUBSET Finding
  BY DEF Turn
<1>2. kept \in SUBSET Observation
  BY <1>1 DEF Kept, State
<1>3. latched \in SUBSET FindingKind /\ latched \subseteq s.latched
  BY <1>1 DEF State
<1>4. ends \in Nat
  BY <1>1, ConfigAssumption DEF State, Observation
<1> HIDE DEF latched, ends
<1>5. mid \in State /\ mid.observations = kept /\ mid.latched = latched
      /\ mid.excursionStart = s.excursionStart
  BY <1>1, <1>2, <1>3, <1>4 DEF State
<1> HIDE DEF mid
<1>6. next \in Turn /\ next.state = mid /\ next.found = turn.found
  BY <1>5 DEF Turn
<1>7. EvidenceOf(window) \in SUBSET Digest /\ o.at \in Nat /\ {o.evidence} \in SUBSET Digest
  BY <1>2 DEF EvidenceOf, Observation
<1>8. Observe(turn, o) =
        IF Cardinality(ClassesOf(window)) >= MinSignals
        THEN Latch(next, kind, o.at, EvidenceOf(window))
        ELSE IF o.signal # "TEMP" THEN Latch(next, "TAMPER", o.at, {o.evidence}) ELSE next
  BY DEF Observe, next, mid, latched, ends
<1>9. window = WindowOf(turn, o)
  BY DEF WindowOf
<1>10. /\ kind \in EpisodeKinds /\ "TAMPER" \in EpisodeKinds
       /\ EpisodeKinds \subseteq FindingKind
  BY DEF EpisodeKinds, FindingKind
<1> HIDE DEF next, window, kept
<1>11. CASE Cardinality(ClassesOf(window)) >= MinSignals
  <2>1. Observe(turn, o) = Latch(next, kind, o.at, EvidenceOf(window))
    BY <1>8, <1>11
  <2>2. kind = "CONSENSUS_BREACH" <=> Many(window)
    BY <1>11 DEF Many
  <2> HIDE DEF kind
  <2> QED BY <1>3, <1>5, <1>6, <1>7, <1>9, <1>10, <2>1, <2>2, LatchIs DEF kept
<1>12. CASE ~ (Cardinality(ClassesOf(window)) >= MinSignals)
  <2>1. ~ Many(window)
    BY <1>12 DEF Many
  <2>2. CASE o.signal # "TEMP"
    <3>1. Observe(turn, o) = Latch(next, "TAMPER", o.at, {o.evidence})
      BY <1>8, <1>12, <2>2
    <3> QED BY <1>3, <1>5, <1>6, <1>7, <1>9, <1>10, <2>1, <3>1, LatchIs DEF kept
  <2>3. CASE o.signal = "TEMP"
    <3>1. Observe(turn, o) = next
      BY <1>8, <1>12, <2>3
    <3> QED BY <1>3, <1>5, <1>6, <1>9, <2>1, <3>1 DEF kept
  <2> QED BY <2>2, <2>3
<1> QED BY <1>11, <1>12
-----------------------------------------------------------------------------
(* A turn is sound over what was claimed of the lot, C, and the records of *)
(* the lot, R: it rests on nothing else, and found no breach without cause.*)

Claimed == [lot : Lot, signal : BreachSignal, dev : Device, at : Nat, trusted : BOOLEAN]

Near(C, o) == {p \in C : p.trusted /\ Distance(o.at, p.at) <= Window}

CorroboratedBy(C) ==
  \E o \in C : /\ Cardinality({p.signal : p \in Near(C, o)}) >= MinSignals
               /\ Cardinality({p.dev : p \in Near(C, o)}) >= MinDevices

HotBy(R) == \E r, s \in R : /\ r.dev = s.dev /\ r.temp = "hot" /\ s.temp = "hot"
                            /\ s.at - r.at >= Sustain

Matches(o, c) == /\ c.signal = o.signal /\ c.dev = o.dev /\ c.at = o.at
                 /\ c.trusted = o.correlatable

RestsOn(state, C, R) ==
  /\ \A o \in state.observations : \E c \in C : Matches(o, c)
  /\ \A e \in state.excursionStart : \E r \in R : r.dev = e.dev /\ r.at = e.at /\ r.temp = "hot"

Sound(turn, C, R) ==
  /\ turn \in Turn
  /\ RestsOn(turn.state, C, R)
  /\ \A f \in turn.found : Severity(f.kind) = "breach" => CorroboratedBy(C) \/ HotBy(R)

LEMMA FewerThan ==
  ASSUME NEW S, NEW T, IsFiniteSet(T), S \subseteq T, NEW n \in Nat, Cardinality(S) >= n
  PROVE  Cardinality(T) >= n
<1>1. /\ IsFiniteSet(S) /\ Cardinality(S) <= Cardinality(T)
  BY FS_Subset
<1>2. Cardinality(S) \in Nat /\ Cardinality(T) \in Nat
  BY <1>1, FS_CardinalityType
<1> QED BY <1>1, <1>2

LEMMA ImageFinite ==
  ASSUME NEW S, IsFiniteSet(S), NEW f, DOMAIN f = S
  PROVE  IsFiniteSet({f[x] : x \in S})
<1> DEFINE T == {f[x] : x \in S}
           g == [x \in S |-> f[x]]
<1>1. g \in Surjection(S, T)
  BY DEF Surjection
<1> QED BY <1>1, FS_Surjection

LEMMA FieldsFinite ==
  ASSUME NEW S, IsFiniteSet(S)
  PROVE  IsFiniteSet({p.signal : p \in S}) /\ IsFiniteSet({p.dev : p \in S})
<1> DEFINE signals == [p \in S |-> p.signal]
           devs == [p \in S |-> p.dev]
<1>1. IsFiniteSet({signals[p] : p \in S}) /\ IsFiniteSet({devs[p] : p \in S})
  BY ImageFinite
<1> QED BY <1>1

LEMMA MoreClaims ==
  ASSUME NEW C, NEW D, IsFiniteSet(D), C \subseteq D, CorroboratedBy(C)
  PROVE  CorroboratedBy(D)
<1>1. PICK o \in C : /\ Cardinality({p.signal : p \in Near(C, o)}) >= MinSignals
                     /\ Cardinality({p.dev : p \in Near(C, o)}) >= MinDevices
  BY DEF CorroboratedBy
<1>2. Near(C, o) \subseteq Near(D, o) /\ Near(D, o) \subseteq D
  BY DEF Near
<1>3. IsFiniteSet(Near(D, o))
  BY <1>2, FS_Subset
<1>4. IsFiniteSet({p.signal : p \in Near(D, o)}) /\ IsFiniteSet({p.dev : p \in Near(D, o)})
  BY <1>3, FieldsFinite
<1>5. /\ {p.signal : p \in Near(C, o)} \subseteq {p.signal : p \in Near(D, o)}
      /\ {p.dev : p \in Near(C, o)} \subseteq {p.dev : p \in Near(D, o)}
  BY <1>2
<1>6. /\ Cardinality({p.signal : p \in Near(D, o)}) >= MinSignals
      /\ Cardinality({p.dev : p \in Near(D, o)}) >= MinDevices
  BY <1>1, <1>4, <1>5, FewerThan, ConfigAssumption
<1> QED BY <1>6 DEF CorroboratedBy

(* What makes an episode a breach was claimed by devices around a moment.  *)
LEMMA ManyIsCorroborated ==
  ASSUME NEW C \in SUBSET Claimed, IsFiniteSet(C), NEW W \in SUBSET Observation,
         NEW o \in Observation, NEW c \in C, Matches(o, c),
         \A p \in W : InWindow(o, p) /\ \E q \in C : Matches(p, q),
         Many(W)
  PROVE  CorroboratedBy(C)
<1>1. \A p \in W : \E q \in Near(C, c) : q.signal = p.signal /\ q.dev = p.dev
  BY DEF Matches, InWindow, Near, Observation
<1>2. /\ ClassesOf(W) \subseteq {q.signal : q \in Near(C, c)}
      /\ DevicesOf(W) \subseteq {q.dev : q \in Near(C, c)}
  BY <1>1 DEF ClassesOf, DevicesOf
<1>3. IsFiniteSet(Near(C, c))
  BY FS_Subset DEF Near
<1>4. IsFiniteSet({q.signal : q \in Near(C, c)}) /\ IsFiniteSet({q.dev : q \in Near(C, c)})
  BY <1>3, FieldsFinite
<1>5. /\ Cardinality({q.signal : q \in Near(C, c)}) >= MinSignals
      /\ Cardinality({q.dev : q \in Near(C, c)}) >= MinDevices
  BY <1>2, <1>4, FewerThan, ConfigAssumption DEF Many
<1> QED BY <1>5 DEF CorroboratedBy

LEMMA ObserveSound ==
  ASSUME NEW C \in SUBSET Claimed, IsFiniteSet(C), NEW R, NEW turn, Sound(turn, C, R),
         NEW o \in Observation, NEW c \in C, Matches(o, c)
  PROVE  Sound(Observe(turn, o), C, R)
<1> DEFINE next == Observe(turn, o)
           window == WindowOf(turn, o)
<1>1. turn \in Turn
  BY DEF Sound
<1>2. /\ next \in Turn
      /\ next.state.observations = Kept(turn.state.observations \cup {o}, o)
      /\ next.state.excursionStart = turn.state.excursionStart
      /\ \A f \in next.found \ turn.found :
           f.kind \in EpisodeKinds /\ (f.kind = "CONSENSUS_BREACH" => Many(window))
  BY <1>1, ObserveIs
<1>3. Kept(turn.state.observations \cup {o}, o) \subseteq turn.state.observations \cup {o}
  BY DEF Kept
<1>4. \A p \in turn.state.observations \cup {o} : p \in Observation /\ \E q \in C : Matches(p, q)
  BY DEF Sound, RestsOn, Turn, State
<1>5. window \in SUBSET Observation /\ \A p \in window : InWindow(o, p) /\ \E q \in C : Matches(p, q)
  BY <1>3, <1>4 DEF WindowOf
<1> HIDE DEF next, window
<1>6. Many(window) => CorroboratedBy(C)
  BY <1>5, ManyIsCorroborated
<1>7. \A f \in next.found : Severity(f.kind) = "breach" => CorroboratedBy(C) \/ HotBy(R)
  <2> SUFFICES ASSUME NEW f \in next.found, Severity(f.kind) = "breach"
               PROVE  CorroboratedBy(C) \/ HotBy(R)
    OBVIOUS
  <2>1. CASE f \in turn.found
    BY <2>1 DEF Sound
  <2>2. CASE f \notin turn.found
    <3>1. f.kind \in EpisodeKinds
      BY <1>2, <2>2
    <3>2. f.kind = "CONSENSUS_BREACH"
      BY <3>1 DEF EpisodeKinds, Severity
    <3> QED BY <1>2, <1>6, <2>2, <3>2
  <2> QED BY <2>1, <2>2
<1>8. RestsOn(next.state, C, R)
  BY <1>2, <1>3, <1>4 DEF RestsOn, Sound
<1> QED BY <1>2, <1>7, <1>8 DEF Sound, next
(* What both records and companions are to the engine.                     *)
IsSource(r) == r.dev \in Device /\ r.at \in Nat /\ r.synced \in BOOLEAN /\ r.digest \in Digest

ClaimsBy(lot, signals, r) == {Claim(lot, g, r.dev, r.at, r.synced) : g \in signals}

LEMMA SeenIs ==
  ASSUME NEW r, IsSource(r), NEW signal \in BreachSignal, NEW lot \in Lot
  PROVE  /\ Seen(signal, r) \in Observation
         /\ Claim(lot, signal, r.dev, r.at, r.synced) \in Claimed
         /\ Matches(Seen(signal, r), Claim(lot, signal, r.dev, r.at, r.synced))
BY DEF IsSource, Seen, Observation, Claim, Claimed, Matches

LEMMA FlagSound ==
  ASSUME NEW lot \in Lot, NEW C \in SUBSET Claimed, IsFiniteSet(C), NEW R,
         NEW turn, Sound(turn, C, R), NEW r, IsSource(r), NEW signal \in BreachSignal,
         signal \in r.flags => Claim(lot, signal, r.dev, r.at, r.synced) \in C
  PROVE  Sound(ObserveFlag(turn, signal, r), C, R)
<1>1. CASE signal \in r.flags
  <2>1. Sound(Observe(turn, Seen(signal, r)), C, R)
    BY <1>1, SeenIs, ObserveSound
  <2> QED BY <1>1, <2>1 DEF ObserveFlag
<1>2. CASE signal \notin r.flags
  BY <1>2 DEF ObserveFlag
<1> QED BY <1>1, <1>2

LEMMA TrackIs ==
  ASSUME NEW turn \in Turn, NEW r \in Record
  PROVE  LET next == TrackExcursion(turn, r)
         IN /\ next \in Turn
            /\ next.state.observations = turn.state.observations
            /\ \A e \in next.state.excursionStart \ turn.state.excursionStart :
                 e.dev = r.dev /\ e.at = r.at
            /\ turn.found \subseteq next.found
            /\ next.found # turn.found =>
                 \E e \in turn.state.excursionStart : e.dev = r.dev /\ r.at - e.at >= Sustain
            /\ "CONSENSUS_BREACH" \in next.state.latched =>
                 "CONSENSUS_BREACH" \in turn.state.latched
            /\ \A f \in next.found \ turn.found : f.kind = "COLD_CHAIN_BREACH"
<1> DEFINE start == StartOf(turn.state, r.dev)
           e0 == [dev |-> r.dev, at |-> r.at]
           state == [turn.state EXCEPT !.excursionStart = @ \cup {e0}]
           next == [turn EXCEPT !.state = state]
<1>1. r.dev \in Device /\ r.at \in Nat /\ {r.digest} \in SUBSET Digest
  BY EvidenceAssumption DEF Digest
<1>2. turn.state \in State /\ turn.found \in SUBSET Finding
  BY DEF Turn
<1>3. CASE start = {}
  <2>1. TrackExcursion(turn, r) = next
    BY <1>2, <1>3 DEF TrackExcursion, Turn, State
  <2>2. /\ state \in State /\ state.observations = turn.state.observations
        /\ state.excursionStart = turn.state.excursionStart \cup {e0}
        /\ state.latched = turn.state.latched
    BY <1>1, <1>2 DEF State, Excursion
  <2> HIDE DEF state
  <2>3. next \in Turn /\ next.state = state /\ next.found = turn.found
    BY <2>2 DEF Turn
  <2> HIDE DEF next
  <2> QED BY <2>1, <2>2, <2>3
<1>4. CASE start # {} /\ \E e \in start : r.at - e.at >= Sustain
  <2>1. TrackExcursion(turn, r) = Latch(turn, "COLD_CHAIN_BREACH", r.at, {r.digest})
    BY <1>4 DEF TrackExcursion
  <2>2. "COLD_CHAIN_BREACH" \in FindingKind
    BY DEF FindingKind
  <2> QED BY <1>1, <1>4, <2>1, <2>2, LatchIs DEF StartOf
<1>5. CASE start # {} /\ ~ \E e \in start : r.at - e.at >= Sustain
  BY <1>5 DEF TrackExcursion
<1> QED BY <1>3, <1>4, <1>5

LEMMA TrackSound ==
  ASSUME NEW C, NEW R, NEW turn, Sound(turn, C, R), NEW r \in Record, r \in R, r.temp = "hot"
  PROVE  Sound(TrackExcursion(turn, r), C, R)
<1> DEFINE next == TrackExcursion(turn, r)
<1>1. turn \in Turn
  BY DEF Sound
<1>2. /\ next \in Turn
      /\ next.state.observations = turn.state.observations
      /\ \A e \in next.state.excursionStart \ turn.state.excursionStart : e.dev = r.dev /\ e.at = r.at
      /\ next.found # turn.found =>
           \E e \in turn.state.excursionStart : e.dev = r.dev /\ r.at - e.at >= Sustain
  BY <1>1, TrackIs
<1> HIDE DEF next
<1>3. RestsOn(next.state, C, R)
  BY <1>2 DEF Sound, RestsOn
<1>4. next.found # turn.found => HotBy(R)
  BY <1>2 DEF Sound, RestsOn, HotBy
<1>5. \A f \in next.found : Severity(f.kind) = "breach" => CorroboratedBy(C) \/ HotBy(R)
  BY <1>4 DEF Sound
<1> QED BY <1>2, <1>3, <1>5 DEF Sound, next

LEMMA RecoverIs ==
  ASSUME NEW turn \in Turn, NEW r
  PROVE  LET next == Recover(turn, r)
         IN /\ next \in Turn
            /\ next.state.observations = turn.state.observations
            /\ next.state.excursionStart \subseteq turn.state.excursionStart
            /\ next.state.latched \subseteq turn.state.latched
            /\ next.found = turn.found
BY DEF Recover, Turn, State

LEMMA NewTurnSound ==
  ASSUME NEW C, NEW R, NEW state \in State, RestsOn(state, C, R)
  PROVE  Sound(NewTurn(state), C, R)
BY DEF Sound, NewTurn, Turn

LEMMA RecordSource == ASSUME NEW r \in Record PROVE IsSource(r)
BY EvidenceAssumption DEF IsSource, Digest

LEMMA WitnessSource ==
  ASSUME NEW w \in Witness
  PROVE  IsSource(w) /\ w.synced = TRUE /\ w.flags \subseteq {"LID", "SHOCK"}
<1>1. PICK c \in Companion, shown \in BOOLEAN, lot \in Place : w = StoredCompanion(c, shown, lot)
  BY DEF Witness
<1>2. /\ w.dev = c.dev /\ w.at = c.at /\ w.flags = c.flags
      /\ w.digest = c.digest /\ w.synced = TRUE
  BY <1>1, Zenon DEF StoredCompanion
<1> QED BY <1>2, EvidenceAssumption DEF IsSource, Digest

LEMMA RecordSound ==
  ASSUME NEW lot \in Lot, NEW C \in SUBSET Claimed, IsFiniteSet(C), NEW R,
         NEW state \in State, RestsOn(state, C, R),
         NEW r \in Record, r \in R, ClaimsBy(lot, SignalsOf(r), r) \subseteq C
  PROVE  Sound(ObserveRecord(state, r), C, R)
<1> DEFINE temp == CASE r.temp = "hot" ->
                          TrackExcursion(Observe(NewTurn(state), Seen("TEMP", r)), r)
                     [] r.temp = "ok" -> Recover(NewTurn(state), r)
                     [] r.temp = "faulted" -> NewTurn(state)
<1>1. Sound(NewTurn(state), C, R)
  BY NewTurnSound
<1>2. IsSource(r) /\ r.temp \in {"hot", "ok", "faulted"}
  BY RecordSource, EvidenceAssumption
<1>3. \A g \in SignalsOf(r) : Claim(lot, g, r.dev, r.at, r.synced) \in C
  BY DEF ClaimsBy
<1>4. Sound(temp, C, R)
  <2>1. CASE r.temp = "hot"
    <3>1. "TEMP" \in SignalsOf(r) /\ "TEMP" \in BreachSignal
      BY <2>1 DEF SignalsOf, BreachSignal
    <3>2. Sound(Observe(NewTurn(state), Seen("TEMP", r)), C, R)
      BY <1>1, <1>2, <1>3, <3>1, SeenIs, ObserveSound
    <3> QED BY <2>1, <3>2, TrackSound
  <2>2. CASE r.temp = "ok"
    <3>1. Recover(NewTurn(state), r).state.observations = NewTurn(state).state.observations
          /\ Recover(NewTurn(state), r).state.excursionStart \subseteq NewTurn(state).state.excursionStart
          /\ Recover(NewTurn(state), r).found = NewTurn(state).found
          /\ Recover(NewTurn(state), r) \in Turn
      BY <1>1, RecoverIs DEF Sound
    <3>2. Sound(Recover(NewTurn(state), r), C, R)
      BY <1>1, <3>1 DEF Sound, RestsOn
    <3>3. temp = Recover(NewTurn(state), r)
      BY <2>2
    <3> QED BY <3>2, <3>3
  <2>3. CASE r.temp = "faulted"
    BY <1>1, <2>3
  <2> QED BY <1>2, <2>1, <2>2, <2>3
<1> HIDE DEF temp
<1>5. {"LID", "SHOCK"} \subseteq BreachSignal /\ r.flags \subseteq SignalsOf(r)
  BY DEF BreachSignal, SignalsOf
<1>6. Sound(ObserveFlag(temp, "LID", r), C, R)
  BY <1>2, <1>3, <1>4, <1>5, FlagSound
<1>7. Sound(ObserveFlag(ObserveFlag(temp, "LID", r), "SHOCK", r), C, R)
  BY <1>2, <1>3, <1>5, <1>6, FlagSound
<1> QED BY <1>7 DEF ObserveRecord, temp

LEMMA CompanionSound ==
  ASSUME NEW lot \in Lot, NEW C \in SUBSET Claimed, IsFiniteSet(C), NEW R,
         NEW turn, Sound(turn, C, R),
         NEW w \in Witness, ClaimsBy(lot, WitnessedBy(w), w) \subseteq C
  PROVE  Sound(ObserveCompanion(turn, w), C, R)
<1>1. IsSource(w) /\ {"LID", "SHOCK"} \subseteq BreachSignal
  BY WitnessSource DEF BreachSignal
<1>2. \A g \in WitnessedBy(w) : Claim(lot, g, w.dev, w.at, w.synced) \in C
  BY DEF ClaimsBy
<1>3. /\ "LID" \in w.flags => "LID" \in WitnessedBy(w)
      /\ w.imu # "weak" /\ "SHOCK" \in w.flags => "SHOCK" \in WitnessedBy(w)
  BY DEF WitnessedBy
<1> DEFINE opened == ObserveFlag(turn, "LID", w)
<1>4. Sound(opened, C, R)
  BY <1>1, <1>2, <1>3, FlagSound
<1> HIDE DEF opened
<1>5. CASE w.imu = "weak"
  BY <1>4, <1>5 DEF ObserveCompanion, opened
<1>6. CASE w.imu # "weak"
  <2>1. Sound(ObserveFlag(opened, "SHOCK", w), C, R)
    BY <1>1, <1>2, <1>3, <1>4, <1>6, FlagSound
  <2> QED BY <1>6, <2>1 DEF ObserveCompanion, opened
<1> QED BY <1>5, <1>6
(* The companions of a pool are heard one after the other.                 *)
LEMMA AdoptedIs ==
  ASSUME NEW turn, NEW waiting, Len(waiting) \in Nat
  PROVE  \E heard :
           /\ heard[0] = turn
           /\ \A n \in 1 .. Len(waiting) : heard[n] = ObserveCompanion(heard[n - 1], waiting[n])
           /\ Adopted(turn, waiting) = heard[Len(waiting)]
<1> DEFINE Is(g, m) ==
             g = [n \in 0 .. m |-> IF n = 0 THEN turn ELSE ObserveCompanion(g[n - 1], waiting[n])]
           T == {m \in Nat : \E g : Is(g, m)}
<1>1. 0 \in T
  <2> DEFINE g == [n \in 0 .. 0 |-> turn]
  <2>1. Is(g, 0)
    OBVIOUS
  <2> QED BY <2>1
<1>2. ASSUME NEW m \in T PROVE m + 1 \in T
  <2>1. PICK g : Is(g, m)
    OBVIOUS
  <2> DEFINE h == [n \in 0 .. m + 1 |->
                     IF n = m + 1 THEN ObserveCompanion(g[m], waiting[m + 1]) ELSE g[n]]
  <2>2. ASSUME NEW n \in 0 .. m + 1
        PROVE  h[n] = IF n = 0 THEN turn ELSE ObserveCompanion(h[n - 1], waiting[n])
    <3>1. CASE n = m + 1
      BY <3>1
    <3>2. CASE n # m + 1
      <4>1. n \in 0 .. m /\ g[n] = IF n = 0 THEN turn ELSE ObserveCompanion(g[n - 1], waiting[n])
        BY <2>1, <3>2
      <4> QED BY <3>2, <4>1
    <3> QED BY <3>1, <3>2
  <2>3. Is(h, m + 1)
    BY <2>2
  <2> HIDE DEF h, Is
  <2> QED BY <2>3
<1>3. \E g : Is(g, Len(waiting))
  <2> HIDE DEF T
  <2>1. T = Nat
    BY <1>1, <1>2, InductSet DEF T
  <2> QED BY <2>1 DEF T
<1>4. PICK heard : heard = CHOOSE g : Is(g, Len(waiting))
  OBVIOUS
<1>5. Adopted(turn, waiting) = heard[Len(waiting)]
  BY <1>4 DEF Adopted
<1> HIDE DEF Is
<1>6. Is(heard, Len(waiting))
  BY <1>3, <1>4
<1>7. /\ heard[0] = turn
      /\ \A n \in 1 .. Len(waiting) : heard[n] = ObserveCompanion(heard[n - 1], waiting[n])
  BY <1>6 DEF Is
<1> QED BY <1>5, <1>7

LEMMA AdoptedSound ==
  ASSUME NEW lot \in Lot, NEW C \in SUBSET Claimed, IsFiniteSet(C), NEW R,
         NEW turn, Sound(turn, C, R), NEW waiting \in Seq(Witness),
         \A w \in ToSet(waiting) : ClaimsBy(lot, WitnessedBy(w), w) \subseteq C
  PROVE  Sound(Adopted(turn, waiting), C, R)
<1>1. Len(waiting) \in Nat
  OBVIOUS
<1>2. PICK heard :
        /\ heard[0] = turn
        /\ \A n \in 1 .. Len(waiting) : heard[n] = ObserveCompanion(heard[n - 1], waiting[n])
        /\ Adopted(turn, waiting) = heard[Len(waiting)]
  BY <1>1, AdoptedIs
<1> DEFINE T == {n \in Nat : n <= Len(waiting) => Sound(heard[n], C, R)}
<1>3. 0 \in T
  BY <1>2
<1>4. ASSUME NEW n \in T PROVE n + 1 \in T
  <2> SUFFICES ASSUME n + 1 <= Len(waiting) PROVE Sound(heard[n + 1], C, R)
    OBVIOUS
  <2>1. n + 1 \in 1 .. Len(waiting) /\ Sound(heard[n], C, R)
    OBVIOUS
  <2>2. waiting[n + 1] \in Witness /\ waiting[n + 1] \in ToSet(waiting)
    BY <2>1 DEF ToSet
  <2>3. Sound(ObserveCompanion(heard[n], waiting[n + 1]), C, R)
    BY <2>1, <2>2, CompanionSound
  <2>4. heard[n + 1] = ObserveCompanion(heard[n], waiting[n + 1])
    BY <1>2, <2>1
  <2> QED BY <2>3, <2>4
<1> HIDE DEF T
<1>5. T = Nat
  BY <1>3, <1>4, InductSet DEF T
<1>6. Sound(heard[Len(waiting)], C, R)
  BY <1>1, <1>5 DEF T
<1> QED BY <1>2, <1>6

-----------------------------------------------------------------------------
(* What was claimed of a lot grows, and a posted record or companion adds  *)
(* what it says and what its pool says.                                    *)

OfLot(S, l) == {x \in S : x.lot = l}

ClaimsOf(l, R, W) ==
  UNION ({ClaimsBy(l, SignalsOf(r), r) : r \in OfLot(R, l)}
    \cup {ClaimsBy(l, WitnessedBy(w), w) : w \in OfLot(W, l)})

LEMMA ClaimsAre ==
  ASSUME PoolsInv, NEW l
  PROVE  Claims(l) = ClaimsOf(l, records, companions)
<1>1. \A w \in companions : w.synced = TRUE
  BY WitnessSource DEF PoolsInv
<1> DEFINE Said(w) == {Claim(l, g, w.dev, w.at, TRUE) : g \in WitnessedBy(w)}
<1>2. \A w \in companions : Said(w) = ClaimsBy(l, WitnessedBy(w), w)
  BY <1>1 DEF ClaimsBy
<1>3. {Said(w) : w \in OfLot(companions, l)}
        = {ClaimsBy(l, WitnessedBy(w), w) : w \in OfLot(companions, l)}
  BY <1>2 DEF OfLot
<1>4. {{Claim(l, g, r.dev, r.at, r.synced) : g \in SignalsOf(r)} : r \in OfLot(records, l)}
        = {ClaimsBy(l, SignalsOf(r), r) : r \in OfLot(records, l)}
  BY DEF ClaimsBy
<1> QED BY <1>3, <1>4, Zenon DEF Claims, ClaimsOf, OfLot

LEMMA ClaimOf ==
  ASSUME NEW l, NEW R, NEW W
  PROVE  \A c : c \in ClaimsOf(l, R, W) <=>
           \/ \E r \in R : r.lot = l /\ c \in ClaimsBy(l, SignalsOf(r), r)
           \/ \E w \in W : w.lot = l /\ c \in ClaimsBy(l, WitnessedBy(w), w)
BY DEF ClaimsOf, OfLot

LEMMA SignalsAre ==
  /\ \A r \in Record : SignalsOf(r) \subseteq BreachSignal
  /\ \A w \in Witness : WitnessedBy(w) \subseteq BreachSignal
BY WitnessSource, EvidenceAssumption DEF SignalsOf, WitnessedBy, BreachSignal

LEMMA ClaimsFinite ==
  ASSUME NEW l \in Lot, NEW R \in SUBSET Record, NEW W \in SUBSET Witness,
         IsFiniteSet(R), IsFiniteSet(W)
  PROVE  /\ ClaimsOf(l, R, W) \in SUBSET Claimed
         /\ IsFiniteSet(ClaimsOf(l, R, W))
<1> DEFINE byRecord == [r \in OfLot(R, l) |-> ClaimsBy(l, SignalsOf(r), r)]
           byWitness == [w \in OfLot(W, l) |-> ClaimsBy(l, WitnessedBy(w), w)]
           sets == {byRecord[r] : r \in OfLot(R, l)} \cup {byWitness[w] : w \in OfLot(W, l)}
<1>1. ASSUME NEW r, IsSource(r), NEW signals \in SUBSET BreachSignal
      PROVE  ClaimsBy(l, signals, r) \in SUBSET Claimed /\ IsFiniteSet(ClaimsBy(l, signals, r))
  <2>1. ClaimsBy(l, signals, r) \in SUBSET Claimed
    BY <1>1, SeenIs DEF ClaimsBy
  <2> DEFINE claim == [g \in signals |-> Claim(l, g, r.dev, r.at, r.synced)]
  <2>2. IsFiniteSet({"TEMP"}) /\ IsFiniteSet({"TEMP", "LID"}) /\ IsFiniteSet(BreachSignal)
    <3>1. IsFiniteSet({"TEMP"})
      BY FS_Singleton
    <3>2. IsFiniteSet({"TEMP"} \cup {"LID"})
      BY <3>1, FS_AddElement
    <3>3. IsFiniteSet(({"TEMP"} \cup {"LID"}) \cup {"SHOCK"})
      BY <3>2, FS_AddElement
    <3>4. /\ {"TEMP", "LID"} = {"TEMP"} \cup {"LID"}
          /\ BreachSignal = ({"TEMP"} \cup {"LID"}) \cup {"SHOCK"}
      BY DEF BreachSignal
    <3> QED BY <3>1, <3>2, <3>3, <3>4
  <2>3. IsFiniteSet(signals)
    BY <2>2, FS_Subset
  <2>4. IsFiniteSet({claim[g] : g \in signals})
    BY <2>3, ImageFinite
  <2>5. ClaimsBy(l, signals, r) = {claim[g] : g \in signals}
    BY DEF ClaimsBy
  <2> QED BY <2>1, <2>4, <2>5
<1>2. \A r \in OfLot(R, l) : byRecord[r] \in SUBSET Claimed /\ IsFiniteSet(byRecord[r])
  BY <1>1, SignalsAre, RecordSource DEF OfLot
<1>3. \A w \in OfLot(W, l) : byWitness[w] \in SUBSET Claimed /\ IsFiniteSet(byWitness[w])
  BY <1>1, SignalsAre, WitnessSource DEF OfLot
<1>4. ClaimsOf(l, R, W) = UNION sets
  BY DEF ClaimsOf
<1>5. IsFiniteSet(OfLot(R, l)) /\ IsFiniteSet(OfLot(W, l))
  BY FS_Subset DEF OfLot
<1>6. IsFiniteSet({byRecord[r] : r \in OfLot(R, l)}) /\ IsFiniteSet({byWitness[w] : w \in OfLot(W, l)})
  BY <1>5, ImageFinite
<1>7. IsFiniteSet(sets)
  BY <1>6, FS_Union
<1>8. \A S \in sets : S \in SUBSET Claimed /\ IsFiniteSet(S)
  BY <1>2, <1>3
<1> HIDE DEF sets
<1> QED BY <1>4, <1>7, <1>8, FS_UNION
LEMMA RecordAddsClaims ==
  ASSUME WaitInv, NEW r \in Record, AddRecord(r), NEW l \in Lot
  PROVE  \A c : c \in ClaimsOf(l, records, companions)' <=>
           \/ c \in ClaimsOf(l, records, companions)
           \/ /\ r.lot = l
              /\ \/ c \in ClaimsBy(l, SignalsOf(r), r)
                 \/ \E w \in ToSet(Waiting(r.digest)) : c \in ClaimsBy(l, WitnessedBy(w), w)
<1> DEFINE pool == ToSet(Waiting(r.digest))
           Moved(w) == IF w \in pool THEN InLot(w, r.lot) ELSE w
<1> SUFFICES ASSUME NEW c
             PROVE  c \in ClaimsOf(l, records, companions)' <=>
                      \/ c \in ClaimsOf(l, records, companions)
                      \/ /\ r.lot = l
                         /\ \/ c \in ClaimsBy(l, SignalsOf(r), r)
                            \/ \E w \in pool : c \in ClaimsBy(l, WitnessedBy(w), w)
  OBVIOUS
<1>1. companions' = {Moved(w) : w \in companions} /\ records' = records \cup {r}
  BY DEF AddRecord
<1>2. \A w \in pool : w \in companions /\ w \in Witness /\ w.lot = NoLot
  BY WaitingIs DEF WaitInv, PoolsInv
<1>3. \A w \in pool : /\ Moved(w).lot = r.lot
                      /\ ClaimsBy(l, WitnessedBy(Moved(w)), Moved(w)) = ClaimsBy(l, WitnessedBy(w), w)
  <2> SUFFICES ASSUME NEW w \in pool
               PROVE  /\ Moved(w).lot = r.lot
                      /\ ClaimsBy(l, WitnessedBy(Moved(w)), Moved(w)) = ClaimsBy(l, WitnessedBy(w), w)
    OBVIOUS
  <2>1. w \in Witness /\ r.lot \in Place
    BY <1>2, RecordPlace
  <2> DEFINE m == InLot(w, r.lot)
  <2>2. /\ m \in Witness /\ m.lot = r.lot /\ m.dev = w.dev /\ m.at = w.at
        /\ m.flags = w.flags /\ m.imu = w.imu
    BY <2>1, InLotIs
  <2>3. m.synced = w.synced
    BY <2>1, <2>2, WitnessSource
  <2>4. Moved(w) = m
    OBVIOUS
  <2> HIDE DEF m, Moved, pool
  <2> QED BY <2>2, <2>3, <2>4 DEF WitnessedBy, ClaimsBy
<1>4. \A w \in companions \ pool : Moved(w) = w
  OBVIOUS
<1>5. NoLot # l
  BY EvidenceAssumption
<1>6. c \in ClaimsOf(l, records, companions)' <=>
        \/ \E s \in records' : s.lot = l /\ c \in ClaimsBy(l, SignalsOf(s), s)
        \/ \E w \in companions' : w.lot = l /\ c \in ClaimsBy(l, WitnessedBy(w), w)
  BY ClaimOf
<1>7. c \in ClaimsOf(l, records, companions) <=>
        \/ \E s \in records : s.lot = l /\ c \in ClaimsBy(l, SignalsOf(s), s)
        \/ \E w \in companions : w.lot = l /\ c \in ClaimsBy(l, WitnessedBy(w), w)
  BY ClaimOf
<1> HIDE DEF Moved, pool
<1>8. (\E w \in companions' : w.lot = l /\ c \in ClaimsBy(l, WitnessedBy(w), w)) <=>
        \/ \E w \in companions : w.lot = l /\ c \in ClaimsBy(l, WitnessedBy(w), w)
        \/ r.lot = l /\ \E w \in pool : c \in ClaimsBy(l, WitnessedBy(w), w)
  <2>1. ASSUME NEW w \in companions
        PROVE  (Moved(w).lot = l /\ c \in ClaimsBy(l, WitnessedBy(Moved(w)), Moved(w))) <=>
                 \/ w.lot = l /\ c \in ClaimsBy(l, WitnessedBy(w), w)
                 \/ w \in pool /\ r.lot = l /\ c \in ClaimsBy(l, WitnessedBy(w), w)
    <3>1. CASE w \in pool
      BY <1>2, <1>3, <1>5, <3>1
    <3>2. CASE w \notin pool
      BY <1>4, <3>2
    <3> QED BY <3>1, <3>2
  <2> QED BY <1>1, <1>2, <2>1
<1> QED BY <1>1, <1>6, <1>7, <1>8

LEMMA CompanionAddsClaims ==
  ASSUME NEW w, UNCHANGED records, companions' = companions \cup {w}, NEW l
  PROVE  \A c : c \in ClaimsOf(l, records, companions)' <=>
           \/ c \in ClaimsOf(l, records, companions)
           \/ w.lot = l /\ c \in ClaimsBy(l, WitnessedBy(w), w)
<1> SUFFICES ASSUME NEW c
             PROVE  c \in ClaimsOf(l, records, companions)' <=>
                      \/ c \in ClaimsOf(l, records, companions)
                      \/ w.lot = l /\ c \in ClaimsBy(l, WitnessedBy(w), w)
  OBVIOUS
<1>1. c \in ClaimsOf(l, records, companions)' <=>
        \/ \E s \in records' : s.lot = l /\ c \in ClaimsBy(l, SignalsOf(s), s)
        \/ \E x \in companions' : x.lot = l /\ c \in ClaimsBy(l, WitnessedBy(x), x)
  BY ClaimOf
<1>2. c \in ClaimsOf(l, records, companions) <=>
        \/ \E s \in records : s.lot = l /\ c \in ClaimsBy(l, SignalsOf(s), s)
        \/ \E x \in companions : x.lot = l /\ c \in ClaimsBy(l, WitnessedBy(x), x)
  BY ClaimOf
<1> QED BY <1>1, <1>2

-----------------------------------------------------------------------------
(* The engine rests on what the gateway holds, lot by lot.                 *)
EngineInv ==
  /\ IsFiniteSet(records) /\ IsFiniteSet(companions)
  /\ engine \in [Lot -> State]
  /\ \A l \in Lot : RestsOn(engine[l], ClaimsOf(l, records, companions), OfLot(records, l))
  /\ \A l \in flaggedLots :
       /\ l \in Lot
       /\ CorroboratedBy(ClaimsOf(l, records, companions)) \/ HotBy(OfLot(records, l))

GroundedInv == WaitInv /\ EngineInv

LEMMA RestsOnMore ==
  ASSUME NEW state, NEW C, NEW D, NEW R, NEW Q, RestsOn(state, C, R), C \subseteq D, R \subseteq Q
  PROVE  RestsOn(state, D, Q)
BY DEF RestsOn

(* A lot's turn that is sound leaves the engine sound, and nobody else's   *)
(* grounds shrink.                                                         *)
LEMMA GroundsGrow ==
  ASSUME EngineInv, PoolsInv', records \subseteq records',
         IsFiniteSet(records'), IsFiniteSet(companions'),
         \A l \in Lot : ClaimsOf(l, records, companions) \subseteq ClaimsOf(l, records, companions)',
         \/ Unmoved
         \/ \E l \in Lot : \E turn :
              /\ Conclude(l, turn)
              /\ Sound(turn, ClaimsOf(l, records, companions)', OfLot(records, l)')
  PROVE  EngineInv'
<1>1. \A l : OfLot(records, l) \subseteq OfLot(records, l)'
  BY DEF OfLot
<1>2. \A l \in Lot : IsFiniteSet(ClaimsOf(l, records, companions)')
  BY ClaimsFinite DEF PoolsInv
<1>3. \A l \in Lot : RestsOn(engine[l], ClaimsOf(l, records, companions)', OfLot(records, l)')
  BY <1>1, RestsOnMore DEF EngineInv
<1>4. \A l \in flaggedLots :
        /\ l \in Lot
        /\ CorroboratedBy(ClaimsOf(l, records, companions)') \/ HotBy(OfLot(records, l)')
  <2> SUFFICES ASSUME NEW l \in flaggedLots
               PROVE  /\ l \in Lot
                      /\ CorroboratedBy(ClaimsOf(l, records, companions)') \/ HotBy(OfLot(records, l)')
    OBVIOUS
  <2>1. l \in Lot /\ (CorroboratedBy(ClaimsOf(l, records, companions)) \/ HotBy(OfLot(records, l)))
    BY DEF EngineInv
  <2>2. CASE CorroboratedBy(ClaimsOf(l, records, companions))
    BY <1>2, <2>1, <2>2, MoreClaims
  <2>3. CASE HotBy(OfLot(records, l))
    BY <1>1, <2>1, <2>3 DEF HotBy
  <2> QED BY <2>1, <2>2, <2>3
<1>5. CASE Unmoved
  BY <1>3, <1>4, <1>5 DEF EngineInv, Unmoved
<1>6. CASE \E l \in Lot : \E turn :
             /\ Conclude(l, turn)
             /\ Sound(turn, ClaimsOf(l, records, companions)', OfLot(records, l)')
  <2>a. PICK l \in Lot : \E turn :
             /\ Conclude(l, turn)
             /\ Sound(turn, ClaimsOf(l, records, companions)', OfLot(records, l)')
    BY <1>6
  <2>1. PICK turn :
             /\ Conclude(l, turn)
             /\ Sound(turn, ClaimsOf(l, records, companions)', OfLot(records, l)')
    BY <2>a
  <2>2. turn.state \in State
    BY <2>1 DEF Sound, Turn
  <2>3. engine' = [engine EXCEPT ![l] = turn.state] /\ engine \in [Lot -> State]
    BY <2>1 DEF Conclude, EngineInv
  <2>4. engine' \in [Lot -> State]
    BY <2>2, <2>3
  <2>5. \A k \in Lot : RestsOn(engine'[k], ClaimsOf(k, records, companions)', OfLot(records, k)')
    BY <1>3, <2>1, <2>3 DEF Sound
  <2>6. \A k \in flaggedLots' :
        /\ k \in Lot
        /\ CorroboratedBy(ClaimsOf(k, records, companions)') \/ HotBy(OfLot(records, k)')
    <3>1. Flags(turn.found) =>
            CorroboratedBy(ClaimsOf(l, records, companions)') \/ HotBy(OfLot(records, l)')
      BY <2>1 DEF Flags, Sound
    <3>2. flaggedLots' = IF Flags(turn.found) THEN flaggedLots \cup {l} ELSE flaggedLots
      BY <2>1 DEF Conclude
    <3> QED BY <1>4, <3>1, <3>2
  <2> QED BY <2>4, <2>5, <2>6 DEF EngineInv
<1> QED BY <1>5, <1>6
LEMMA RecordKeepsGrounds ==
  ASSUME GroundedInv, NEW r \in Record, AddRecord(r)
  PROVE  GroundedInv'
<1> USE DEF GroundedInv
<1>1. WaitInv'
  BY RecordKeepsWaiting
<1>2. records' = records \cup {r} /\ IsFiniteSet(records')
  BY FS_AddElement DEF AddRecord, EngineInv
<1>3. IsFiniteSet(companions')
  <2> DEFINE moved == [w \in companions |->
                         IF w \in ToSet(Waiting(r.digest)) THEN InLot(w, r.lot) ELSE w]
  <2>1. IsFiniteSet({moved[w] : w \in companions})
    BY ImageFinite DEF EngineInv
  <2>2. companions' = {moved[w] : w \in companions}
    BY DEF AddRecord
  <2> QED BY <2>1, <2>2
<1>4. \A l \in Lot : ClaimsOf(l, records, companions) \subseteq ClaimsOf(l, records, companions)'
  BY RecordAddsClaims
<1>5. CASE r.lot = ZeroLot
  <2>1. Unmoved
    BY <1>5 DEF AddRecord
  <2> QED BY <1>1, <1>2, <1>3, <1>4, <2>1, GroundsGrow DEF WaitInv
<1>6. CASE r.lot # ZeroLot
  <2> DEFINE l == r.lot
             heard == ObserveRecord(engine[l], r)
             turn == Adopted(heard, Waiting(r.digest))
  <2>1. l \in Lot
    BY <1>6, EvidenceAssumption
  <2>2. Conclude(l, turn)
    BY <1>6 DEF AddRecord
  <2>3. PICK C : C = ClaimsOf(l, records, companions)'
    OBVIOUS
  <2>4. PICK R : R = OfLot(records, l)'
    OBVIOUS
  <2>5. C \in SUBSET Claimed /\ IsFiniteSet(C)
    BY <1>1, <1>2, <1>3, <2>1, <2>3, ClaimsFinite DEF WaitInv, PoolsInv
  <2>6. r \in R /\ OfLot(records, l) \subseteq R
    BY <1>2, <2>4 DEF OfLot
  <2>7. engine[l] \in State /\ RestsOn(engine[l], C, R)
    BY <1>4, <2>1, <2>3, <2>6, RestsOnMore DEF EngineInv
  <2>8. /\ ClaimsBy(l, SignalsOf(r), r) \subseteq C
        /\ \A w \in ToSet(Waiting(r.digest)) : ClaimsBy(l, WitnessedBy(w), w) \subseteq C
    BY <2>1, <2>3, RecordAddsClaims
  <2>9. Waiting(r.digest) \in Seq(Witness)
    BY WaitingIs DEF WaitInv
  <2> HIDE DEF l
  <2>10. Sound(heard, C, R)
    BY <2>1, <2>5, <2>6, <2>7, <2>8, RecordSound
  <2> HIDE DEF heard
  <2>11. Sound(turn, C, R)
    BY <2>1, <2>5, <2>8, <2>9, <2>10, AdoptedSound
  <2> HIDE DEF turn
  <2>12. \E k \in Lot : \E t :
           /\ Conclude(k, t)
           /\ Sound(t, ClaimsOf(k, records, companions)', OfLot(records, k)')
    BY <2>1, <2>2, <2>3, <2>4, <2>11
  <2> QED BY <1>1, <1>2, <1>3, <1>4, <2>12, GroundsGrow DEF WaitInv
<1> QED BY <1>5, <1>6

LEMMA CompanionKeepsGrounds ==
  ASSUME GroundedInv, NEW c \in Companion, NEW shown \in BOOLEAN, AddCompanion(c, shown),
         UNCHANGED records
  PROVE  GroundedInv'
<1> USE DEF GroundedInv
<1> DEFINE subject == {r \in records : r.digest = c.subject}
<1>1. WaitInv'
  BY CompanionKeepsWaiting
<1>2. IsFiniteSet(records') /\ records \subseteq records'
  BY DEF EngineInv
<1>3. CASE subject = {}
  <2> DEFINE w == StoredCompanion(c, shown, NoLot)
  <2>1. companions' = companions \cup {w} /\ Unmoved
    BY <1>3 DEF AddCompanion
  <2> HIDE DEF w
  <2>2. IsFiniteSet(companions')
    BY <2>1, FS_AddElement DEF EngineInv
  <2>3. \A l \in Lot : ClaimsOf(l, records, companions) \subseteq ClaimsOf(l, records, companions)'
    BY <2>1, CompanionAddsClaims
  <2> QED BY <1>1, <1>2, <2>1, <2>2, <2>3, GroundsGrow DEF WaitInv
<1>4. CASE subject # {}
  <2>1. PICK r \in subject :
          /\ companions' = companions \cup {StoredCompanion(c, shown, r.lot)}
          /\ IF r.lot = ZeroLot THEN Unmoved
             ELSE Conclude(r.lot, ObserveCompanion(NewTurn(engine[r.lot]),
                                                   StoredCompanion(c, shown, r.lot)))
    BY <1>4 DEF AddCompanion
  <2> DEFINE l == r.lot
             w == StoredCompanion(c, shown, l)
             turn == ObserveCompanion(NewTurn(engine[l]), w)
  <2>2. l \in Lot \cup {ZeroLot} /\ l \in Place
    BY RecordPlace, EvidenceAssumption DEF WaitInv, PoolsInv
  <2>3. w \in Witness /\ w.lot = l
    BY <2>2, WitnessOf
  <2>4. companions' = companions \cup {w} /\ (l = ZeroLot => Unmoved)
        /\ (l # ZeroLot => Conclude(l, turn))
    BY <2>1
  <2> HIDE DEF l, w
  <2>5. IsFiniteSet(companions')
    BY <2>4, FS_AddElement DEF EngineInv
  <2>6. \A k \in Lot : ClaimsOf(k, records, companions) \subseteq ClaimsOf(k, records, companions)'
    BY <2>4, CompanionAddsClaims
  <2>7. CASE l = ZeroLot
    BY <1>1, <1>2, <2>4, <2>5, <2>6, <2>7, GroundsGrow DEF WaitInv
  <2>8. CASE l # ZeroLot
    <3>1. l \in Lot
      BY <2>2, <2>8
    <3>2. PICK C : C = ClaimsOf(l, records, companions)'
      OBVIOUS
    <3>3. PICK R : R = OfLot(records, l)'
      OBVIOUS
    <3>4. C \in SUBSET Claimed /\ IsFiniteSet(C)
      BY <1>1, <1>2, <2>5, <3>1, <3>2, ClaimsFinite DEF WaitInv, PoolsInv
    <3>5. ClaimsBy(l, WitnessedBy(w), w) \subseteq C
      BY <2>3, <2>4, <3>1, <3>2, CompanionAddsClaims
    <3>6. OfLot(records, l) \subseteq R
      BY <1>2, <3>3 DEF OfLot
    <3>7. engine[l] \in State /\ RestsOn(engine[l], C, R)
      BY <2>6, <3>1, <3>2, <3>6, RestsOnMore DEF EngineInv
    <3>8. Sound(turn, C, R)
      BY <2>3, <3>1, <3>4, <3>5, <3>7, NewTurnSound, CompanionSound
    <3> HIDE DEF turn
    <3>9. \E k \in Lot : \E t :
            /\ Conclude(k, t)
            /\ Sound(t, ClaimsOf(k, records, companions)', OfLot(records, k)')
      BY <2>4, <2>8, <3>1, <3>2, <3>3, <3>8
    <3> QED BY <1>1, <1>2, <2>5, <2>6, <3>9, GroundsGrow DEF WaitInv
  <2> QED BY <2>7, <2>8
<1> QED BY <1>3, <1>4

LEMMA GroundedStart == Init => GroundedInv
<1> SUFFICES ASSUME Init PROVE GroundedInv
  OBVIOUS
<1>1. IsFiniteSet(records) /\ IsFiniteSet(companions)
  BY FS_EmptySet DEF Init
<1>2. NewLotState \in State /\ NewLotState.observations = {} /\ NewLotState.excursionStart = {}
  BY DEF NewLotState, State
<1>3. engine = [l \in Lot |-> NewLotState] /\ flaggedLots = {}
  BY DEF Init
<1>4. EngineInv
  BY <1>1, <1>2, <1>3 DEF EngineInv, RestsOn
<1> QED BY <1>4, WaitStart DEF GroundedInv

LEMMA GroundedStep == GroundedInv /\ [Next]_evidenceVars => GroundedInv'
<1> SUFFICES ASSUME GroundedInv, [Next]_evidenceVars PROVE GroundedInv'
  OBVIOUS
<1>1. ASSUME NEW r \in Record, PostRecord(r) PROVE GroundedInv'
  BY <1>1, RecordKeepsGrounds DEF PostRecord
<1>2. ASSUME NEW c \in Companion, NEW shown \in BOOLEAN, PostCompanion(c, shown) PROVE GroundedInv'
  BY <1>2, CompanionKeepsGrounds DEF PostCompanion
<1>3. CASE UNCHANGED <<records, companions, orphans, engine, incidents, flaggedLots>>
  <2>1. WaitInv'
    BY <1>3, WaitStep DEF GroundedInv, WaitInv, PoolsInv, NoWitnessLost, Waiting
  <2>2. EngineInv'
    BY <1>3 DEF GroundedInv, EngineInv
  <2> QED BY <2>1, <2>2 DEF GroundedInv
<1> QED BY <1>1, <1>2, <1>3 DEF Next, Register, evidenceVars

(* "Neither can be triggered by a lone spike" (consensus.ts:20): no lot is *)
(* flagged without several devices' signals around one moment, or a device *)
(* out of range at two moments far enough apart, for every window, every   *)
(* threshold and every history of records, companions, replays and clocks  *)
(* that were never set.                                                    *)
THEOREM FlagIsWarrantedAlways == Spec => []FlagIsWarranted
<1>1. GroundedInv => FlagIsWarranted
  <2> SUFFICES ASSUME GroundedInv, NEW l \in flaggedLots
               PROVE  Corroborated(l) \/ \E d \in Device : HotTwice(l, d)
    BY DEF FlagIsWarranted
  <2>1. /\ l \in Lot
        /\ CorroboratedBy(ClaimsOf(l, records, companions)) \/ HotBy(OfLot(records, l))
    BY DEF GroundedInv, EngineInv
  <2>2. Claims(l) = ClaimsOf(l, records, companions)
    BY ClaimsAre DEF GroundedInv, WaitInv
  <2>3. CASE CorroboratedBy(ClaimsOf(l, records, companions))
    BY <2>2, <2>3 DEF CorroboratedBy, Corroborated, Near, Around
  <2>4. CASE HotBy(OfLot(records, l))
    <3>1. PICK r \in OfLot(records, l), s \in OfLot(records, l) :
             r.dev = s.dev /\ r.temp = "hot" /\ s.temp = "hot" /\ s.at - r.at >= Sustain
      BY <2>4 DEF HotBy
    <3>2. r \in Record
      BY DEF OfLot, GroundedInv, WaitInv, PoolsInv
    <3> QED BY <3>1, <3>2, EvidenceAssumption DEF OfLot, HotTwice
  <2> QED BY <2>1, <2>3, <2>4
<1> QED BY GroundedStart, GroundedStep, <1>1, PTL DEF Spec
-----------------------------------------------------------------------------
(* A turn is complete over the claims heard so far, C, and the findings    *)
(* made before it, F: no trusted claim is forgotten while it could still   *)
(* corroborate, and no independent pair went unnoticed.  The excuse is a   *)
(* claim newer by more than two windows, which empties the engine's list.  *)

Excused(C, c) == \E x \in C : x.at > c.at + 2 * Window

Breach(turn, F) == \E f \in F \cup turn.found : f.kind = "CONSENSUS_BREACH"

Complete(turn, C, F) ==
  /\ turn \in Turn /\ IsFiniteSet(turn.state.observations)
  /\ \A c \in C : c.trusted =>
       (\E o \in turn.state.observations : Matches(o, c)) \/ Excused(C, c)
  /\ "CONSENSUS_BREACH" \in turn.state.latched => Breach(turn, F)
  /\ \A o, p \in C : Independent(o, p) => Breach(turn, F) \/ Excused(C, o) \/ Excused(C, p)

(* The engine as the gateway configures it: it leaves the defaults of two  *)
(* kinds of signal and two devices (consensus.ts:118-119, index.ts:174).   *)
(* With more, a pair is not enough.                                        *)
TwoAreEnough == MinSignals <= 2 /\ MinDevices <= 2

LEMMA TwoOf ==
  ASSUME NEW S, IsFiniteSet(S), NEW a \in S, NEW b \in S, a # b
  PROVE  Cardinality(S) >= 2
<1>1. IsFiniteSet({a}) /\ Cardinality({a}) = 1
  BY FS_Singleton
<1>2. IsFiniteSet({a} \cup {b}) /\ Cardinality({a} \cup {b}) = 2
  <2>1. b \notin {a}
    OBVIOUS
  <2>2. /\ IsFiniteSet({a} \cup {b})
        /\ Cardinality({a} \cup {b}) = IF b \in {a} THEN Cardinality({a}) ELSE Cardinality({a}) + 1
    BY <1>1, FS_AddElement
  <2> QED BY <1>1, <2>1, <2>2
<1>3. ({a} \cup {b}) \subseteq S
  OBVIOUS
<1>4. Cardinality({a} \cup {b}) <= Cardinality(S)
  BY <1>3, FS_Subset
<1> QED BY <1>2, <1>4, FS_CardinalityType

LEMMA PairIsMany ==
  ASSUME TwoAreEnough, NEW W, IsFiniteSet(W), NEW o \in W, NEW p \in W,
         o.signal # p.signal, o.dev # p.dev
  PROVE  Many(W)
<1>1. IsFiniteSet(ClassesOf(W)) /\ IsFiniteSet(DevicesOf(W))
  BY FieldsFinite DEF ClassesOf, DevicesOf
<1>2. o.signal \in ClassesOf(W) /\ p.signal \in ClassesOf(W)
      /\ o.dev \in DevicesOf(W) /\ p.dev \in DevicesOf(W)
  BY DEF ClassesOf, DevicesOf
<1>3. Cardinality(ClassesOf(W)) >= 2 /\ Cardinality(DevicesOf(W)) >= 2
  BY <1>1, <1>2, TwoOf
<1>4. Cardinality(ClassesOf(W)) \in Nat /\ Cardinality(DevicesOf(W)) \in Nat
  BY <1>1, FS_CardinalityType
<1> QED BY <1>3, <1>4, ConfigAssumption DEF Many, TwoAreEnough

LEMMA ObserveComplete ==
  ASSUME TwoAreEnough, NEW C \in SUBSET Claimed, NEW F, NEW turn, Complete(turn, C, F),
         NEW o \in Observation, NEW c \in Claimed, Matches(o, c)
  PROVE  Complete(Observe(turn, o), C \cup {c}, F)
<1> DEFINE next == Observe(turn, o)
           window == WindowOf(turn, o)
           old == turn.state.observations
           D == C \cup {c}
<1>1. turn \in Turn /\ old \in SUBSET Observation /\ IsFiniteSet(old)
  BY DEF Complete, Turn, State
<1>2. /\ next \in Turn
      /\ next.state.observations = Kept(old \cup {o}, o)
      /\ turn.found \subseteq next.found
      /\ "CONSENSUS_BREACH" \in next.state.latched =>
           \/ "CONSENSUS_BREACH" \in turn.state.latched
           \/ \E f \in next.found : f.kind = "CONSENSUS_BREACH"
      /\ Many(window) => "CONSENSUS_BREACH" \in next.state.latched
  BY <1>1, ObserveIs
<1> HIDE DEF next
<1>3. Breach(turn, F) => Breach(next, F)
  BY <1>2 DEF Breach
<1>4. "CONSENSUS_BREACH" \in next.state.latched => Breach(next, F)
  BY <1>2, <1>3 DEF Breach, Complete
<1>5. IsFiniteSet(old \cup {o})
  BY <1>1, FS_AddElement
<1>6. /\ IsFiniteSet(next.state.observations) /\ IsFiniteSet(window)
  <2>1. Kept(old \cup {o}, o) \subseteq old \cup {o} /\ window \subseteq old \cup {o}
    BY DEF Kept, WindowOf
  <2>2. IsFiniteSet(Kept(old \cup {o}, o)) /\ IsFiniteSet(window)
    <3> HIDE DEF window, old
    <3> QED BY <1>5, <2>1, FS_Subset
  <2> QED BY <1>2, <2>2
<1>7. o.at \in Nat /\ c.at = o.at /\ c.trusted = o.correlatable /\ c.signal = o.signal /\ c.dev = o.dev
  BY DEF Matches, Observation
<1>8. o \in next.state.observations
  BY <1>2, <1>7, ConfigAssumption DEF Kept
<1>9. \A q \in C : Excused(C, q) => Excused(D, q)
  BY DEF Excused
<1>10. ASSUME NEW q \in D, q.trusted
       PROVE  (\E p \in next.state.observations : Matches(p, q)) \/ Excused(D, q)
  <2>1. CASE q = c
    BY <1>8, <2>1
  <2>2. CASE q \in C
    <3>1. CASE Excused(C, q)
      BY <1>9, <2>2, <3>1
    <3>2. CASE ~ Excused(C, q)
      <4>1. PICK p \in old : Matches(p, q)
        BY <1>10, <2>2, <3>2 DEF Complete
      <4>2. q.at = p.at /\ p.at \in Nat
        BY <1>1, <4>1 DEF Matches, Observation
      <4>3. CASE p.at >= o.at - 2 * Window
        BY <1>2, <4>1, <4>3 DEF Kept
      <4>4. CASE ~ (p.at >= o.at - 2 * Window)
        <5>1. c.at > q.at + 2 * Window
          BY <1>7, <4>2, <4>4, ConfigAssumption
        <5> QED BY <5>1 DEF Excused
      <4> QED BY <4>3, <4>4
    <3> QED BY <3>1, <3>2
  <2> QED BY <2>1, <2>2
<1>11. ASSUME NEW q \in C, Independent(c, q), ~ Excused(D, q)
       PROVE  Breach(next, F)
  <2>1. /\ c.trusted /\ q.trusted /\ c.signal # q.signal /\ c.dev # q.dev
        /\ Distance(c.at, q.at) <= Window
    BY <1>11 DEF Independent
  <2>2. PICK p \in old : Matches(p, q)
    BY <1>9, <1>11, <2>1 DEF Complete
  <2>3. p.at \in Nat /\ p.at = q.at /\ p.signal = q.signal /\ p.dev = q.dev
        /\ p.correlatable = q.trusted
    BY <1>1, <2>2 DEF Matches, Observation
  <2>4. InWindow(o, p)
    BY <1>7, <2>1, <2>3 DEF InWindow
  <2>5. p.at >= o.at - 2 * Window
    <3>1. p.at >= o.at - Window
      <4>1. \A a, b \in Nat : Distance(a, b) <= Window => b >= a - Window
        BY DistanceIs
      <4> QED BY <1>7, <2>1, <2>3, <4>1
    <3> QED BY <1>7, <2>3, <3>1, ConfigAssumption
  <2>6. p \in window
    BY <2>4, <2>5 DEF WindowOf, Kept
  <2>7. o \in window
    <3>1. Distance(o.at, o.at) = 0
      BY <1>7 DEF Distance
    <3>2. InWindow(o, o)
      BY <1>7, <2>1, <3>1, ConfigAssumption DEF InWindow
    <3>3. o \in Kept(old \cup {o}, o)
      BY <1>2, <1>8
    <3> QED BY <3>2, <3>3 DEF WindowOf
  <2>8. Many(window)
    BY <1>6, <1>7, <2>1, <2>3, <2>6, <2>7, PairIsMany
  <2> QED BY <1>2, <1>4, <2>8
<1>12. ASSUME NEW q \in D, NEW p \in D, Independent(q, p)
       PROVE  Breach(next, F) \/ Excused(D, q) \/ Excused(D, p)
  <2>1. q.signal # p.signal
    BY <1>12 DEF Independent
  <2>2. q \in Claimed /\ p \in Claimed /\ q.at \in Nat /\ p.at \in Nat
    BY DEF Claimed
  <2>3. Independent(p, q)
    BY <1>12, <2>2, DistanceIs DEF Independent
  <2>4. CASE q \in C /\ p \in C
    BY <1>3, <1>9, <1>12, <2>4 DEF Complete
  <2>5. CASE q = c /\ p \in C
    BY <1>11, <1>12, <2>5
  <2>6. CASE p = c /\ q \in C
    BY <1>11, <2>3, <2>6
  <2> QED BY <2>1, <2>4, <2>5, <2>6
<1> QED BY <1>2, <1>4, <1>6, <1>10, <1>12 DEF Complete, next

LEMMA SameObservations ==
  ASSUME NEW C, NEW F, NEW turn, Complete(turn, C, F), NEW next \in Turn,
         next.state.observations = turn.state.observations,
         "CONSENSUS_BREACH" \in next.state.latched => "CONSENSUS_BREACH" \in turn.state.latched,
         turn.found \subseteq next.found
  PROVE  Complete(next, C, F)
<1>1. Breach(turn, F) => Breach(next, F)
  BY DEF Breach
<1> QED BY <1>1 DEF Complete

LEMMA ClaimsByType ==
  ASSUME NEW lot \in Lot, NEW r, IsSource(r), NEW signals \in SUBSET BreachSignal
  PROVE  ClaimsBy(lot, signals, r) \in SUBSET Claimed
BY SeenIs DEF ClaimsBy

LEMMA FlagComplete ==
  ASSUME TwoAreEnough, NEW lot \in Lot, NEW C \in SUBSET Claimed, NEW F,
         NEW turn, Complete(turn, C, F), NEW r, IsSource(r), NEW signal \in BreachSignal
  PROVE  Complete(ObserveFlag(turn, signal, r), C \cup ClaimsBy(lot, r.flags \cap {signal}, r), F)
<1>1. CASE signal \in r.flags
  <2>1. r.flags \cap {signal} = {signal}
    BY <1>1
  <2>2. ClaimsBy(lot, {signal}, r) = {Claim(lot, signal, r.dev, r.at, r.synced)}
    BY DEF ClaimsBy
  <2>3. Complete(Observe(turn, Seen(signal, r)),
                 C \cup {Claim(lot, signal, r.dev, r.at, r.synced)}, F)
    BY SeenIs, ObserveComplete
  <2> QED BY <1>1, <2>1, <2>2, <2>3 DEF ObserveFlag
<1>2. CASE signal \notin r.flags
  <2>1. r.flags \cap {signal} = {} /\ ClaimsBy(lot, {}, r) = {}
    BY <1>2 DEF ClaimsBy
  <2>2. C \cup ClaimsBy(lot, r.flags \cap {signal}, r) = C
    BY <2>1
  <2> QED BY <1>2, <2>2 DEF ObserveFlag
<1> QED BY <1>1, <1>2
LEMMA RecordComplete ==
  ASSUME TwoAreEnough, NEW lot \in Lot, NEW C \in SUBSET Claimed, NEW F,
         NEW state, Complete(NewTurn(state), C, F), NEW r \in Record
  PROVE  Complete(ObserveRecord(state, r), C \cup ClaimsBy(lot, SignalsOf(r), r), F)
<1> DEFINE temp == CASE r.temp = "hot" ->
                          TrackExcursion(Observe(NewTurn(state), Seen("TEMP", r)), r)
                     [] r.temp = "ok" -> Recover(NewTurn(state), r)
                     [] r.temp = "faulted" -> NewTurn(state)
           hot == IF r.temp = "hot" THEN {"TEMP"} ELSE {}
           C1 == C \cup ClaimsBy(lot, hot, r)
           C2 == C1 \cup ClaimsBy(lot, r.flags \cap {"LID"}, r)
           C3 == C2 \cup ClaimsBy(lot, r.flags \cap {"SHOCK"}, r)
<1>1. /\ IsSource(r) /\ r.temp \in {"hot", "ok", "faulted"} /\ r.flags \subseteq {"LID", "SHOCK"}
      /\ {"LID", "SHOCK", "TEMP"} \subseteq BreachSignal
  BY RecordSource, EvidenceAssumption DEF BreachSignal
<1>2. Complete(temp, C1, F)
  <2>1. CASE r.temp = "hot"
    <3> DEFINE seen1 == Observe(NewTurn(state), Seen("TEMP", r))
    <3>1. ClaimsBy(lot, hot, r) = {Claim(lot, "TEMP", r.dev, r.at, r.synced)}
      BY <2>1 DEF ClaimsBy
    <3>2. Complete(seen1, C1, F)
      BY <1>1, <3>1, SeenIs, ObserveComplete
    <3> HIDE DEF seen1, C1
    <3>3. seen1 \in Turn
      BY <3>2 DEF Complete
    <3>4. LET next == TrackExcursion(seen1, r)
          IN /\ next \in Turn /\ next.state.observations = seen1.state.observations
             /\ seen1.found \subseteq next.found
             /\ "CONSENSUS_BREACH" \in next.state.latched =>
                  "CONSENSUS_BREACH" \in seen1.state.latched
      BY <3>3, TrackIs
    <3>5. Complete(TrackExcursion(seen1, r), C1, F)
      BY <3>2, <3>4, SameObservations
    <3> QED BY <2>1, <3>5 DEF seen1
  <2>2. CASE r.temp # "hot"
    <3>1. ClaimsBy(lot, hot, r) = {}
      BY <2>2 DEF ClaimsBy
    <3>2. C1 = C
      BY <3>1
    <3>3. CASE r.temp = "ok"
      <4>1. NewTurn(state) \in Turn
        BY DEF Complete
      <4>2. LET next == Recover(NewTurn(state), r)
            IN /\ next \in Turn /\ next.state.observations = NewTurn(state).state.observations
               /\ NewTurn(state).found \subseteq next.found
               /\ "CONSENSUS_BREACH" \in next.state.latched =>
                    "CONSENSUS_BREACH" \in NewTurn(state).state.latched
        BY <4>1, RecoverIs
      <4>3. Complete(Recover(NewTurn(state), r), C, F)
        BY <4>2, SameObservations
      <4>4. temp = Recover(NewTurn(state), r)
        BY <3>3
      <4> QED BY <3>2, <4>3, <4>4
    <3>4. CASE r.temp = "faulted"
      BY <3>2, <3>4
    <3> QED BY <1>1, <2>2, <3>3, <3>4
  <2> QED BY <2>1, <2>2
<1>3. hot \in SUBSET BreachSignal
  BY <1>1
<1>4. C1 \in SUBSET Claimed
  BY <1>1, <1>3, ClaimsByType
<1> HIDE DEF temp, C1
<1>5. Complete(ObserveFlag(temp, "LID", r), C2, F) /\ C2 \in SUBSET Claimed
  BY <1>1, <1>2, <1>4, FlagComplete, ClaimsByType
<1> HIDE DEF C2
<1>6. Complete(ObserveFlag(ObserveFlag(temp, "LID", r), "SHOCK", r), C3, F)
  BY <1>1, <1>5, FlagComplete
<1>7. C3 = C \cup ClaimsBy(lot, SignalsOf(r), r)
  <2>1. SignalsOf(r) = hot \cup (r.flags \cap {"LID"}) \cup (r.flags \cap {"SHOCK"})
    BY <1>1 DEF SignalsOf
  <2> HIDE DEF hot
  <2> QED BY <2>1 DEF C1, C2, ClaimsBy
<1> QED BY <1>6, <1>7 DEF ObserveRecord, temp

LEMMA CompanionComplete ==
  ASSUME TwoAreEnough, NEW lot \in Lot, NEW C \in SUBSET Claimed, NEW F,
         NEW turn, Complete(turn, C, F), NEW w \in Witness
  PROVE  Complete(ObserveCompanion(turn, w), C \cup ClaimsBy(lot, WitnessedBy(w), w), F)
<1> DEFINE opened == ObserveFlag(turn, "LID", w)
           C1 == C \cup ClaimsBy(lot, w.flags \cap {"LID"}, w)
           C2 == C1 \cup ClaimsBy(lot, w.flags \cap {"SHOCK"}, w)
<1>1. /\ IsSource(w) /\ w.flags \subseteq {"LID", "SHOCK"} /\ {"LID", "SHOCK"} \subseteq BreachSignal
  BY WitnessSource DEF BreachSignal
<1>2. Complete(opened, C1, F) /\ C1 \in SUBSET Claimed
  BY <1>1, FlagComplete, ClaimsByType
<1> HIDE DEF opened
<1>3. CASE w.imu = "weak"
  <2>1. WitnessedBy(w) = w.flags \cap {"LID"}
    BY <1>1, <1>3 DEF WitnessedBy
  <2> QED BY <1>2, <1>3, <2>1 DEF ObserveCompanion, opened
<1>4. CASE w.imu # "weak"
  <2>1. WitnessedBy(w) = (w.flags \cap {"LID"}) \cup (w.flags \cap {"SHOCK"})
    BY <1>1, <1>4 DEF WitnessedBy
  <2>2. C2 = C \cup ClaimsBy(lot, WitnessedBy(w), w)
    BY <2>1 DEF ClaimsBy
  <2> HIDE DEF C1
  <2>3. Complete(ObserveFlag(opened, "SHOCK", w), C2, F)
    BY <1>1, <1>2, FlagComplete
  <2> QED BY <1>4, <2>2, <2>3 DEF ObserveCompanion, opened
<1> QED BY <1>3, <1>4

LEMMA AdoptedComplete ==
  ASSUME TwoAreEnough, NEW lot \in Lot, NEW C \in SUBSET Claimed, NEW F,
         NEW turn, Complete(turn, C, F), NEW waiting \in Seq(Witness)
  PROVE  Complete(Adopted(turn, waiting),
                  C \cup UNION {ClaimsBy(lot, WitnessedBy(w), w) : w \in ToSet(waiting)}, F)
<1>1. Len(waiting) \in Nat /\ DOMAIN waiting = 1 .. Len(waiting)
  OBVIOUS
<1>2. PICK heard :
        /\ heard[0] = turn
        /\ \A n \in 1 .. Len(waiting) : heard[n] = ObserveCompanion(heard[n - 1], waiting[n])
        /\ Adopted(turn, waiting) = heard[Len(waiting)]
  BY <1>1, AdoptedIs
<1> DEFINE Said(i) == ClaimsBy(lot, WitnessedBy(waiting[i]), waiting[i])
           D(n) == C \cup UNION {Said(i) : i \in 1 .. n}
           T == {n \in Nat : n <= Len(waiting) => Complete(heard[n], D(n), F) /\ D(n) \in SUBSET Claimed}
<1>3. 0 \in T
  <2>1. D(0) = C
    OBVIOUS
  <2> HIDE DEF D
  <2> QED BY <1>2, <2>1
<1>4. ASSUME NEW n \in T PROVE n + 1 \in T
  <2> SUFFICES ASSUME n + 1 <= Len(waiting)
               PROVE  Complete(heard[n + 1], D(n + 1), F) /\ D(n + 1) \in SUBSET Claimed
    OBVIOUS
  <2>1. n + 1 \in 1 .. Len(waiting) /\ Complete(heard[n], D(n), F) /\ D(n) \in SUBSET Claimed
    <3> HIDE DEF D
    <3> QED OBVIOUS
  <2>2. waiting[n + 1] \in Witness
    BY <2>1
  <2>3. D(n + 1) = D(n) \cup Said(n + 1)
    <3>1. 1 .. n + 1 = (1 .. n) \cup {n + 1}
      OBVIOUS
    <3> HIDE DEF Said
    <3> QED BY <3>1
  <2> HIDE DEF D
  <2>4. Complete(ObserveCompanion(heard[n], waiting[n + 1]), D(n) \cup Said(n + 1), F)
    BY <2>1, <2>2, CompanionComplete
  <2>5. heard[n + 1] = ObserveCompanion(heard[n], waiting[n + 1])
    BY <1>2, <2>1
  <2>6. Said(n + 1) \in SUBSET Claimed
    BY <2>2, WitnessSource, SignalsAre, ClaimsByType
  <2> QED BY <2>1, <2>3, <2>4, <2>5, <2>6
<1> HIDE DEF T
<1>5. T = Nat
  BY <1>3, <1>4, InductSet DEF T
<1>6. Complete(heard[Len(waiting)], D(Len(waiting)), F)
  <2> HIDE DEF D
  <2> QED BY <1>1, <1>5 DEF T
<1>7. D(Len(waiting)) = C \cup UNION {ClaimsBy(lot, WitnessedBy(w), w) : w \in ToSet(waiting)}
  BY <1>1 DEF ToSet
<1> HIDE DEF D
<1> QED BY <1>2, <1>6, <1>7
-----------------------------------------------------------------------------
IncidentsOf(l) == {i \in incidents : i.lot = l}

CompleteInv ==
  \A l \in Lot : Complete(NewTurn(engine[l]), ClaimsOf(l, records, companions), IncidentsOf(l))

HeardInv == GroundedInv /\ CompleteInv

LEMMA NextTurnComplete ==
  ASSUME NEW turn, NEW C, NEW F, NEW G, Complete(turn, C, F),
         Breach(turn, F) => Breach(NewTurn(turn.state), G)
  PROVE  Complete(NewTurn(turn.state), C, G)
<1>1. /\ NewTurn(turn.state) \in Turn /\ NewTurn(turn.state).state = turn.state
  BY DEF Complete, Turn, NewTurn
<1> HIDE DEF NewTurn
<1> QED BY <1>1 DEF Complete

(* A lot's turn that is complete leaves the lot complete; the other lots   *)
(* were told nothing.                                                      *)
LEMMA CompletenessKept ==
  ASSUME CompleteInv, engine \in [Lot -> State], NEW l \in Lot, NEW turn, Conclude(l, turn),
         Complete(turn, ClaimsOf(l, records, companions)', IncidentsOf(l)),
         \A k \in Lot : k # l =>
           ClaimsOf(k, records, companions)' = ClaimsOf(k, records, companions)
  PROVE  CompleteInv'
<1>1. /\ engine' = [engine EXCEPT ![l] = turn.state]
      /\ incidents' = incidents \cup {[lot |-> l, kind |-> f.kind, at |-> f.at, evidence |-> f.evidence]
                                      : f \in turn.found}
  BY DEF Conclude
<1>2. \A k : IncidentsOf(k) \subseteq IncidentsOf(k)'
  BY <1>1 DEF IncidentsOf
<1>3. Breach(turn, IncidentsOf(l)) => Breach(NewTurn(turn.state), IncidentsOf(l)')
  <2> SUFFICES ASSUME Breach(turn, IncidentsOf(l))
               PROVE  \E i \in IncidentsOf(l)' : i.kind = "CONSENSUS_BREACH"
    BY DEF Breach
  <2>1. PICK f \in IncidentsOf(l) \cup turn.found : f.kind = "CONSENSUS_BREACH"
    BY DEF Breach
  <2>2. CASE f \in IncidentsOf(l)
    BY <1>2, <2>1, <2>2
  <2>3. CASE f \in turn.found
    <3> DEFINE i == [lot |-> l, kind |-> f.kind, at |-> f.at, evidence |-> f.evidence]
    <3>1. i \in incidents' /\ i.lot = l /\ i.kind = "CONSENSUS_BREACH"
      BY <1>1, <2>1, <2>3
    <3> HIDE DEF i
    <3> QED BY <3>1 DEF IncidentsOf
  <2> QED BY <2>1, <2>2, <2>3
<1>4. Complete(NewTurn(turn.state), ClaimsOf(l, records, companions)', IncidentsOf(l)')
  BY <1>3, NextTurnComplete
<1>5. ASSUME NEW k \in Lot, k # l
      PROVE  Complete(NewTurn(engine[k]), ClaimsOf(k, records, companions)', IncidentsOf(k)')
  <2>1. Complete(NewTurn(engine[k]), ClaimsOf(k, records, companions)', IncidentsOf(k))
    BY <1>5 DEF CompleteInv
  <2>2. NewTurn(engine[k]).state = engine[k]
    BY DEF NewTurn
  <2>3. Breach(NewTurn(engine[k]), IncidentsOf(k)) => Breach(NewTurn(engine[k]), IncidentsOf(k)')
    BY <1>2 DEF Breach
  <2> QED BY <2>1, <2>2, <2>3, NextTurnComplete
<1>6. \A k \in Lot : engine'[k] = IF k = l THEN turn.state ELSE engine[k]
  BY <1>1
<1> QED BY <1>4, <1>5, <1>6 DEF CompleteInv

LEMMA UntoldStaysComplete ==
  ASSUME CompleteInv, Unmoved,
         \A k \in Lot : ClaimsOf(k, records, companions)' = ClaimsOf(k, records, companions)
  PROVE  CompleteInv'
BY DEF CompleteInv, Unmoved, IncidentsOf

LEMMA RecordKeepsComplete ==
  ASSUME TwoAreEnough, HeardInv, NEW r \in Record, AddRecord(r)
  PROVE  CompleteInv'
<1> USE DEF HeardInv, GroundedInv
<1> DEFINE pool == ToSet(Waiting(r.digest))
<1>1. \A k \in Lot : k # r.lot =>
        ClaimsOf(k, records, companions)' = ClaimsOf(k, records, companions)
  BY RecordAddsClaims
<1>2. CASE r.lot = ZeroLot
  <2>1. Unmoved
    BY <1>2 DEF AddRecord
  <2> QED BY <1>1, <1>2, <2>1, UntoldStaysComplete, EvidenceAssumption
<1>3. CASE r.lot # ZeroLot
  <2> DEFINE l == r.lot
             C0 == ClaimsOf(l, records, companions)
             F == IncidentsOf(l)
             heard == ObserveRecord(engine[l], r)
             turn == Adopted(heard, Waiting(r.digest))
             C1 == C0 \cup ClaimsBy(l, SignalsOf(r), r)
             C2 == C1 \cup UNION {ClaimsBy(l, WitnessedBy(w), w) : w \in pool}
  <2>1. l \in Lot
    BY <1>3, EvidenceAssumption
  <2>2. Conclude(l, turn)
    BY <1>3 DEF AddRecord
  <2>3. ClaimsOf(l, records, companions)' = C2
    BY <2>1, RecordAddsClaims
  <2>4. C0 \in SUBSET Claimed
    BY <2>1, ClaimsFinite DEF WaitInv, PoolsInv, EngineInv
  <2>5. Waiting(r.digest) \in Seq(Witness)
    BY WaitingIs DEF WaitInv
  <2>6. Complete(NewTurn(engine[l]), C0, F)
    BY <2>1 DEF CompleteInv
  <2>7. C1 \in SUBSET Claimed
    BY <2>1, <2>4, RecordSource, SignalsAre, ClaimsByType
  <2> HIDE DEF l, C0, F
  <2>8. Complete(heard, C1, F)
    BY <2>1, <2>4, <2>6, RecordComplete
  <2> HIDE DEF heard, C1
  <2>9. Complete(turn, C2, F)
    BY <2>1, <2>5, <2>7, <2>8, AdoptedComplete
  <2> HIDE DEF turn, C2
  <2>10. \A k \in Lot : k # l =>
           ClaimsOf(k, records, companions)' = ClaimsOf(k, records, companions)
    BY <1>1 DEF l
  <2>11. engine \in [Lot -> State] /\ Complete(turn, ClaimsOf(l, records, companions)', IncidentsOf(l))
    BY <2>3, <2>9 DEF EngineInv, F
  <2> QED BY <2>1, <2>2, <2>10, <2>11, CompletenessKept
<1> QED BY <1>2, <1>3

LEMMA CompanionKeepsComplete ==
  ASSUME TwoAreEnough, HeardInv, NEW c \in Companion, NEW shown \in BOOLEAN,
         AddCompanion(c, shown), UNCHANGED records
  PROVE  CompleteInv'
<1> USE DEF HeardInv, GroundedInv
<1> DEFINE subject == {r \in records : r.digest = c.subject}
<1>1. CASE subject = {}
  <2> DEFINE w == StoredCompanion(c, shown, NoLot)
  <2>1. companions' = companions \cup {w} /\ Unmoved
    BY <1>1 DEF AddCompanion
  <2>2. w.lot = NoLot
    BY WitnessOf DEF Place
  <2> HIDE DEF w
  <2>3. \A k \in Lot : ClaimsOf(k, records, companions)' = ClaimsOf(k, records, companions)
    <3>1. NoLot \notin Lot
      BY EvidenceAssumption
    <3> QED BY <2>1, <2>2, <3>1, CompanionAddsClaims
  <2> QED BY <2>1, <2>3, UntoldStaysComplete
<1>2. CASE subject # {}
  <2>1. PICK r \in subject :
          /\ companions' = companions \cup {StoredCompanion(c, shown, r.lot)}
          /\ IF r.lot = ZeroLot THEN Unmoved
             ELSE Conclude(r.lot, ObserveCompanion(NewTurn(engine[r.lot]),
                                                   StoredCompanion(c, shown, r.lot)))
    BY <1>2 DEF AddCompanion
  <2> DEFINE l == r.lot
             w == StoredCompanion(c, shown, l)
             turn == ObserveCompanion(NewTurn(engine[l]), w)
             C0 == ClaimsOf(l, records, companions)
             F == IncidentsOf(l)
             C1 == C0 \cup ClaimsBy(l, WitnessedBy(w), w)
  <2>2. l \in Lot \cup {ZeroLot} /\ l \in Place
    BY RecordPlace, EvidenceAssumption DEF WaitInv, PoolsInv
  <2>3. w \in Witness /\ w.lot = l
    BY <2>2, WitnessOf
  <2>4. companions' = companions \cup {w} /\ (l = ZeroLot => Unmoved)
        /\ (l # ZeroLot => Conclude(l, turn))
    BY <2>1
  <2> HIDE DEF l, w
  <2>5. \A k \in Lot : k # l =>
          ClaimsOf(k, records, companions)' = ClaimsOf(k, records, companions)
    BY <2>3, <2>4, CompanionAddsClaims
  <2>6. CASE l = ZeroLot
    BY <2>4, <2>5, <2>6, UntoldStaysComplete, EvidenceAssumption
  <2>7. CASE l # ZeroLot
    <3>1. l \in Lot /\ Conclude(l, turn)
      BY <2>2, <2>4, <2>7
    <3>2. ClaimsOf(l, records, companions)' = C1
      BY <2>3, <2>4, CompanionAddsClaims
    <3>3. C0 \in SUBSET Claimed
      BY <3>1, ClaimsFinite DEF WaitInv, PoolsInv, EngineInv
    <3>4. Complete(NewTurn(engine[l]), C0, F)
      BY <3>1 DEF CompleteInv
    <3> HIDE DEF C0, F
    <3>5. Complete(turn, C1, F)
      BY <2>3, <3>1, <3>3, <3>4, CompanionComplete
    <3> HIDE DEF turn, C1
    <3>6. engine \in [Lot -> State] /\ Complete(turn, ClaimsOf(l, records, companions)', IncidentsOf(l))
      BY <3>2, <3>5 DEF EngineInv, F
    <3> QED BY <2>5, <3>1, <3>6, CompletenessKept
  <2> QED BY <2>6, <2>7
<1> QED BY <1>1, <1>2

LEMMA HeardStart == Init => HeardInv
<1> SUFFICES ASSUME Init PROVE HeardInv
  OBVIOUS
<1>1. GroundedInv
  BY GroundedStart
<1>2. NewTurn(NewLotState) \in Turn /\ NewTurn(NewLotState).state = NewLotState
      /\ NewLotState.observations = {} /\ NewLotState.latched = {}
  BY DEF NewTurn, NewLotState, Turn, State
<1>3. engine = [l \in Lot |-> NewLotState] /\ records = {} /\ companions = {}
  BY DEF Init
<1>4. \A l : ClaimsOf(l, records, companions) = {}
  BY <1>3 DEF ClaimsOf, OfLot
<1>5. \A F : Complete(NewTurn(NewLotState), {}, F)
  BY <1>2, FS_EmptySet DEF Complete
<1> QED BY <1>1, <1>3, <1>4, <1>5 DEF HeardInv, CompleteInv

LEMMA HeardStep == TwoAreEnough /\ HeardInv /\ [Next]_evidenceVars => HeardInv'
<1> SUFFICES ASSUME TwoAreEnough, HeardInv, [Next]_evidenceVars PROVE HeardInv'
  OBVIOUS
<1>1. GroundedInv'
  BY GroundedStep DEF HeardInv
<1>2. ASSUME NEW r \in Record, PostRecord(r) PROVE CompleteInv'
  BY <1>2, RecordKeepsComplete DEF PostRecord
<1>3. ASSUME NEW c \in Companion, NEW shown \in BOOLEAN, PostCompanion(c, shown) PROVE CompleteInv'
  BY <1>3, CompanionKeepsComplete DEF PostCompanion
<1>4. CASE UNCHANGED <<records, companions, orphans, engine, incidents, flaggedLots>>
  <2>1. CompleteInv'
    <3>1. Unmoved /\ \A k \in Lot : ClaimsOf(k, records, companions)' = ClaimsOf(k, records, companions)
      BY <1>4 DEF Unmoved
    <3> QED BY <3>1, UntoldStaysComplete DEF HeardInv
  <2> QED BY <1>1, <2>1 DEF HeardInv
<1>5. HeardInv'
  BY <1>1, <1>2, <1>3, <1>4 DEF Next, Register, evidenceVars, HeardInv
<1> QED BY <1>5

(* "It fires as soon as the second class of evidence arrives"              *)
(* (consensus.ts:110-111), for every number of devices, lots, records and  *)
(* companions, every window, and every order and repetition of the posts:  *)
(* a witness ahead of its record included, unless the lot has heard of     *)
(* something newer by more than two windows.                               *)
THEOREM CorroborationIsFoundAlways ==
  ASSUME TwoAreEnough
  PROVE  Spec => []CorroborationIsFound
<1>1. HeardInv => CorroborationIsFound
  <2> SUFFICES ASSUME HeardInv, NEW l \in Lot, NEW o \in Claims(l), NEW p \in Claims(l),
                      Independent(o, p)
               PROVE  \/ \E i \in incidents : i.lot = l /\ i.kind = "CONSENSUS_BREACH"
                      \/ \E x \in Claims(l) : x.at > o.at + 2 * Window \/ x.at > p.at + 2 * Window
    BY DEF CorroborationIsFound
  <2>1. Claims(l) = ClaimsOf(l, records, companions)
    BY ClaimsAre DEF HeardInv, GroundedInv, WaitInv
  <2>2. Complete(NewTurn(engine[l]), Claims(l), IncidentsOf(l))
    BY <2>1 DEF HeardInv, CompleteInv
  <2>3. NewTurn(engine[l]).found = {}
    BY DEF NewTurn
  <2>4. Breach(NewTurn(engine[l]), IncidentsOf(l)) \/ Excused(Claims(l), o) \/ Excused(Claims(l), p)
    BY <2>2 DEF Complete
  <2> QED BY <2>3, <2>4 DEF Breach, Excused, IncidentsOf
<1>2. HeardInv /\ [Next]_evidenceVars => HeardInv'
  BY HeardStep
<1> QED BY HeardStart, <1>1, <1>2, PTL DEF Spec
=============================================================================
