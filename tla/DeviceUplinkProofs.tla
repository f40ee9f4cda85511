--------------------------- MODULE DeviceUplinkProofs -------------------------
(***************************************************************************)
(* First the gateway's chain check alone (module Verifier), for any        *)
(* devices, records and order of arrival.  Then what a node and the        *)
(* gateway keep between them, for a buffer, batches and a history of any   *)
(* length: nothing is freed on an acknowledgement that is not accounted    *)
(* for, and retries, timeouts, late requests and lost answers accuse       *)
(* nobody.                                                                 *)
(***************************************************************************)
EXTENDS DeviceUplink, FiniteSetTheorems, WellFoundedInduction, TLAPS

(* The four invariants of Verifier are inductive together: an accepted     *)
(* successor is linked because the tip it was compared with is itself in   *)
(* the store.                                                              *)
IngestInv == VerifierTypeOK /\ TipIsStored /\ AcceptedIsLinked /\ OmissionIsVisible

LEMMA IngestInit == GatewayInit => IngestInv
BY DEF GatewayInit, IngestInv, VerifierTypeOK, TipIsStored, AcceptedIsLinked,
       OmissionIsVisible, ChainState, EmptyChain, NoSeq

(* The store only grows while the process lives, so what was linked or     *)
(* accounted for stays so.                                                 *)
LEMMA LinkedGrows ==
  ASSUME NEW entries, NEW more, entries \subseteq more, NEW d, NEW n, NEW digest,
         LinkedIn(entries, d, n, digest)
  PROVE  LinkedIn(more, d, n, digest)
BY DEF LinkedIn

(* One record, judged against the chain held of its device.                *)
LEMMA IngestKeepsInv ==
  ASSUME IngestInv, NEW r \in Record, Ingest(r)
  PROVE  IngestInv'
<1> DEFINE st == chain[r.dev]
           v == Verdict(st, r)
           new == [rec |-> r, verdict |-> v]
<1>1. /\ r.dev \in Device /\ r.seq \in Nat /\ r.digest \in Digest /\ r.signed
      /\ r.prev \in Digest \cup {ZeroDigest}
  BY RecordAssumption DEF IsRecord, Ingest, Admitted
<1>2. st \in ChainState
  BY <1>1 DEF IngestInv, VerifierTypeOK
<1>3. st.seq \in Nat \cup {NoSeq} /\ st.digest \in Digest \cup {ZeroDigest}
  BY <1>2 DEF ChainState
<1>4. v \in Verdicts
  BY DEF Verdict, Verdicts
<1>5. log' = log \cup {new} /\ log \subseteq log' /\ new \in log'
  BY DEF Ingest, Logged
<1>6. chain' = [chain EXCEPT ![r.dev] = NextChain(st, r)]
  BY DEF Ingest
<1>7. \A d \in Device : chain'[d] = IF d = r.dev THEN NextChain(st, r) ELSE chain[d]
  BY <1>1, <1>6 DEF IngestInv, VerifierTypeOK
<1>8. VerifierTypeOK'
  <2>1. NextChain(st, r) \in ChainState
    BY <1>1, <1>2 DEF NextChain, ChainState
  <2>2. chain' \in [Device -> ChainState]
    BY <1>6, <2>1 DEF IngestInv, VerifierTypeOK
  <2>3. log' \subseteq Entry /\ \A e \in log' : e.rec.signed
    BY <1>1, <1>4, <1>5 DEF IngestInv, VerifierTypeOK, Entry
  <2> QED BY <2>2, <2>3 DEF IngestInv, VerifierTypeOK, Ingest
<1>9. TipIsStored'
  <2> SUFFICES ASSUME NEW d \in Device, chain'[d].seq # NoSeq
               PROVE  LinkedIn(log', d, chain'[d].seq, chain'[d].digest)
    BY DEF TipIsStored
  <2>1. CASE d = r.dev /\ Advances(v)
    <3>1. chain'[d] = [seq |-> r.seq, digest |-> r.digest]
      BY <2>1, <1>7 DEF NextChain
    <3>2. new.rec = r /\ new.verdict = v
      OBVIOUS
    <3>3. new \in log' /\ r.dev = d /\ Advances(new.verdict)
      BY <2>1, <1>5, <3>2
    <3> QED BY <3>1, <3>2, <3>3 DEF LinkedIn
  <2>2. CASE ~(d = r.dev /\ Advances(v))
    <3>1. chain'[d] = chain[d]
      BY <2>2, <1>7 DEF NextChain
    <3> QED BY <3>1, <1>5, LinkedGrows DEF IngestInv, TipIsStored
  <2> QED BY <2>1, <2>2
<1>10. AcceptedIsLinked'
  <2> SUFFICES ASSUME NEW e \in log', e.verdict = "ACCEPT"
               PROVE  \/ e.rec.seq = 0 /\ e.rec.prev = ZeroDigest
                      \/ LinkedIn(log', e.rec.dev, e.rec.seq - 1, e.rec.prev)
    BY DEF AcceptedIsLinked
  <2>1. CASE e \in log
    BY <2>1, <1>5, LinkedGrows DEF IngestInv, AcceptedIsLinked
  <2>2. CASE e = new
    <3>1. v = "ACCEPT"
      BY <2>2
    <3>2. CASE st.seq = NoSeq
      BY <3>1, <3>2, <2>2 DEF Verdict
    <3>3. CASE st.seq # NoSeq
      <4>1. r.seq = st.seq + 1 /\ r.prev = st.digest /\ st.seq \in Nat
        BY <3>1, <3>3, <1>1, <1>3 DEF Verdict
      <4>2. LinkedIn(log, r.dev, st.seq, st.digest)
        BY <3>3, <1>1 DEF IngestInv, TipIsStored
      <4>3. LinkedIn(log', r.dev, r.seq - 1, r.prev)
        BY <4>1, <4>2, <1>5, LinkedGrows
      <4> QED BY <4>3, <2>2
    <3> QED BY <3>2, <3>3
  <2> QED BY <2>1, <2>2, <1>5
<1>11. OmissionIsVisible'
  <2> SUFFICES ASSUME NEW d \in Device, NEW n \in 0 .. chain'[d].seq
               PROVE  Stored(d, n)' \/ GapAbove(d, n)'
    BY DEF OmissionIsVisible
  <2>1. CASE n \in 0 .. chain[d].seq
    <3>1. Stored(d, n) \/ GapAbove(d, n)
      BY <2>1 DEF IngestInv, OmissionIsVisible
    <3> QED BY <3>1, <1>5 DEF Stored, GapAbove
  <2>2. CASE n \notin 0 .. chain[d].seq
    <3>1. d = r.dev /\ Advances(v) /\ chain'[d].seq = r.seq
      BY <2>2, <1>7 DEF NextChain
    <3>2. CASE n = r.seq
      BY <3>1, <3>2, <1>5 DEF Stored
    <3>3. CASE n # r.seq
      <4>1. n \in Nat /\ n < r.seq /\ ~(n <= st.seq)
        BY <3>1, <3>3, <2>2, <1>1, <1>3 DEF NoSeq
      <4>2. v = "CHAIN_GAP"
        BY <4>1, <1>1, <1>3, <3>1 DEF Verdict, Advances, NoSeq
      <4> QED BY <4>1, <4>2, <3>1, <1>5 DEF GapAbove
    <3> QED BY <3>2, <3>3
  <2> QED BY <2>1, <2>2
<1> QED BY <1>8, <1>9, <1>10, <1>11 DEF IngestInv

LEMMA IngestStep == IngestInv /\ [VerifierNext]_gatewayVars => IngestInv'
<1> SUFFICES ASSUME IngestInv, [VerifierNext]_gatewayVars PROVE IngestInv'
  OBVIOUS
<1>1. ASSUME UNCHANGED <<chain, log>>, (active \subseteq known /\ known \subseteq Device)'
      PROVE  IngestInv'
  BY <1>1 DEF IngestInv, VerifierTypeOK, TipIsStored, AcceptedIsLinked, OmissionIsVisible,
              Stored, GapAbove
<1>2. ASSUME NEW d \in Device, RegisterDevice(d) \/ RevokeDevice(d) PROVE IngestInv'
  BY <1>1, <1>2 DEF RegisterDevice, RevokeDevice, IngestInv, VerifierTypeOK
<1>3. ASSUME NEW r \in Record, Ingest(r) PROVE IngestInv'
  BY <1>3, IngestKeepsInv
<1>4. CASE RestartGateway
  BY <1>4 DEF RestartGateway, IngestInv, VerifierTypeOK, TipIsStored, AcceptedIsLinked,
              OmissionIsVisible, ChainState, EmptyChain, NoSeq
<1>5. CASE UNCHANGED gatewayVars
  BY <1>1, <1>5 DEF gatewayVars, IngestInv, VerifierTypeOK
<1> QED BY <1>2, <1>3, <1>4, <1>5 DEF VerifierNext

THEOREM IngestInvariance == VerifierSpec => []IngestInv
<1> QED BY IngestInit, IngestStep, PTL DEF VerifierSpec

(* The store holds typed, signed records and the tip is one of them.       *)
THEOREM GatewayTypeCorrect == VerifierSpec => [](VerifierTypeOK /\ TipIsStored)
<1>1. IngestInv => VerifierTypeOK /\ TipIsStored
  BY DEF IngestInv
<1> QED BY <1>1, IngestInvariance, PTL

(* Accepted records form runs linked by prev.                              *)
THEOREM AcceptedRunsAreLinked == VerifierSpec => []AcceptedIsLinked
<1>1. IngestInv => AcceptedIsLinked
  BY DEF IngestInv
<1> QED BY <1>1, IngestInvariance, PTL

(* No record is missing below the tip without a gap on record above it.    *)
THEOREM NoSilentOmission == VerifierSpec => []OmissionIsVisible
<1>1. IngestInv => OmissionIsVisible
  BY DEF IngestInv
<1> QED BY <1>1, IngestInvariance, PTL

-----------------------------------------------------------------------------
LEMMA LeastNatural ==
  ASSUME NEW T \in SUBSET Nat, T # {}
  PROVE  \E x \in T : \A y \in T : x <= y
<1> DEFINE R == OpToRel(<, Nat)
<1>1. PICK x \in T : \A y \in T : ~ (<<y, x>> \in R)
  <2>1. IsWellFoundedOn(R, Nat)
    BY NatLessThanWellFounded
  <2> HIDE DEF R
  <2> QED BY <2>1, WFMin
<1>2. ASSUME NEW y \in T PROVE x <= y
  <2>1. ~ (y < x)
    BY <1>1 DEF OpToRel
  <2> QED BY <2>1
<1> QED BY <1>2

LEMMA InductSet ==
  ASSUME NEW T \in SUBSET Nat, 0 \in T, \A n \in T : n + 1 \in T
  PROVE  T = Nat
<1> SUFFICES ASSUME Nat \ T # {} PROVE FALSE
  OBVIOUS
<1>1. PICK x \in Nat \ T : \A y \in Nat \ T : x <= y
  BY LeastNatural
<1>2. x # 0 /\ x - 1 \in Nat
  BY <1>1
<1>3. x - 1 \in T
  BY <1>1, <1>2
<1> QED BY <1>1, <1>2, <1>3

-----------------------------------------------------------------------------
(* The recursive functions are what their equations say.                   *)
LEMMA WithoutIs ==
  ASSUME NEW s, NEW gone, Len(s) \in Nat
  PROVE  \E left :
           /\ left[0] = <<>>
           /\ \A n \in 1 .. Len(s) :
                left[n] = IF s[n] \in gone THEN left[n - 1] ELSE Append(left[n - 1], s[n])
           /\ Without(s, gone) = left[Len(s)]
<1> DEFINE first == <<>>
           Next1(x, n) == IF s[n] \in gone THEN x ELSE Append(x, s[n])
           Is(g, m) == g = [n \in 0 .. m |-> IF n = 0 THEN first ELSE Next1(g[n - 1], n)]
           T == {m \in Nat : \E g : Is(g, m)}
<1>1. 0 \in T
  <2> DEFINE g == [n \in 0 .. 0 |-> first]
  <2> HIDE DEF first
  <2>1. Is(g, 0)
    OBVIOUS
  <2> QED BY <2>1
<1>2. ASSUME NEW m \in T PROVE m + 1 \in T
  <2> HIDE DEF first, Next1
  <2>1. PICK g : Is(g, m)
    OBVIOUS
  <2> DEFINE h == [n \in 0 .. m + 1 |-> IF n = m + 1 THEN Next1(g[m], m + 1) ELSE g[n]]
  <2>2. ASSUME NEW n \in 0 .. m + 1
        PROVE  h[n] = IF n = 0 THEN first ELSE Next1(h[n - 1], n)
    <3>1. CASE n = m + 1
      BY <3>1
    <3>2. CASE n # m + 1
      <4>1. n \in 0 .. m /\ g[n] = IF n = 0 THEN first ELSE Next1(g[n - 1], n)
        BY <2>1, <3>2
      <4> QED BY <3>2, <4>1
    <3> QED BY <3>1, <3>2
  <2>3. Is(h, m + 1)
    BY <2>2
  <2> HIDE DEF h, Is
  <2> QED BY <2>3
<1>3. \E g : Is(g, Len(s))
  <2> HIDE DEF T
  <2>1. T = Nat
    BY <1>1, <1>2, InductSet DEF T
  <2> QED BY <2>1 DEF T
<1>4. PICK left : left = CHOOSE g : Is(g, Len(s))
  OBVIOUS
<1>5. Without(s, gone) = left[Len(s)]
  BY <1>4 DEF Without
<1> HIDE DEF Is
<1>6. Is(left, Len(s))
  BY <1>3, <1>4
<1>7. left[0] = first /\ \A n \in 1 .. Len(s) : left[n] = Next1(left[n - 1], n)
  <2> HIDE DEF first, Next1
  <2> QED BY <1>6 DEF Is
<1> QED BY <1>5, <1>7

LEMMA IngestAllIs ==
  ASSUME NEW batch, Len(batch) \in Nat
  PROVE  \E ingested :
           /\ ingested[0] = [chain |-> chain[node], log |-> log]
           /\ \A n \in 1 .. Len(batch) : ingested[n] = IngestOne(ingested[n - 1], batch[n])
           /\ IngestAll(batch) = ingested[Len(batch)]
<1> DEFINE first == [chain |-> chain[node], log |-> log]
           Is(g, m) == g = [n \in 0 .. m |-> IF n = 0 THEN first ELSE IngestOne(g[n - 1], batch[n])]
           T == {m \in Nat : \E g : Is(g, m)}
<1>1. 0 \in T
  <2> DEFINE g == [n \in 0 .. 0 |-> first]
  <2> HIDE DEF first
  <2>1. Is(g, 0)
    OBVIOUS
  <2> QED BY <2>1
<1>2. ASSUME NEW m \in T PROVE m + 1 \in T
  <2> HIDE DEF first
  <2>1. PICK g : Is(g, m)
    OBVIOUS
  <2> DEFINE h == [n \in 0 .. m + 1 |-> IF n = m + 1 THEN IngestOne(g[m], batch[m + 1]) ELSE g[n]]
  <2>2. ASSUME NEW n \in 0 .. m + 1
        PROVE  h[n] = IF n = 0 THEN first ELSE IngestOne(h[n - 1], batch[n])
    <3>1. CASE n = m + 1
      BY <3>1
    <3>2. CASE n # m + 1
      <4>1. n \in 0 .. m /\ g[n] = IF n = 0 THEN first ELSE IngestOne(g[n - 1], batch[n])
        BY <2>1, <3>2
      <4> QED BY <3>2, <4>1
    <3> QED BY <3>1, <3>2
  <2>3. Is(h, m + 1)
    BY <2>2
  <2> HIDE DEF h, Is
  <2> QED BY <2>3
<1>3. \E g : Is(g, Len(batch))
  <2> HIDE DEF T
  <2>1. T = Nat
    BY <1>1, <1>2, InductSet DEF T
  <2> QED BY <2>1 DEF T
<1>4. PICK ingested : ingested = CHOOSE g : Is(g, Len(batch))
  OBVIOUS
<1>5. IngestAll(batch) = ingested[Len(batch)]
  BY <1>4 DEF IngestAll
<1> HIDE DEF Is
<1>6. Is(ingested, Len(batch))
  BY <1>3, <1>4
<1>7. /\ ingested[0] = first
      /\ \A n \in 1 .. Len(batch) : ingested[n] = IngestOne(ingested[n - 1], batch[n])
  BY <1>6 DEF Is
<1> QED BY <1>5, <1>7

-----------------------------------------------------------------------------
(* The buffer: records in the order they were made.                        *)
Reading == [dev : {node}, seq : Nat, prev : Nat \cup {ZeroDigest}, digest : Nat, signed : BOOLEAN]

InOrder(s) ==
  \A i, j \in DOMAIN s : i < j => s[i].seq <= s[j].seq /\ s[i].digest < s[j].digest

LEMMA AppendInOrder ==
  ASSUME NEW s \in Seq(Reading), InOrder(s), NEW r \in Reading,
         \A q \in ToSet(s) : q.seq <= r.seq /\ q.digest < r.digest
  PROVE  /\ Append(s, r) \in Seq(Reading) /\ InOrder(Append(s, r))
         /\ ToSet(Append(s, r)) = ToSet(s) \cup {r}
<1>1. /\ DOMAIN Append(s, r) = 1 .. Len(s) + 1 /\ DOMAIN s = 1 .. Len(s) /\ Len(s) \in Nat
      /\ \A i \in 1 .. Len(s) : Append(s, r)[i] = s[i]
      /\ Append(s, r)[Len(s) + 1] = r
      /\ Append(s, r) \in Seq(Reading)
  OBVIOUS
<1>2. ToSet(Append(s, r)) = ToSet(s) \cup {r}
  BY <1>1 DEF ToSet
<1>3. \A i \in 1 .. Len(s) : s[i] \in ToSet(s)
  BY <1>1 DEF ToSet
<1>4. InOrder(Append(s, r))
  <2> SUFFICES ASSUME NEW i \in 1 .. Len(s) + 1, NEW j \in 1 .. Len(s) + 1, i < j
               PROVE  /\ Append(s, r)[i].seq <= Append(s, r)[j].seq
                      /\ Append(s, r)[i].digest < Append(s, r)[j].digest
    BY <1>1 DEF InOrder
  <2>1. i \in 1 .. Len(s) /\ Append(s, r)[i] = s[i]
    BY <1>1
  <2>2. CASE j = Len(s) + 1
    BY <1>1, <1>3, <2>1, <2>2
  <2>3. CASE j # Len(s) + 1
    <3>1. j \in 1 .. Len(s) /\ Append(s, r)[j] = s[j]
      BY <1>1, <2>3
    <3> QED BY <1>1, <2>1, <3>1 DEF InOrder
  <2> QED BY <2>2, <2>3
<1> QED BY <1>1, <1>2, <1>4

LEMMA WithoutInOrder ==
  ASSUME NEW s \in Seq(Reading), InOrder(s), NEW gone
  PROVE  /\ Without(s, gone) \in Seq(Reading) /\ InOrder(Without(s, gone))
         /\ ToSet(Without(s, gone)) = ToSet(s) \ gone
<1>1. Len(s) \in Nat /\ DOMAIN s = 1 .. Len(s)
  OBVIOUS
<1>2. PICK left :
        /\ left[0] = <<>>
        /\ \A n \in 1 .. Len(s) :
             left[n] = IF s[n] \in gone THEN left[n - 1] ELSE Append(left[n - 1], s[n])
        /\ Without(s, gone) = left[Len(s)]
  BY <1>1, WithoutIs
<1> DEFINE Of(n) == {s[i] : i \in 1 .. n}
           Good(n) == /\ left[n] \in Seq(Reading) /\ InOrder(left[n])
                      /\ ToSet(left[n]) = Of(n) \ gone
           T == {n \in Nat : n <= Len(s) => Good(n)}
<1>3. 0 \in T
  <2>1. Of(0) = {} /\ ToSet(<<>>) = {} /\ <<>> \in Seq(Reading) /\ InOrder(<<>>)
    BY DEF ToSet, InOrder
  <2> QED BY <1>2, <2>1
<1>4. ASSUME NEW n \in T PROVE n + 1 \in T
  <2> SUFFICES ASSUME n + 1 <= Len(s) PROVE Good(n + 1)
    OBVIOUS
  <2>1. n + 1 \in 1 .. Len(s) /\ Good(n)
    <3> HIDE DEF Good
    <3> QED OBVIOUS
  <2>2. Of(n + 1) = Of(n) \cup {s[n + 1]}
    <3>1. 1 .. n + 1 = (1 .. n) \cup {n + 1}
      OBVIOUS
    <3> QED BY <3>1
  <2>3. s[n + 1] \in Reading
    BY <2>1
  <2>4. \A q \in Of(n) : q.seq <= s[n + 1].seq /\ q.digest < s[n + 1].digest
    <3> SUFFICES ASSUME NEW i \in 1 .. n
                 PROVE  s[i].seq <= s[n + 1].seq /\ s[i].digest < s[n + 1].digest
      OBVIOUS
    <3>1. i \in DOMAIN s /\ n + 1 \in DOMAIN s /\ i < n + 1
      BY <1>1, <2>1
    <3> QED BY <3>1 DEF InOrder
  <2> HIDE DEF Of
  <2>5. left[n + 1] = IF s[n + 1] \in gone THEN left[n] ELSE Append(left[n], s[n + 1])
    BY <1>2, <2>1
  <2>6. CASE s[n + 1] \in gone
    BY <2>1, <2>2, <2>5, <2>6
  <2>7. CASE s[n + 1] \notin gone
    <3>1. \A q \in ToSet(left[n]) : q.seq <= s[n + 1].seq /\ q.digest < s[n + 1].digest
      BY <2>1, <2>4
    <3>2. /\ Append(left[n], s[n + 1]) \in Seq(Reading) /\ InOrder(Append(left[n], s[n + 1]))
          /\ ToSet(Append(left[n], s[n + 1])) = ToSet(left[n]) \cup {s[n + 1]}
      BY <2>1, <2>3, <3>1, AppendInOrder
    <3> QED BY <2>1, <2>2, <2>5, <2>7, <3>2
  <2> QED BY <2>6, <2>7
<1> HIDE DEF T
<1>5. T = Nat
  BY <1>3, <1>4, InductSet DEF T
<1>6. Good(Len(s))
  <2> HIDE DEF Good
  <2> QED BY <1>1, <1>5 DEF T
<1>7. Of(Len(s)) = ToSet(s)
  BY <1>1 DEF ToSet
<1> HIDE DEF Of
<1> QED BY <1>2, <1>6, <1>7
LEMMA BatchIs ==
  ASSUME buffer \in Seq(Reading), InOrder(buffer)
  PROVE  /\ Batch \in Seq(Reading) /\ InOrder(Batch)
         /\ Len(Batch) = IF Len(buffer) < MaxBatch THEN Len(buffer) ELSE MaxBatch
         /\ \A i \in 1 .. Len(Batch) : Batch[i] = buffer[i]
         /\ ToSet(Batch) \subseteq ToSet(buffer)
<1> DEFINE n == IF Len(buffer) < MaxBatch THEN Len(buffer) ELSE MaxBatch
<1>1. Len(buffer) \in Nat /\ DOMAIN buffer = 1 .. Len(buffer) /\ n \in 0 .. Len(buffer)
  BY BufferAssumption
<1>2. Batch = SubSeq(buffer, 1, n)
  BY DEF Batch
<1> HIDE DEF n
<1>3. /\ Batch \in Seq(Reading) /\ Len(Batch) = n /\ DOMAIN Batch = 1 .. n
      /\ \A i \in 1 .. n : Batch[i] = buffer[i]
  BY <1>1, <1>2
<1>4. ToSet(Batch) \subseteq ToSet(buffer)
  BY <1>1, <1>3 DEF ToSet
<1>5. InOrder(Batch)
  BY <1>1, <1>3 DEF InOrder
<1> QED BY <1>3, <1>4, <1>5 DEF n

-----------------------------------------------------------------------------
(* One request at the gateway.                                             *)
Tip == [seq : Nat \cup {NoSeq}, digest : Nat \cup {ZeroDigest}]

(* Only the first reading has no predecessor to name.                      *)
StartsAtZero(S) == \A r \in S : r.seq = 0 => r.prev = ZeroDigest

LEMMA AnswerIs ==
  ASSUME NEW g, g.chain \in Tip, NEW r \in Reading, r.seq = 0 => r.prev = ZeroDigest
  PROVE  LET next == IngestOne(g, r)
         IN /\ next.chain \in Tip
            /\ next.chain = g.chain \/ (Admitted(r) /\ next.chain.seq = r.seq)
            /\ Admitted(r) => next.chain.seq # NoSeq
            /\ g.chain.seq # NoSeq => next.chain.seq # NoSeq
<1> DEFINE v == Verdict(g.chain, r)
           moved == [seq |-> r.seq, digest |-> r.digest]
<1>1. r.seq \in Nat /\ r.digest \in Nat /\ NoSeq \notin Nat
  BY DEF Reading, NoSeq
<1>2. moved \in Tip /\ moved.seq = r.seq
  BY <1>1 DEF Tip
<1>3. Admitted(r) => IngestOne(g, r).chain = IF Advances(v) THEN moved ELSE g.chain
  BY DEF IngestOne, NextChain
<1>4. ~ Admitted(r) => IngestOne(g, r) = g
  BY DEF IngestOne
<1>5. g.chain.seq = NoSeq => Advances(v)
  BY <1>1 DEF Verdict, Advances
<1> HIDE DEF v, moved
<1> QED BY <1>1, <1>2, <1>3, <1>4, <1>5

LEMMA StoreIs ==
  ASSUME chain \in [Device -> Tip], NEW b \in Seq(Reading), StartsAtZero(ToSet(b)), Store(b)
  PROVE  /\ chain' \in [Device -> Tip]
         /\ everStored' = everStored \cup {q \in ToSet(b) : Admitted(q)}
         /\ \/ chain'[node] = chain[node]
            \/ \E q \in ToSet(b) : Admitted(q) /\ chain'[node].seq = q.seq
         /\ (\E q \in ToSet(b) : Admitted(q)) => chain'[node].seq # NoSeq
<1>1. Len(b) \in Nat /\ DOMAIN b = 1 .. Len(b)
  OBVIOUS
<1>2. PICK ingested :
        /\ ingested[0] = [chain |-> chain[node], log |-> log]
        /\ \A n \in 1 .. Len(b) : ingested[n] = IngestOne(ingested[n - 1], b[n])
        /\ IngestAll(b) = ingested[Len(b)]
  BY <1>1, IngestAllIs
<1> DEFINE Good(n) == /\ ingested[n].chain \in Tip
                      /\ \/ ingested[n].chain = chain[node]
                         \/ \E q \in ToSet(b) : Admitted(q) /\ ingested[n].chain.seq = q.seq
                      /\ \A i \in 1 .. n : Admitted(b[i]) => ingested[n].chain.seq # NoSeq
           T == {n \in Nat : n <= Len(b) => Good(n)}
<1>3. node \in Device
  BY NodeAssumption
<1>4. 0 \in T
  <2>1. ingested[0].chain = chain[node]
    BY <1>2
  <2> QED BY <1>3, <2>1
<1>5. ASSUME NEW n \in T PROVE n + 1 \in T
  <2> SUFFICES ASSUME n + 1 <= Len(b) PROVE Good(n + 1)
    OBVIOUS
  <2>1. n + 1 \in 1 .. Len(b) /\ Good(n)
    <3> HIDE DEF Good
    <3> QED OBVIOUS
  <2>2. /\ b[n + 1] \in Reading /\ b[n + 1] \in ToSet(b)
        /\ b[n + 1].seq = 0 => b[n + 1].prev = ZeroDigest
    BY <1>1, <2>1 DEF ToSet, StartsAtZero
  <2>3. ingested[n + 1] = IngestOne(ingested[n], b[n + 1])
    BY <1>2, <2>1
  <2>4. /\ ingested[n + 1].chain \in Tip
        /\ \/ ingested[n + 1].chain = ingested[n].chain
           \/ Admitted(b[n + 1]) /\ ingested[n + 1].chain.seq = b[n + 1].seq
        /\ Admitted(b[n + 1]) => ingested[n + 1].chain.seq # NoSeq
        /\ ingested[n].chain.seq # NoSeq => ingested[n + 1].chain.seq # NoSeq
    BY <2>1, <2>2, <2>3, AnswerIs
  <2>5. \A i \in 1 .. n + 1 : i \in 1 .. n \/ i = n + 1
    OBVIOUS
  <2> QED BY <2>1, <2>2, <2>4, <2>5
<1> HIDE DEF T
<1>6. T = Nat
  BY <1>4, <1>5, InductSet DEF T
<1>7. Good(Len(b))
  <2> HIDE DEF Good
  <2> QED BY <1>1, <1>6 DEF T
<1>8. chain' = [chain EXCEPT ![node] = IngestAll(b).chain]
  BY DEF Store
<1>9. chain'[node] = ingested[Len(b)].chain
  BY <1>2, <1>3, <1>8
<1>10. chain' \in [Device -> Tip]
  BY <1>2, <1>3, <1>7, <1>8
<1>11. (\E q \in ToSet(b) : Admitted(q)) => chain'[node].seq # NoSeq
  BY <1>1, <1>7, <1>9 DEF ToSet
<1> QED BY <1>7, <1>9, <1>10, <1>11 DEF Store
-----------------------------------------------------------------------------
(* The shape of what the node keeps, of what is on its way, and of what    *)
(* the gateway holds.                                                      *)
InFlight == late \cup (IF post = None THEN {} ELSE {post.batch})

NodeInv ==
  /\ nextSeq \in Nat /\ samples \in Nat /\ prevDigest \in Nat \cup {ZeroDigest}
  /\ nextSeq = 0 => prevDigest = ZeroDigest
  /\ appended # None => appended \in Reading /\ appended.seq = nextSeq
  /\ buffer \in Seq(Reading) /\ InOrder(buffer) /\ StartsAtZero(ToSet(buffer))
  /\ \A r \in ToSet(buffer) : r.seq <= nextSeq /\ r.digest <= samples

NetInv ==
  /\ post # None =>
       /\ post = [batch |-> post.batch, code |-> post.code, ack |-> post.ack]
       /\ post.batch = Batch
  /\ \A b \in InFlight :
       b \in Seq(Reading) /\ StartsAtZero(ToSet(b)) /\ \A q \in ToSet(b) : q.seq <= nextSeq

GateInv ==
  /\ chain \in [Device -> Tip] /\ active \subseteq known
  /\ everStored \subseteq Reading /\ \A s \in everStored : s.seq <= nextSeq
  /\ chain[node].seq # NoSeq => \E s \in everStored : s.seq = chain[node].seq

ShapeInv == NodeInv /\ NetInv /\ GateInv

LEMMA ShapeStart == Init => ShapeInv
<1> SUFFICES ASSUME Init PROVE ShapeInv
  OBVIOUS
<1>1. NodeInv
  BY DEF Init, NodeInv, InOrder, StartsAtZero, ToSet
<1>2. NetInv
  BY DEF Init, NetInv, InFlight
<1>3. EmptyChain \in Tip /\ EmptyChain.seq = NoSeq /\ node \in Device
  BY NodeAssumption DEF EmptyChain, Tip
<1>4. chain = [d \in Device |-> EmptyChain] /\ active \subseteq known /\ everStored = {}
  BY DEF Init, GatewayInit
<1>5. GateInv
  BY <1>3, <1>4 DEF GateInv
<1> QED BY <1>1, <1>2, <1>5 DEF ShapeInv

LEMMA NewReading ==
  ASSUME NodeInv, NEW intact \in BOOLEAN
  PROVE  /\ NewRecord(intact) \in Reading
         /\ NewRecord(intact).seq = nextSeq /\ NewRecord(intact).digest = samples + 1
         /\ NewRecord(intact).prev = prevDigest /\ NewRecord(intact).signed = intact
BY DEF NodeInv, NewRecord, Reading

(* A sample leaves what was not erased, in order, and the new reading.     *)
LEMMA SampleIs ==
  ASSUME NodeInv, NEW intact \in BOOLEAN, Sample(intact)
  PROVE  /\ buffer' \in Seq(Reading) /\ InOrder(buffer')
         /\ ToSet(buffer') = (ToSet(buffer) \ Erased) \cup {NewRecord(intact)}
<1> DEFINE r == NewRecord(intact)
           kept == Without(buffer, Erased)
<1>1. /\ kept \in Seq(Reading) /\ InOrder(kept) /\ ToSet(kept) = ToSet(buffer) \ Erased
  BY WithoutInOrder DEF NodeInv
<1>2. r \in Reading /\ r.seq = nextSeq /\ r.digest = samples + 1
  BY NewReading
<1> HIDE DEF kept, r
<1>3. \A q \in ToSet(kept) : q.seq <= r.seq /\ q.digest < r.digest
  <2> SUFFICES ASSUME NEW q \in ToSet(kept) PROVE q.seq <= r.seq /\ q.digest < r.digest
    OBVIOUS
  <2>1. q \in ToSet(buffer)
    BY <1>1
  <2>2. q \in Reading
    BY <2>1 DEF NodeInv, ToSet
  <2>3. q.digest \in Nat /\ q.seq \in Nat /\ samples \in Nat /\ q.digest <= samples /\ q.seq <= nextSeq
    BY <2>1, <2>2 DEF NodeInv, Reading
  <2> QED BY <1>2, <2>3
<1>4. buffer' = Append(kept, r)
  BY DEF Sample, kept, r
<1> QED BY <1>1, <1>2, <1>3, <1>4, AppendInOrder DEF r

LEMMA InBufferIs ==
  ASSUME NodeInv, NEW r \in ToSet(buffer)
  PROVE  r \in Reading /\ r.seq \in Nat /\ r.digest \in Nat /\ r.signed \in BOOLEAN
<1>1. r \in Reading
  BY DEF NodeInv, ToSet
<1> QED BY <1>1 DEF Reading

LEMMA InSequenceIs ==
  ASSUME NEW b \in Seq(Reading), NEW q \in ToSet(b)
  PROVE  q \in Reading /\ q.dev = node /\ q.seq \in Nat /\ q.signed \in BOOLEAN
<1>1. q \in Reading
  BY DEF ToSet
<1> QED BY <1>1 DEF Reading

LEMMA SampleKeepsShape ==
  ASSUME ShapeInv, NEW intact \in BOOLEAN, Sample(intact)
  PROVE  ShapeInv'
<1> USE DEF ShapeInv
<1> DEFINE r == NewRecord(intact)
<1>1. /\ buffer' \in Seq(Reading) /\ InOrder(buffer')
      /\ ToSet(buffer') = (ToSet(buffer) \ Erased) \cup {r}
  BY SampleIs
<1>2. r \in Reading /\ r.seq = nextSeq /\ r.digest = samples + 1 /\ r.prev = prevDigest
  BY NewReading
<1> HIDE DEF r
<1>3. /\ samples' = samples + 1 /\ appended' = r /\ post = None
      /\ UNCHANGED <<gatewayVars, netVars, nextSeq, prevDigest, everStored>>
  BY DEF Sample, r
<1>4. NodeInv'
  <2>1. StartsAtZero(ToSet(buffer'))
    BY <1>1, <1>2 DEF NodeInv, StartsAtZero
  <2>2. \A q \in ToSet(buffer') : q.seq <= nextSeq /\ q.digest <= samples + 1
    <3> SUFFICES ASSUME NEW q \in ToSet(buffer') PROVE q.seq <= nextSeq /\ q.digest <= samples + 1
      OBVIOUS
    <3>1. CASE q = r
      BY <1>2, <3>1 DEF NodeInv
    <3>2. CASE q \in ToSet(buffer)
      BY <3>2, InBufferIs DEF NodeInv
    <3> QED BY <1>1, <3>1, <3>2
  <2>3. \A q : q \in ToSet(buffer)' <=> q \in ToSet(buffer')
    BY DEF ToSet
  <2>4. InOrder(buffer)' /\ StartsAtZero(ToSet(buffer))'
    BY <1>1, <2>1 DEF InOrder, StartsAtZero, ToSet
  <2>5. samples + 1 \in Nat /\ appended' \in Reading /\ appended'.seq = nextSeq
    BY <1>2, <1>3 DEF NodeInv
  <2>6. \A q \in ToSet(buffer') : q.seq <= nextSeq' /\ q.digest <= samples'
    BY <1>3, <2>2
  <2> QED BY <1>1, <1>3, <2>1, <2>3, <2>4, <2>5, <2>6 DEF NodeInv
<1>5. NetInv' /\ GateInv'
  BY <1>3 DEF NetInv, GateInv, InFlight, netVars, gatewayVars
<1> QED BY <1>4, <1>5
(* What stays below nextSeq stays below a greater one.                     *)
LEMMA SavingKeepsShape ==
  ASSUME ShapeInv, Advance \/ LoseAdvance \/ TearAdvance
  PROVE  ShapeInv'
<1> USE DEF ShapeInv
<1>1. /\ appended # None /\ appended' = None
      /\ nextSeq' \in {nextSeq, nextSeq + 1} /\ nextSeq' \in Nat
      /\ nextSeq' = nextSeq => prevDigest' = prevDigest
      /\ prevDigest' \in {prevDigest, appended.digest}
      /\ UNCHANGED <<gatewayVars, netVars, buffer, samples, freed, evicted, everStored>>
  BY DEF Advance, LoseAdvance, TearAdvance, NodeInv
<1>2. nextSeq \in Nat /\ appended.digest \in Nat
  BY <1>1 DEF NodeInv, Reading
<1>3. \A n \in Nat : n <= nextSeq => n <= nextSeq'
  BY <1>1, <1>2
<1>4. NodeInv'
  <2>1. \A r \in ToSet(buffer) : r.seq \in Nat
    BY InBufferIs
  <2>2. nextSeq' = 0 => prevDigest' = ZeroDigest
    BY <1>1, <1>2 DEF NodeInv
  <2> QED BY <1>1, <1>2, <1>3, <2>1, <2>2 DEF NodeInv, InOrder, StartsAtZero, ToSet
<1>5. NetInv'
  <2>1. \A b \in InFlight : \A q \in ToSet(b) : q.seq <= nextSeq'
    <3> SUFFICES ASSUME NEW b \in InFlight, NEW q \in ToSet(b) PROVE q.seq <= nextSeq'
      OBVIOUS
    <3>1. b \in Seq(Reading) /\ q.seq <= nextSeq
      BY DEF NetInv
    <3>2. q \in Reading
      BY <3>1 DEF ToSet
    <3> QED BY <1>3, <3>1, <3>2 DEF Reading
  <2>2. InFlight' = InFlight /\ Batch' = Batch /\ post' = post
    BY <1>1 DEF InFlight, netVars, Batch
  <2> QED BY <1>1, <2>1, <2>2 DEF NetInv, StartsAtZero, ToSet
<1>6. GateInv'
  <2>1. \A s \in everStored : s.seq <= nextSeq'
    BY <1>3 DEF GateInv, Reading
  <2> QED BY <1>1, <2>1 DEF GateInv, gatewayVars
<1> QED BY <1>4, <1>5, <1>6

LEMMA UploadKeepsShape ==
  ASSUME ShapeInv, Upload
  PROVE  ShapeInv'
<1> USE DEF ShapeInv
<1>1. /\ post' = Pending(Batch) /\ late' = late /\ Batch' = Batch
      /\ UNCHANGED <<gatewayVars, nodeVars, everStored>>
  BY DEF Upload, nodeVars, Batch
<1>2. /\ Batch \in Seq(Reading) /\ ToSet(Batch) \subseteq ToSet(buffer)
  BY BatchIs DEF NodeInv
<1>3. NodeInv' /\ GateInv'
  BY <1>1 DEF NodeInv, GateInv, nodeVars, gatewayVars, InOrder, StartsAtZero, ToSet
<1>4. /\ Pending(Batch).batch = Batch
      /\ Pending(Batch) = [batch |-> Pending(Batch).batch, code |-> Pending(Batch).code,
                           ack |-> Pending(Batch).ack]
  BY DEF Pending
<1>5. \A b \in InFlight' : b \in InFlight \/ b = Batch
  BY <1>1, <1>4 DEF InFlight
<1>6. StartsAtZero(ToSet(Batch)) /\ \A q \in ToSet(Batch) : q.seq <= nextSeq
  BY <1>2 DEF NodeInv, StartsAtZero
<1>7. \A b \in InFlight' :
        b \in Seq(Reading) /\ StartsAtZero(ToSet(b)) /\ \A q \in ToSet(b) : q.seq <= nextSeq
  BY <1>2, <1>5, <1>6 DEF NetInv
<1>8. NetInv'
  BY <1>1, <1>4, <1>7 DEF NetInv, nodeVars, StartsAtZero, ToSet
<1> QED BY <1>3, <1>8

LEMMA ReplyKeepsShape ==
  ASSUME ShapeInv, HandleReply
  PROVE  /\ ShapeInv' /\ ToSet(buffer') \subseteq ToSet(buffer)
         /\ InFlight' \subseteq InFlight
<1> USE DEF ShapeInv
<1>1. /\ post' = None /\ late' = late
      /\ UNCHANGED <<gatewayVars, nextSeq, prevDigest, appended, samples, evicted, everStored>>
  BY DEF HandleReply
<1>2. buffer' = Without(buffer, Acknowledged) \/ buffer' = buffer
  BY DEF HandleReply
<1>3. /\ Without(buffer, Acknowledged) \in Seq(Reading) /\ InOrder(Without(buffer, Acknowledged))
      /\ ToSet(Without(buffer, Acknowledged)) = ToSet(buffer) \ Acknowledged
  BY WithoutInOrder DEF NodeInv
<1>4. buffer' \in Seq(Reading) /\ InOrder(buffer') /\ ToSet(buffer') \subseteq ToSet(buffer)
  BY <1>2, <1>3 DEF NodeInv
<1>5. NodeInv'
  <2>1. StartsAtZero(ToSet(buffer')) /\ \A r \in ToSet(buffer') : r.seq <= nextSeq /\ r.digest <= samples
    BY <1>4 DEF NodeInv, StartsAtZero
  <2> QED BY <1>1, <1>4, <2>1 DEF NodeInv, InOrder, StartsAtZero, ToSet
<1>6. InFlight' \subseteq InFlight
  BY <1>1 DEF InFlight
<1>7. NetInv'
  BY <1>1, <1>6 DEF NetInv, StartsAtZero, ToSet
<1>8. GateInv'
  BY <1>1 DEF GateInv, gatewayVars
<1> QED BY <1>4, <1>5, <1>6, <1>7, <1>8

LEMMA GiveUpKeepsShape ==
  ASSUME ShapeInv, GiveUp
  PROVE  ShapeInv' /\ InFlight' \subseteq InFlight
<1> USE DEF ShapeInv
<1>1. /\ post # None /\ post' = None /\ late' \subseteq late \cup {post.batch}
      /\ UNCHANGED <<gatewayVars, nodeVars, everStored>>
  BY DEF GiveUp
<1>2. InFlight' \subseteq InFlight
  BY <1>1 DEF InFlight
<1>3. NodeInv' /\ GateInv'
  BY <1>1 DEF NodeInv, GateInv, nodeVars, gatewayVars, InOrder, StartsAtZero, ToSet
<1>4. NetInv'
  BY <1>1, <1>2 DEF NetInv, nodeVars, StartsAtZero, ToSet
<1> QED BY <1>2, <1>3, <1>4

(* A request served, in time or late, is stored or changes nothing.        *)
LEMMA ServeIs ==
  ASSUME NEW b, Serve(b)
  PROVE  (Parsed(b) /\ Store(b)) \/ UNCHANGED <<gatewayVars, everStored>>
BY DEF Serve

LEMMA ServeKeepsGate ==
  ASSUME ShapeInv, NEW b \in InFlight, Serve(b), nextSeq' = nextSeq
  PROVE  GateInv'
<1> USE DEF ShapeInv
<1>1. b \in Seq(Reading) /\ StartsAtZero(ToSet(b)) /\ \A q \in ToSet(b) : q \in Reading /\ q.seq <= nextSeq
  BY DEF NetInv, ToSet
<1>2. /\ chain' \in [Device -> Tip]
      /\ everStored' \subseteq everStored \cup ToSet(b) /\ everStored \subseteq everStored'
      /\ \/ chain'[node] = chain[node]
         \/ \E q \in everStored' : chain'[node].seq = q.seq
  <2>1. CASE Store(b)
    BY <1>1, <2>1, StoreIs DEF GateInv
  <2>2. CASE UNCHANGED <<gatewayVars, everStored>>
    BY <2>2 DEF GateInv, gatewayVars
  <2> QED BY <2>1, <2>2, ServeIs
<1>3. known' = known /\ active' = active
  BY DEF Serve, Store, gatewayVars
<1>4. chain'[node].seq # NoSeq => \E s \in everStored' : s.seq = chain'[node].seq
  BY <1>2 DEF GateInv
<1>5. everStored' \subseteq Reading /\ \A s \in everStored' : s.seq <= nextSeq
  BY <1>1, <1>2 DEF GateInv
<1> QED BY <1>2, <1>3, <1>4, <1>5 DEF GateInv

LEMMA ServePostKeepsShape ==
  ASSUME ShapeInv, ServePost
  PROVE  ShapeInv' /\ InFlight' = InFlight
<1> USE DEF ShapeInv
<1>1. /\ post # None /\ Serve(post.batch) /\ late' = late /\ UNCHANGED nodeVars
      /\ post' = [post EXCEPT !.code = StatusCode(post.batch), !.ack = AckSeq(node)']
  BY DEF ServePost
<1>2. post = [batch |-> post.batch, code |-> post.code, ack |-> post.ack] /\ post.batch = Batch
  BY <1>1 DEF NetInv
<1>3. post' = [batch |-> post.batch, code |-> StatusCode(post.batch), ack |-> AckSeq(node)']
  BY <1>1, <1>2
<1>4. post' # None
  BY <1>3 DEF None
<1>5. /\ post'.batch = post.batch
      /\ post' = [batch |-> post'.batch, code |-> post'.code, ack |-> post'.ack]
  BY <1>3
<1>6. InFlight' = InFlight
  BY <1>1, <1>4, <1>5 DEF InFlight
<1>7. GateInv'
  BY <1>1, ServeKeepsGate DEF InFlight, nodeVars
<1>8. NodeInv'
  BY <1>1 DEF NodeInv, nodeVars, InOrder, StartsAtZero, ToSet
<1>9. NetInv'
  BY <1>1, <1>2, <1>5, <1>6 DEF NetInv, nodeVars, Batch, StartsAtZero, ToSet
<1> QED BY <1>6, <1>7, <1>8, <1>9

LEMMA ServeLateKeepsShape ==
  ASSUME ShapeInv, ServeLate
  PROVE  ShapeInv' /\ InFlight' \subseteq InFlight
<1> USE DEF ShapeInv
<1>1. PICK b \in late : Serve(b) /\ late' = late \ {b} /\ UNCHANGED <<nodeVars, post, faults>>
  BY DEF ServeLate
<1>2. InFlight' \subseteq InFlight
  BY <1>1 DEF InFlight
<1>3. GateInv'
  BY <1>1, ServeKeepsGate DEF InFlight, nodeVars
<1>4. NodeInv'
  BY <1>1 DEF NodeInv, nodeVars, InOrder, StartsAtZero, ToSet
<1>5. NetInv'
  BY <1>1, <1>2 DEF NetInv, nodeVars, Batch, StartsAtZero, ToSet
<1> QED BY <1>2, <1>3, <1>4, <1>5

LEMMA GatewayKeepsShape ==
  ASSUME ShapeInv, Commission \/ Restart \/ UNCHANGED vars
  PROVE  ShapeInv'
<1> USE DEF ShapeInv
<1>1. UNCHANGED <<nodeVars, netVars, everStored>>
  BY DEF Commission, Restart, vars
<1>2. NodeInv' /\ NetInv'
  BY <1>1 DEF NodeInv, NetInv, InFlight, nodeVars, netVars, Batch, InOrder, StartsAtZero, ToSet
<1>3. EmptyChain \in Tip /\ EmptyChain.seq = NoSeq /\ node \in Device
  BY NodeAssumption DEF EmptyChain, Tip
<1>4. \/ chain' = chain /\ active' \subseteq known'
      \/ chain' = [d \in Device |-> EmptyChain] /\ active' \subseteq known'
  BY DEF Commission, Restart, vars, gatewayVars, RegisterDevice, RestartGateway, GateInv
<1>5. GateInv'
  BY <1>1, <1>3, <1>4 DEF GateInv, nodeVars
<1> QED BY <1>2, <1>5

LEMMA ShapeStep == ShapeInv /\ [Next]_vars => ShapeInv'
<1> SUFFICES ASSUME ShapeInv, [Next]_vars PROVE ShapeInv'
  OBVIOUS
<1> QED BY SampleKeepsShape, SavingKeepsShape, UploadKeepsShape, ReplyKeepsShape, GiveUpKeepsShape,
           ServePostKeepsShape, ServeLateKeepsShape, GatewayKeepsShape DEF Next

-----------------------------------------------------------------------------
(* Nothing is freed that is not accounted for.  What is behind a stored    *)
(* record is accounted for, because a batch on its way carries with each   *)
(* of its records whatever the buffer holds before it.                     *)
Accounted(r) == r.signed => SeqWasStored(r)

BehindIsAccounted ==
  \A s \in everStored : \A r \in ToSet(buffer) : r.seq <= s.seq => Accounted(r)

BatchIsWhole ==
  \A b \in InFlight : \A q \in ToSet(b) : \A r \in ToSet(buffer) :
    q.signed /\ r.seq < q.seq => r \in ToSet(b) \/ Accounted(r)

AckIsSafe ==
  post # None /\ post.code = 200 =>
    \A r \in ToSet(buffer) : r.seq <= post.ack => Accounted(r)

FreedIsAccounted == \A r \in freed : Accounted(r)

(* An acknowledgement of nothing reads as one of the first record: it is   *)
(* given when a whole batch is damaged, so a batch must be longer than the *)
(* records that can be.                                                    *)
FewDamaged == MaxDamage \in Nat /\ MaxDamage < MaxBatch

Damaged == {r \in ToSet(buffer) : ~ r.signed}

DamageInv ==
  /\ faults = [lost |-> faults.lost, restarts |-> faults.restarts, corrupt |-> faults.corrupt]
  /\ faults.lost \in Nat /\ faults.corrupt \in Nat
  /\ faults.lost + faults.corrupt <= MaxDamage
  /\ IsFiniteSet(Damaged) /\ Cardinality(Damaged) <= faults.corrupt

FreedInv ==
  /\ ShapeInv
  /\ BehindIsAccounted /\ BatchIsWhole /\ AckIsSafe /\ FreedIsAccounted
  /\ DamageInv

(* A whole batch is not damaged, unless it is the whole buffer.            *)
LEMMA SomeIsIntact ==
  ASSUME FewDamaged, NodeInv, DamageInv, \A q \in ToSet(Batch) : ~ q.signed
  PROVE  ToSet(Batch) = ToSet(buffer)
<1> DEFINE n == Len(Batch)
<1>1. /\ buffer \in Seq(Reading) /\ InOrder(buffer) /\ DOMAIN buffer = 1 .. Len(buffer)
      /\ Len(buffer) \in Nat
  BY DEF NodeInv
<1>2. /\ n = IF Len(buffer) < MaxBatch THEN Len(buffer) ELSE MaxBatch
      /\ DOMAIN Batch = 1 .. n /\ n \in Nat /\ n <= Len(buffer)
      /\ \A i \in 1 .. n : Batch[i] = buffer[i] /\ Batch[i] \in ToSet(Batch)
      /\ ToSet(Batch) \subseteq ToSet(buffer)
  <2>1. /\ Batch \in Seq(Reading)
        /\ Len(Batch) = IF Len(buffer) < MaxBatch THEN Len(buffer) ELSE MaxBatch
        /\ \A i \in 1 .. Len(Batch) : Batch[i] = buffer[i]
        /\ ToSet(Batch) \subseteq ToSet(buffer)
    BY <1>1, BatchIs
  <2>2. DOMAIN Batch = 1 .. n /\ n \in Nat
    BY <2>1
  <2> QED BY <1>1, <2>1, <2>2, BufferAssumption DEF ToSet
<1>3. CASE n = Len(buffer)
  <2>1. \A i \in DOMAIN buffer : buffer[i] \in ToSet(Batch)
    BY <1>1, <1>2, <1>3
  <2>2. ToSet(buffer) \subseteq ToSet(Batch)
    BY <2>1 DEF ToSet
  <2> QED BY <1>2, <2>2
<1>4. CASE n = MaxBatch
  <2> DEFINE f == [i \in 1 .. n |-> buffer[i]]
  <2>1. \A i \in 1 .. n : f[i] \in Damaged
    BY <1>2 DEF Damaged
  <2>2. \A i, j \in 1 .. n : i < j => buffer[i].digest < buffer[j].digest
    BY <1>1, <1>2 DEF InOrder
  <2>3. \A i \in 1 .. n : buffer[i].digest \in Nat
    BY <1>2, InBufferIs
  <2>4. \A i, j \in 1 .. n : f[i] = f[j] => i = j
    <3> SUFFICES ASSUME NEW i \in 1 .. n, NEW j \in 1 .. n, buffer[i] = buffer[j], i # j
                 PROVE  FALSE
      OBVIOUS
    <3>1. i < j \/ j < i
      BY <1>2
    <3>2. ~ (buffer[i].digest < buffer[i].digest)
      BY <2>3
    <3> QED BY <2>2, <3>1, <3>2
  <2> HIDE DEF f
  <2>5. f \in [1 .. n -> Damaged]
    BY <2>1 DEF f
  <2>6. f \in Injection(1 .. n, Damaged)
    BY <2>4, <2>5 DEF Injection, IsInjective
  <2>7. Cardinality(1 .. n) <= Cardinality(Damaged)
    BY <2>6, FS_Injection DEF DamageInv
  <2>8. Cardinality(1 .. n) = n
    <3> HIDE DEF n
    <3>1. n \in Int /\ 1 \in Int /\ (1 > n => n = 0)
      BY <1>2
    <3>2. Cardinality(1 .. n) = IF 1 > n THEN 0 ELSE n - 1 + 1
      BY <3>1, FS_Interval
    <3> QED BY <3>1, <3>2
  <2>9. Cardinality(Damaged) \in Nat
    BY FS_CardinalityType DEF DamageInv
  <2> QED BY <1>4, <2>7, <2>8, <2>9, BufferAssumption DEF DamageInv, FewDamaged
<1> QED BY <1>2, <1>3, <1>4

(* What was stored stays accounted for.                                    *)
LEMMA AccountedStays ==
  ASSUME everStored \subseteq everStored', NEW r, Accounted(r)
  PROVE  Accounted(r)'
BY DEF Accounted, SeqWasStored

LEMMA FreedStart == ASSUME FewDamaged PROVE Init => FreedInv
<1> SUFFICES ASSUME Init PROVE FreedInv
  OBVIOUS
<1>1. everStored = {} /\ post = None /\ late = {} /\ freed = {} /\ buffer = <<>>
  BY DEF Init
<1>2. ToSet(buffer) = {}
  BY <1>1 DEF ToSet
<1>3. BehindIsAccounted /\ BatchIsWhole /\ AckIsSafe /\ FreedIsAccounted
  BY <1>1, <1>2 DEF BehindIsAccounted, BatchIsWhole, AckIsSafe, FreedIsAccounted
<1>4. Damaged = {} /\ IsFiniteSet(Damaged) /\ Cardinality(Damaged) = 0
  BY <1>2, FS_EmptySet DEF Damaged
<1>5. faults.lost = 0 /\ faults.corrupt = 0
      /\ faults = [lost |-> faults.lost, restarts |-> faults.restarts, corrupt |-> faults.corrupt]
  BY DEF Init
<1>6. DamageInv
  BY <1>4, <1>5 DEF DamageInv, FewDamaged
<1> QED BY <1>3, <1>6, ShapeStart DEF FreedInv

(* A buffer that only loses records, and requests that only end, disturb   *)
(* nothing but the reply.                                                  *)
LEMMA ShrinkKeepsFreed ==
  ASSUME FreedInv, ToSet(buffer') \subseteq ToSet(buffer), InFlight' \subseteq InFlight,
         UNCHANGED <<everStored, faults>>
  PROVE  BehindIsAccounted' /\ BatchIsWhole' /\ DamageInv'
<1>1. \A r : Accounted(r)' <=> Accounted(r)
  BY DEF Accounted, SeqWasStored
<1>2. BehindIsAccounted'
  BY <1>1 DEF FreedInv, BehindIsAccounted, ToSet
<1>3. BatchIsWhole'
  BY <1>1 DEF FreedInv, BatchIsWhole, ToSet
<1>4. Damaged' \subseteq Damaged
  BY DEF Damaged, ToSet
<1>5. /\ IsFiniteSet(Damaged) /\ Cardinality(Damaged) <= faults.corrupt /\ faults.corrupt \in Nat
      /\ Cardinality(Damaged) \in Nat
  BY FS_CardinalityType DEF FreedInv, DamageInv
<1>6. IsFiniteSet(Damaged') /\ Cardinality(Damaged') <= Cardinality(Damaged)
      /\ Cardinality(Damaged') \in Nat
  BY <1>4, <1>5, FS_Subset, FS_CardinalityType
<1>7. DamageInv'
  BY <1>5, <1>6 DEF FreedInv, DamageInv
<1> QED BY <1>2, <1>3, <1>7

LEMMA SampleKeepsFreed ==
  ASSUME FewDamaged, FreedInv, NEW intact \in BOOLEAN, Sample(intact)
  PROVE  FreedInv'
<1> DEFINE new == NewRecord(intact)
<1>1. ShapeInv' /\ NodeInv /\ ShapeInv
  BY SampleKeepsShape DEF FreedInv, ShapeInv
<1>2. ToSet(buffer') = (ToSet(buffer) \ Erased) \cup {new}
  BY <1>1, SampleIs
<1>3. new.seq = nextSeq /\ new.signed = intact /\ nextSeq \in Nat
  BY <1>1, NewReading DEF NodeInv
<1> HIDE DEF new
<1>4. /\ post = None /\ InFlight' = InFlight /\ UNCHANGED <<everStored, freed, post>>
      /\ ~ intact => faults.lost + faults.corrupt < MaxDamage
      /\ faults' = IF intact THEN faults ELSE [faults EXCEPT !.corrupt = @ + 1]
  BY DEF Sample, netVars, InFlight
<1>5. \A r : Accounted(r)' <=> Accounted(r)
  BY <1>4 DEF Accounted, SeqWasStored
<1>6. \A r : r \in ToSet(buffer)' <=> r = new \/ r \in ToSet(buffer) \ Erased
  <2>1. \A r : r \in ToSet(buffer)' <=> r \in ToSet(buffer')
    BY DEF ToSet
  <2> QED BY <1>2, <2>1
<1>7. BehindIsAccounted'
  <2> SUFFICES ASSUME NEW s \in everStored, NEW r, r = new \/ r \in ToSet(buffer), r.seq <= s.seq
               PROVE  Accounted(r)
    BY <1>4, <1>5, <1>6 DEF BehindIsAccounted
  <2>1. CASE r \in ToSet(buffer)
    BY <2>1 DEF FreedInv, BehindIsAccounted
  <2>2. CASE r = new
    <3>1. s.seq \in Nat /\ s.seq <= nextSeq
      BY <1>1 DEF ShapeInv, GateInv, Reading
    <3>2. s.seq = r.seq
      BY <1>3, <2>2, <3>1
    <3> QED BY <3>2 DEF Accounted, SeqWasStored
  <2> QED BY <2>1, <2>2
<1>8. BatchIsWhole'
  <2> SUFFICES ASSUME NEW b \in InFlight, NEW q \in ToSet(b), NEW r, r = new \/ r \in ToSet(buffer),
                      q.signed, r.seq < q.seq
               PROVE  r \in ToSet(b) \/ Accounted(r)
    BY <1>4, <1>5, <1>6 DEF BatchIsWhole, ToSet
  <2>1. CASE r \in ToSet(buffer)
    BY <2>1 DEF FreedInv, BatchIsWhole
  <2>2. CASE r = new
    <3>1. b \in Seq(Reading) /\ q.seq <= nextSeq
      BY <1>1 DEF ShapeInv, NetInv
    <3>2. q \in Reading
      BY <3>1 DEF ToSet
    <3> QED BY <1>3, <2>2, <3>1, <3>2 DEF Reading
  <2> QED BY <2>1, <2>2
<1>9. AckIsSafe' /\ FreedIsAccounted'
  BY <1>4, <1>5 DEF FreedInv, AckIsSafe, FreedIsAccounted
<1>10. DamageInv'
  <2>1. /\ IsFiniteSet(Damaged) /\ Cardinality(Damaged) <= faults.corrupt /\ faults.corrupt \in Nat
        /\ Cardinality(Damaged) \in Nat /\ faults.lost \in Nat
    BY FS_CardinalityType DEF FreedInv, DamageInv
  <2>2. CASE intact
    <3>1. Damaged' \subseteq Damaged
      BY <1>3, <1>6, <2>2 DEF Damaged
    <3>2. IsFiniteSet(Damaged') /\ Cardinality(Damaged') <= Cardinality(Damaged)
          /\ Cardinality(Damaged') \in Nat
      BY <2>1, <3>1, FS_Subset, FS_CardinalityType
    <3>3. faults' = faults
      BY <1>4, <2>2
    <3> QED BY <2>1, <3>2, <3>3 DEF FreedInv, DamageInv
  <2>3. CASE ~ intact
    <3> DEFINE more == Damaged \cup {new}
    <3>1. Damaged' \subseteq more
      BY <1>6 DEF Damaged
    <3>a. IsFiniteSet(more) /\ Cardinality(more) \in {Cardinality(Damaged), Cardinality(Damaged) + 1}
      <4> HIDE DEF new
      <4> QED BY <2>1, FS_AddElement
    <3> HIDE DEF more
    <3>2. IsFiniteSet(more) /\ Cardinality(more) <= Cardinality(Damaged) + 1 /\ Cardinality(more) \in Nat
      BY <2>1, <3>a
    <3>3. IsFiniteSet(Damaged') /\ Cardinality(Damaged') <= Cardinality(more)
          /\ Cardinality(Damaged') \in Nat
      BY <3>1, <3>2, FS_Subset, FS_CardinalityType
    <3>4. /\ faults' = [lost |-> faults.lost, restarts |-> faults.restarts, corrupt |-> faults.corrupt + 1]
          /\ faults.lost + faults.corrupt < MaxDamage
      BY <1>4, <2>3 DEF FreedInv, DamageInv
    <3>5. /\ faults'.lost = faults.lost /\ faults'.corrupt = faults.corrupt + 1
          /\ faults' = [lost |-> faults'.lost, restarts |-> faults'.restarts, corrupt |-> faults'.corrupt]
      BY <3>4
    <3>6. Cardinality(Damaged') <= faults.corrupt + 1
      BY <2>1, <3>2, <3>3
    <3>7. faults.lost + (faults.corrupt + 1) <= MaxDamage
      BY <2>1, <3>4 DEF FewDamaged
    <3> QED BY <2>1, <3>3, <3>5, <3>6, <3>7 DEF DamageInv
  <2> QED BY <2>2, <2>3
<1> QED BY <1>1, <1>7, <1>8, <1>9, <1>10 DEF FreedInv

LEMMA SavingKeepsFreed ==
  ASSUME FewDamaged, FreedInv, Advance \/ LoseAdvance \/ TearAdvance
  PROVE  FreedInv'
<1>1. ShapeInv'
  BY SavingKeepsShape DEF FreedInv
<1>2. UNCHANGED <<netVars, buffer, freed, everStored>>
  BY DEF Advance, LoseAdvance, TearAdvance
<1>3. Damaged' = Damaged /\ InFlight' = InFlight
  BY <1>2 DEF Damaged, InFlight, netVars, ToSet
<1>4. BehindIsAccounted' /\ BatchIsWhole' /\ AckIsSafe' /\ FreedIsAccounted'
  BY <1>2, <1>3 DEF FreedInv, BehindIsAccounted, BatchIsWhole, AckIsSafe, FreedIsAccounted,
                    Accounted, SeqWasStored, netVars, ToSet
<1>5. DamageInv'
  <2>1. CASE faults' = faults
    BY <1>3, <2>1 DEF FreedInv, DamageInv
  <2>2. CASE faults.lost + faults.corrupt < MaxDamage /\ faults' = [faults EXCEPT !.lost = @ + 1]
    <3>1. faults' = [lost |-> faults.lost + 1, restarts |-> faults.restarts, corrupt |-> faults.corrupt]
      BY <2>2 DEF FreedInv, DamageInv
    <3>2. /\ faults'.lost = faults.lost + 1 /\ faults'.corrupt = faults.corrupt
          /\ faults' = [lost |-> faults'.lost, restarts |-> faults'.restarts, corrupt |-> faults'.corrupt]
      BY <3>1
    <3>3. faults.lost \in Nat /\ faults.corrupt \in Nat
      BY DEF FreedInv, DamageInv
    <3>4. (faults.lost + 1) + faults.corrupt <= MaxDamage
      BY <2>2, <3>3 DEF FewDamaged
    <3> QED BY <1>3, <3>2, <3>3, <3>4 DEF FreedInv, DamageInv
  <2> QED BY <2>1, <2>2 DEF Advance, LoseAdvance, TearAdvance
<1> QED BY <1>1, <1>4, <1>5 DEF FreedInv

LEMMA BatchIsPrefix ==
  ASSUME NodeInv
  PROVE  \A q \in ToSet(Batch) : \A r \in ToSet(buffer) : r.seq < q.seq => r \in ToSet(Batch)
<1> SUFFICES ASSUME NEW q \in ToSet(Batch), NEW r \in ToSet(buffer), r.seq < q.seq
             PROVE  r \in ToSet(Batch)
  OBVIOUS
<1>1. /\ DOMAIN buffer = 1 .. Len(buffer) /\ Len(buffer) \in Nat
      /\ Batch \in Seq(Reading) /\ DOMAIN Batch = 1 .. Len(Batch) /\ Len(Batch) \in Nat
      /\ Len(Batch) <= Len(buffer)
      /\ \A i \in 1 .. Len(Batch) : Batch[i] = buffer[i]
  <2>1. buffer \in Seq(Reading) /\ InOrder(buffer)
    BY DEF NodeInv
  <2>2. /\ Batch \in Seq(Reading)
        /\ Len(Batch) = IF Len(buffer) < MaxBatch THEN Len(buffer) ELSE MaxBatch
        /\ \A i \in 1 .. Len(Batch) : Batch[i] = buffer[i]
    BY <2>1, BatchIs
  <2> QED BY <2>1, <2>2, BufferAssumption
<1>2. PICK i \in 1 .. Len(Batch) : q = buffer[i]
  BY <1>1 DEF ToSet
<1>3. PICK j \in 1 .. Len(buffer) : r = buffer[j]
  BY <1>1 DEF ToSet
<1>4. q \in ToSet(buffer) /\ q.seq \in Nat /\ r.seq \in Nat
  <2>1. q \in ToSet(buffer)
    BY <1>1, <1>2 DEF ToSet
  <2> QED BY <2>1, InBufferIs
<1>5. ~ (i < j)  => j \in 1 .. Len(Batch)
  BY <1>1
<1>6. i < j => q.seq <= r.seq
  BY <1>1, <1>2, <1>3 DEF NodeInv, InOrder
<1>7. j \in 1 .. Len(Batch)
  BY <1>4, <1>5, <1>6
<1> QED BY <1>1, <1>3, <1>7 DEF ToSet

LEMMA UploadKeepsFreed ==
  ASSUME FreedInv, Upload
  PROVE  FreedInv'
<1>1. ShapeInv' /\ NodeInv
  BY UploadKeepsShape DEF FreedInv, ShapeInv
<1>2. /\ post' = Pending(Batch) /\ late' = late
      /\ UNCHANGED <<buffer, freed, everStored, faults>>
  BY DEF Upload, nodeVars
<1>3. Pending(Batch).batch = Batch /\ Pending(Batch).code # 200
  BY DEF Pending
<1>4. \A b \in InFlight' : b \in InFlight \/ b = Batch
  BY <1>2, <1>3 DEF InFlight
<1>5. BehindIsAccounted' /\ FreedIsAccounted' /\ DamageInv'
  BY <1>2 DEF FreedInv, BehindIsAccounted, FreedIsAccounted, DamageInv, Damaged, Accounted,
              SeqWasStored, ToSet
<1>6. AckIsSafe'
  BY <1>2, <1>3 DEF AckIsSafe
<1>7. \A q \in ToSet(Batch) : \A r \in ToSet(buffer) : r.seq < q.seq => r \in ToSet(Batch)
  BY <1>1, BatchIsPrefix
<1>8. BatchIsWhole'
  <2> SUFFICES ASSUME NEW b \in InFlight', NEW q \in ToSet(b), NEW r \in ToSet(buffer),
                      q.signed, r.seq < q.seq
               PROVE  r \in ToSet(b) \/ Accounted(r)
    BY <1>2 DEF BatchIsWhole, Accounted, SeqWasStored, ToSet
  <2>1. CASE b \in InFlight
    BY <2>1 DEF FreedInv, BatchIsWhole
  <2>2. CASE b = Batch
    BY <1>7, <2>2
  <2> QED BY <1>4, <2>1, <2>2
<1> QED BY <1>1, <1>5, <1>6, <1>8 DEF FreedInv

LEMMA ReplyKeepsFreed ==
  ASSUME FreedInv, HandleReply
  PROVE  FreedInv'
<1>1. ShapeInv' /\ ToSet(buffer') \subseteq ToSet(buffer) /\ InFlight' \subseteq InFlight
  BY ReplyKeepsShape DEF FreedInv
<1>2. post # None /\ post' = None /\ UNCHANGED <<everStored, faults>>
  BY DEF HandleReply
<1>3. BehindIsAccounted' /\ BatchIsWhole' /\ DamageInv'
  BY <1>1, <1>2, ShrinkKeepsFreed
<1>4. \A r : Accounted(r)' <=> Accounted(r)
  BY <1>2 DEF Accounted, SeqWasStored
<1>5. \A r \in freed' : r \in freed \/ Accounted(r)
  <2>1. post.code = 200 => \A r \in Acknowledged : Accounted(r)
    BY <1>2 DEF FreedInv, AckIsSafe, Acknowledged, Releases
  <2> QED BY <2>1 DEF HandleReply
<1>6. FreedIsAccounted'
  BY <1>4, <1>5 DEF FreedInv, FreedIsAccounted
<1>7. AckIsSafe'
  BY <1>2 DEF AckIsSafe
<1> QED BY <1>1, <1>3, <1>6, <1>7 DEF FreedInv

LEMMA GiveUpKeepsFreed ==
  ASSUME FreedInv, GiveUp
  PROVE  FreedInv'
<1>1. ShapeInv' /\ InFlight' \subseteq InFlight
  BY GiveUpKeepsShape DEF FreedInv
<1>2. post' = None /\ UNCHANGED <<buffer, freed, everStored, faults>>
  BY DEF GiveUp, nodeVars
<1>3. BehindIsAccounted' /\ BatchIsWhole' /\ DamageInv'
  BY <1>1, <1>2, ShrinkKeepsFreed DEF ToSet
<1>4. AckIsSafe' /\ FreedIsAccounted'
  BY <1>2 DEF FreedInv, AckIsSafe, FreedIsAccounted, Accounted, SeqWasStored
<1> QED BY <1>1, <1>3, <1>4 DEF FreedInv

(* A request served accounts for all that is behind what it stored.        *)
LEMMA ServeKeepsFreed ==
  ASSUME FreedInv, NEW b \in InFlight, Serve(b), InFlight' \subseteq InFlight,
         UNCHANGED <<nodeVars, faults>>
  PROVE  BehindIsAccounted' /\ BatchIsWhole' /\ FreedIsAccounted' /\ DamageInv'
<1>1. /\ \/ everStored' = everStored \cup {q \in ToSet(b) : Admitted(q)}
         \/ everStored' = everStored
      /\ UNCHANGED <<buffer, freed>>
  BY DEF Serve, Store, nodeVars
<1>2. \A r : Accounted(r) => Accounted(r)'
  BY <1>1 DEF Accounted, SeqWasStored
<1>3. \A q \in ToSet(b) : q.dev = node
  <2>1. b \in Seq(Reading)
    BY DEF FreedInv, ShapeInv, NetInv
  <2> QED BY <2>1, InSequenceIs
<1>4. BehindIsAccounted'
  <2> SUFFICES ASSUME NEW s \in everStored', NEW r \in ToSet(buffer), r.seq <= s.seq
               PROVE  Accounted(r)'
    BY <1>1 DEF BehindIsAccounted, ToSet
  <2>1. CASE s \in everStored
    BY <1>2, <2>1 DEF FreedInv, BehindIsAccounted
  <2>2. CASE /\ s \in ToSet(b) /\ Admitted(s)
             /\ everStored' = everStored \cup {q \in ToSet(b) : Admitted(q)}
    <3>1. r.seq \in Nat /\ s.seq \in Nat
      <4>1. b \in Seq(Reading)
        BY DEF FreedInv, ShapeInv, NetInv
      <4> QED BY <2>2, <4>1, InSequenceIs, InBufferIs DEF FreedInv, ShapeInv
    <3>2. CASE r.seq = s.seq
      BY <3>2 DEF Accounted, SeqWasStored
    <3>3. CASE r.seq < s.seq
      <4>1. r \in ToSet(b) \/ Accounted(r)
        BY <2>2, <3>3 DEF FreedInv, BatchIsWhole, Admitted
      <4>2. r \in ToSet(b) /\ r.signed => r \in everStored'
        BY <1>3, <2>2 DEF Admitted
      <4> QED BY <1>2, <4>1, <4>2 DEF Accounted, SeqWasStored
    <3> QED BY <3>1, <3>2, <3>3
  <2> QED BY <1>1, <2>1, <2>2
<1>5. BatchIsWhole'
  BY <1>1, <1>2 DEF FreedInv, BatchIsWhole, ToSet
<1>6. FreedIsAccounted'
  BY <1>1, <1>2 DEF FreedInv, FreedIsAccounted
<1>7. DamageInv'
  BY <1>1 DEF FreedInv, DamageInv, Damaged, ToSet
<1> QED BY <1>4, <1>5, <1>6, <1>7

LEMMA ServePostKeepsFreed ==
  ASSUME FewDamaged, FreedInv, ServePost
  PROVE  FreedInv'
<1>1. ShapeInv' /\ InFlight' = InFlight
  BY ServePostKeepsShape DEF FreedInv
<1>2. /\ post # None /\ Serve(post.batch) /\ UNCHANGED <<nodeVars, faults>>
      /\ post' = [post EXCEPT !.code = StatusCode(post.batch), !.ack = AckSeq(node)']
      /\ post = [batch |-> post.batch, code |-> post.code, ack |-> post.ack]
      /\ post.batch = Batch /\ post.batch \in InFlight
  BY DEF ServePost, FreedInv, ShapeInv, NetInv, InFlight
<1>3. BehindIsAccounted' /\ BatchIsWhole' /\ FreedIsAccounted' /\ DamageInv'
  BY <1>1, <1>2, ServeKeepsFreed
<1>4. post'.code = StatusCode(post.batch) /\ post'.ack = AckSeq(node)'
  BY <1>2
<1>5. AckIsSafe'
  <2> SUFFICES ASSUME StatusCode(post.batch) = 200, NEW r \in ToSet(buffer), r.seq <= AckSeq(node)'
               PROVE  Accounted(r)'
    BY <1>2, <1>4 DEF AckIsSafe, nodeVars, ToSet
  <2>1. r.seq \in Nat /\ r.signed \in BOOLEAN /\ r \in ToSet(buffer)'
    BY <1>2, InBufferIs DEF FreedInv, ShapeInv, nodeVars, ToSet
  <2>2. CASE chain'[node].seq # NoSeq
    <3>1. AckSeq(node)' = chain'[node].seq
      BY <2>2 DEF AckSeq
    <3>2. PICK s \in everStored' : s.seq = chain'[node].seq
      BY <1>1, <2>2 DEF ShapeInv, GateInv
    <3> QED BY <1>3, <2>1, <3>1, <3>2 DEF BehindIsAccounted
  <2>3. CASE chain'[node].seq = NoSeq
    <3>1. /\ post.batch \in Seq(Reading) /\ StartsAtZero(ToSet(post.batch))
          /\ chain \in [Device -> Tip]
      BY <1>2 DEF FreedInv, ShapeInv, NetInv, GateInv
    <3>2. \A q \in ToSet(post.batch) : ~ Admitted(q)
      <4>1. Store(post.batch)
        BY <1>2 DEF StatusCode, Serve
      <4> QED BY <2>3, <3>1, <4>1, StoreIs
    <3>3. node \in active /\ active \subseteq known
      BY DEF StatusCode, FreedInv, ShapeInv, GateInv
    <3>4. \A q \in ToSet(post.batch) : q.dev = node
      BY <3>1, InSequenceIs
    <3>5. \A q \in ToSet(Batch) : ~ q.signed
      BY <1>2, <3>2, <3>3, <3>4 DEF Admitted
    <3>6. ToSet(Batch) = ToSet(buffer)
      BY <3>5, SomeIsIntact DEF FreedInv, ShapeInv
    <3>7. ~ r.signed
      BY <3>5, <3>6
    <3> QED BY <3>7 DEF Accounted
  <2> QED BY <2>2, <2>3
<1> QED BY <1>1, <1>3, <1>5 DEF FreedInv

LEMMA ServeLateKeepsFreed ==
  ASSUME FreedInv, ServeLate
  PROVE  FreedInv'
<1>1. ShapeInv' /\ InFlight' \subseteq InFlight
  BY ServeLateKeepsShape DEF FreedInv
<1>2. PICK b \in late : Serve(b) /\ UNCHANGED <<nodeVars, post, faults>>
  BY DEF ServeLate
<1>3. BehindIsAccounted' /\ BatchIsWhole' /\ FreedIsAccounted' /\ DamageInv'
  BY <1>1, <1>2, ServeKeepsFreed DEF InFlight
<1>4. AckIsSafe'
  BY <1>2 DEF FreedInv, AckIsSafe, Accounted, SeqWasStored, Serve, Store, nodeVars, ToSet
<1> QED BY <1>1, <1>3, <1>4 DEF FreedInv

LEMMA GatewayKeepsFreed ==
  ASSUME FreedInv, Commission \/ Restart \/ UNCHANGED vars
  PROVE  FreedInv'
<1>1. ShapeInv'
  BY GatewayKeepsShape DEF FreedInv
<1>2. UNCHANGED <<nodeVars, netVars, everStored>>
  BY DEF Commission, Restart, vars
<1>3. Damaged' = Damaged /\ InFlight' = InFlight
  BY <1>2 DEF Damaged, InFlight, nodeVars, netVars, ToSet
<1>4. BehindIsAccounted' /\ BatchIsWhole' /\ AckIsSafe' /\ FreedIsAccounted'
  BY <1>2, <1>3 DEF FreedInv, BehindIsAccounted, BatchIsWhole, AckIsSafe, FreedIsAccounted,
                    Accounted, SeqWasStored, nodeVars, netVars, ToSet
<1>5. faults' = faults \/ faults' = [faults EXCEPT !.restarts = @ + 1]
  BY DEF Commission, Restart, vars
<1>6. /\ faults'.lost = faults.lost /\ faults'.corrupt = faults.corrupt
      /\ faults' = [lost |-> faults'.lost, restarts |-> faults'.restarts, corrupt |-> faults'.corrupt]
  <2>1. CASE faults' = faults
    BY <2>1 DEF FreedInv, DamageInv
  <2>2. CASE faults' = [faults EXCEPT !.restarts = @ + 1]
    <3>1. faults' = [lost |-> faults.lost, restarts |-> faults.restarts + 1, corrupt |-> faults.corrupt]
      BY <2>2 DEF FreedInv, DamageInv
    <3> QED BY <3>1
  <2> QED BY <1>5, <2>1, <2>2
<1>7. DamageInv'
  BY <1>3, <1>6 DEF FreedInv, DamageInv
<1> QED BY <1>1, <1>4, <1>7 DEF FreedInv

(* For a buffer, batches, retries and late requests of any number: what    *)
(* the node frees has been stored, or is damaged, or another record of its *)
(* seq was stored in its place.  A batch must be longer than the records   *)
(* that can be damaged: a batch of damaged records only is acknowledged    *)
(* with 0 (`?? 0`, index.ts), which frees the first record.                *)
THEOREM FreedWasStoredAlways ==
  ASSUME FewDamaged
  PROVE  Spec => []FreedWasStored
<1>1. Init => FreedInv
  BY FreedStart
<1>2. FreedInv /\ [Next]_vars => FreedInv'
  <2> SUFFICES ASSUME FreedInv, [Next]_vars PROVE FreedInv'
    OBVIOUS
  <2> QED BY SampleKeepsFreed, SavingKeepsFreed, UploadKeepsFreed, ReplyKeepsFreed, GiveUpKeepsFreed,
             ServePostKeepsFreed, ServeLateKeepsFreed, GatewayKeepsFreed DEF Next
<1>3. FreedInv => FreedWasStored
  BY DEF FreedInv, FreedIsAccounted, FreedWasStored, Accounted
<1> QED BY <1>1, <1>2, <1>3, PTL DEF Spec

-----------------------------------------------------------------------------
(* Retries accuse nobody.  As long as no advance was lost, the n-th record *)
(* has seq n, names its predecessor, and is the only one of its seq.       *)
Linked(r) == r.digest = r.seq + 1 /\ r.prev = (IF r.seq = 0 THEN ZeroDigest ELSE r.seq)

Tied(st) == st.seq # NoSeq => st.digest = st.seq + 1

VerdictsOf(entries) == {e.verdict : e \in entries}

(* As long as nothing else happened either, a batch that starts above what *)
(* the gateway holds has a record of every seq in between.                 *)
Whole(b, n) ==
  /\ InOrder(b)
  /\ \A q \in ToSet(b) : q.signed
  /\ \A q \in ToSet(b) : \A k \in Nat : n < k /\ k < q.seq => \E p \in ToSet(b) : p.seq = k

LEMMA VerdictIs ==
  ASSUME NEW st \in Tip, Tied(st), NEW r \in Reading, Linked(r)
  PROVE  Verdict(st, r) = IF r.seq > st.seq + 1 THEN "CHAIN_GAP"
                          ELSE IF r.seq = st.seq + 1 THEN "ACCEPT" ELSE "DUPLICATE"
<1>1. r.seq \in Nat /\ st.seq \in Nat \cup {-1} /\ NoSeq = -1
  BY DEF Reading, Tip, NoSeq
<1>2. CASE st.seq = NoSeq
  BY <1>1, <1>2 DEF Verdict, Linked
<1>3. CASE st.seq # NoSeq
  <2>1. st.digest = st.seq + 1 /\ r.digest = r.seq + 1 /\ (r.seq = st.seq + 1 => r.prev = st.digest)
    BY <1>1, <1>3 DEF Tied, Linked
  <2>2. Verdict(st, r) = CASE r.seq > st.seq + 1 -> "CHAIN_GAP"
                           [] r.seq = st.seq + 1 -> IF r.prev = st.digest THEN "ACCEPT" ELSE "CHAIN_FORK"
                           [] r.seq = st.seq /\ r.digest # st.digest -> "CHAIN_FORK"
                           [] OTHER -> "DUPLICATE"
    BY <1>3 DEF Verdict
  <2> QED BY <1>1, <1>3, <2>1, <2>2
<1> QED BY <1>2, <1>3

LEMMA LinkedAnswerIs ==
  ASSUME NEW g, g.chain \in Tip, Tied(g.chain), NEW r \in Reading, Linked(r)
  PROVE  LET next == IngestOne(g, r)
         IN /\ next.chain \in Tip /\ Tied(next.chain) /\ g.chain.seq <= next.chain.seq
            /\ ~ Admitted(r) => next = g
            /\ Admitted(r) => r.seq <= next.chain.seq
            /\ VerdictsOf(next.log) \subseteq VerdictsOf(g.log) \cup {"ACCEPT", "DUPLICATE", "CHAIN_GAP"}
            /\ r.seq <= g.chain.seq + 1 =>
                 VerdictsOf(next.log) \subseteq VerdictsOf(g.log) \cup {"ACCEPT", "DUPLICATE"}
<1> DEFINE v == Verdict(g.chain, r)
           moved == [seq |-> r.seq, digest |-> r.digest]
<1>1. r.seq \in Nat /\ r.digest \in Nat /\ g.chain.seq \in Nat \cup {-1} /\ NoSeq = -1
  BY DEF Reading, Tip, NoSeq
<1>2. v = IF r.seq > g.chain.seq + 1 THEN "CHAIN_GAP"
          ELSE IF r.seq = g.chain.seq + 1 THEN "ACCEPT" ELSE "DUPLICATE"
  BY VerdictIs
<1>3. moved \in Tip /\ moved.seq = r.seq /\ Tied(moved)
  BY <1>1 DEF Tip, Tied, Linked
<1>4. Admitted(r) => /\ IngestOne(g, r).chain = IF Advances(v) THEN moved ELSE g.chain
                     /\ IngestOne(g, r).log = g.log \cup {[rec |-> r, verdict |-> v]}
  BY DEF IngestOne, NextChain, Logged
<1>5. ~ Admitted(r) => IngestOne(g, r) = g
  BY DEF IngestOne
<1> HIDE DEF v, moved
<1>6. Advances(v) <=> r.seq > g.chain.seq
  BY <1>1, <1>2 DEF Advances
<1>7. CASE Admitted(r)
  <2>1. VerdictsOf(g.log \cup {[rec |-> r, verdict |-> v]}) = VerdictsOf(g.log) \cup {v}
    <3> DEFINE entry == [rec |-> r, verdict |-> v]
    <3>1. entry.verdict = v
      OBVIOUS
    <3> HIDE DEF entry
    <3>2. VerdictsOf(g.log \cup {entry}) = VerdictsOf(g.log) \cup {v}
      BY <3>1 DEF VerdictsOf
    <3> QED BY <3>2 DEF entry
  <2>2. VerdictsOf(IngestOne(g, r).log) = VerdictsOf(g.log) \cup {v}
    BY <1>4, <1>7, <2>1
  <2>3. CASE Advances(v)
    <3>1. IngestOne(g, r).chain = moved
      BY <1>4, <1>7, <2>3
    <3> QED BY <1>1, <1>2, <1>3, <1>6, <1>7, <2>2, <2>3, <3>1
  <2>4. CASE ~ Advances(v)
    <3>1. IngestOne(g, r).chain = g.chain
      BY <1>4, <1>7, <2>4
    <3> QED BY <1>1, <1>2, <1>6, <1>7, <2>2, <2>4, <3>1
  <2> QED BY <2>3, <2>4
<1>8. CASE ~ Admitted(r)
  BY <1>1, <1>5, <1>8
<1> QED BY <1>7, <1>8

(* A request of linked records moves the tip up, and finds a gap only when *)
(* something is missing from it.                                           *)
LEMMA LinkedStoreIs ==
  ASSUME chain \in [Device -> Tip], Tied(chain[node]),
         NEW b \in Seq(Reading), \A q \in ToSet(b) : Linked(q), Store(b)
  PROVE  /\ Tied(chain'[node]) /\ chain[node].seq <= chain'[node].seq
         /\ VerdictsOf(log') \subseteq VerdictsOf(log) \cup {"ACCEPT", "DUPLICATE", "CHAIN_GAP"}
         /\ Whole(b, chain[node].seq) =>
              VerdictsOf(log') \subseteq VerdictsOf(log) \cup {"ACCEPT", "DUPLICATE"}
<1>1. Len(b) \in Nat /\ DOMAIN b = 1 .. Len(b)
  OBVIOUS
<1>2. PICK ingested :
        /\ ingested[0] = [chain |-> chain[node], log |-> log]
        /\ \A n \in 1 .. Len(b) : ingested[n] = IngestOne(ingested[n - 1], b[n])
        /\ IngestAll(b) = ingested[Len(b)]
  BY <1>1, IngestAllIs
<1>3. node \in Device /\ chain[node] \in Tip /\ chain[node].seq \in Nat \cup {-1}
  BY NodeAssumption DEF Tip, NoSeq
<1> DEFINE Of(n) == VerdictsOf(ingested[n].log)
           Good(n) == /\ ingested[n].chain \in Tip /\ Tied(ingested[n].chain)
                      /\ chain[node].seq <= ingested[n].chain.seq
                      /\ Of(n) \subseteq VerdictsOf(log) \cup {"ACCEPT", "DUPLICATE", "CHAIN_GAP"}
           Better(n) == /\ Of(n) \subseteq VerdictsOf(log) \cup {"ACCEPT", "DUPLICATE"}
                        /\ node \in known /\ node \in active =>
                             \A i \in 1 .. n : b[i].seq <= ingested[n].chain.seq
           T == {n \in Nat : n <= Len(b) => Good(n) /\ (Whole(b, chain[node].seq) => Better(n))}
<1>4. 0 \in T
  <2>1. ingested[0].chain = chain[node] /\ ingested[0].log = log
    BY <1>2
  <2> QED BY <1>3, <2>1
<1>5. ASSUME NEW n \in T PROVE n + 1 \in T
  <2> SUFFICES ASSUME n + 1 <= Len(b)
               PROVE  Good(n + 1) /\ (Whole(b, chain[node].seq) => Better(n + 1))
    OBVIOUS
  <2> DEFINE st == ingested[n].chain
             r == b[n + 1]
             next == ingested[n + 1]
  <2>1. n + 1 \in 1 .. Len(b) /\ Good(n) /\ (Whole(b, chain[node].seq) => Better(n))
    <3> HIDE DEF Good, Better
    <3> QED OBVIOUS
  <2>2. r \in Reading /\ r \in ToSet(b) /\ Linked(r) /\ r.seq \in Nat
    <3>1. r \in ToSet(b)
      BY <1>1, <2>1 DEF ToSet
    <3> QED BY <3>1, InSequenceIs
  <2>3. next = IngestOne(ingested[n], r)
    BY <1>2, <2>1
  <2> HIDE DEF r, next
  <2>4. /\ next.chain \in Tip /\ Tied(next.chain) /\ st.seq <= next.chain.seq
        /\ ~ Admitted(r) => next = ingested[n]
        /\ Admitted(r) => r.seq <= next.chain.seq
        /\ VerdictsOf(next.log) \subseteq Of(n) \cup {"ACCEPT", "DUPLICATE", "CHAIN_GAP"}
        /\ r.seq <= st.seq + 1 => VerdictsOf(next.log) \subseteq Of(n) \cup {"ACCEPT", "DUPLICATE"}
    BY <2>1, <2>2, <2>3, LinkedAnswerIs
  <2>5. st.seq \in Nat \cup {-1} /\ next.chain.seq \in Nat \cup {-1}
    BY <2>1, <2>4 DEF Tip, NoSeq
  <2>6. Good(n + 1)
    BY <1>3, <2>1, <2>4, <2>5 DEF next
  <2>7. ASSUME Whole(b, chain[node].seq) PROVE Better(n + 1)
    <3>1. Better(n)
      BY <2>1, <2>7
    <3>2. CASE ~ (node \in known /\ node \in active)
      <4>1. r.dev = node
        BY <2>2, InSequenceIs
      <4>2. next = ingested[n]
        BY <2>4, <3>2, <4>1 DEF Admitted
      <4> QED BY <3>1, <3>2, <4>2 DEF next
    <3>3. CASE node \in known /\ node \in active
      <4>1. Admitted(r)
        BY <2>2, <2>7, <3>3, InSequenceIs DEF Admitted, Whole
      <4>2. r.seq <= st.seq + 1
        <5> SUFFICES ASSUME ~ (r.seq <= st.seq + 1) PROVE FALSE
          OBVIOUS
        <5> DEFINE k == st.seq + 1
        <5>1. k \in Nat /\ chain[node].seq < k /\ k < r.seq
          BY <1>3, <2>1, <2>2, <2>5
        <5>2. PICK p \in ToSet(b) : p.seq = k
          BY <2>2, <2>7, <5>1 DEF Whole
        <5>3. PICK i \in 1 .. Len(b) : p = b[i]
          BY <1>1 DEF ToSet
        <5>4. CASE i \in 1 .. n
          BY <2>5, <3>1, <3>3, <5>2, <5>3, <5>4
        <5>5. CASE i = n + 1
          BY <5>1, <5>2, <5>3, <5>5 DEF r
        <5>6. CASE n + 1 < i
          BY <1>1, <2>1, <2>2, <2>5, <2>7, <5>1, <5>2, <5>3, <5>6 DEF Whole, InOrder, r
        <5> QED BY <2>1, <5>3, <5>4, <5>5, <5>6
      <4>3. VerdictsOf(next.log) \subseteq VerdictsOf(log) \cup {"ACCEPT", "DUPLICATE"}
        BY <2>4, <3>1, <4>2
      <4>4. \A i \in 1 .. n + 1 : b[i].seq <= next.chain.seq
        <5> SUFFICES ASSUME NEW i \in 1 .. n + 1 PROVE b[i].seq <= next.chain.seq
          OBVIOUS
        <5>1. CASE i = n + 1
          BY <2>4, <4>1, <5>1 DEF r
        <5>2. CASE i # n + 1
          <6>1. i \in 1 .. n /\ i \in 1 .. Len(b)
            BY <2>1, <5>2
          <6>2. b[i].seq <= st.seq
            BY <3>1, <3>3, <6>1
          <6>3. b[i].seq \in Nat
            BY <1>1, <6>1, InSequenceIs DEF ToSet
          <6> QED BY <2>4, <2>5, <6>2, <6>3
        <5> QED BY <5>1, <5>2
      <4> QED BY <4>3, <4>4 DEF next
    <3> QED BY <3>2, <3>3
  <2> HIDE DEF Good, Better
  <2> QED BY <2>6, <2>7
<1> HIDE DEF T
<1>6. T = Nat
  BY <1>4, <1>5, InductSet DEF T
<1>7. Good(Len(b)) /\ (Whole(b, chain[node].seq) => Better(Len(b)))
  <2> HIDE DEF Good, Better
  <2> QED BY <1>1, <1>6 DEF T
<1>8. chain'[node] = ingested[Len(b)].chain /\ log' = ingested[Len(b)].log
  BY <1>2, <1>3 DEF Store
<1> QED BY <1>7, <1>8

FaultsInv ==
  /\ faults = [lost |-> faults.lost, restarts |-> faults.restarts, corrupt |-> faults.corrupt]
  /\ faults.lost \in Nat /\ faults.restarts \in Nat /\ faults.corrupt \in Nat

LinkedInv ==
  /\ prevDigest = IF nextSeq = 0 THEN ZeroDigest ELSE nextSeq
  /\ samples = IF appended = None THEN nextSeq ELSE nextSeq + 1
  /\ appended # None => Linked(appended)
  /\ \A r \in ToSet(buffer) : Linked(r)
  /\ \A b \in InFlight : \A q \in ToSet(b) : Linked(q)
  /\ Tied(chain[node])
  /\ "CHAIN_FORK" \notin VerdictsOf(log)

Untouched == faults = [lost |-> 0, restarts |-> 0, corrupt |-> 0] /\ evicted = {}

(* Every reading above the gateway's tip is still in the buffer.           *)
WholeInv ==
  /\ \A r \in ToSet(buffer) : r.signed
  /\ \A k \in Nat : chain[node].seq < k /\ k < samples => \E r \in ToSet(buffer) : r.seq = k
  /\ \A b \in InFlight : Whole(b, chain[node].seq)
  /\ post # None /\ post.code = 200 =>
       \A r \in ToSet(buffer) : r.seq <= post.ack => r.seq <= chain[node].seq
  /\ VerdictsOf(log) \subseteq {"ACCEPT", "DUPLICATE"}

RetryInv ==
  /\ ShapeInv /\ FaultsInv
  /\ faults.lost = 0 => LinkedInv
  /\ Untouched => WholeInv

LEMMA RetryStart == Init => RetryInv
<1> SUFFICES ASSUME Init PROVE RetryInv
  OBVIOUS
<1>1. /\ nextSeq = 0 /\ prevDigest = ZeroDigest /\ appended = None /\ buffer = <<>> /\ post = None
      /\ late = {} /\ samples = 0 /\ faults = [lost |-> 0, restarts |-> 0, corrupt |-> 0]
      /\ log = {} /\ chain[node] = EmptyChain
  BY NodeAssumption DEF Init, GatewayInit
<1>2. ToSet(buffer) = {} /\ VerdictsOf(log) = {} /\ InFlight = {}
  BY <1>1 DEF ToSet, VerdictsOf, InFlight
<1>3. chain[node].seq = NoSeq /\ NoSeq = -1
  BY <1>1 DEF EmptyChain, NoSeq
<1>4. FaultsInv
  BY <1>1 DEF FaultsInv
<1>5. LinkedInv
  BY <1>1, <1>2, <1>3 DEF LinkedInv, Tied
<1>6. WholeInv
  BY <1>1, <1>2 DEF WholeInv
<1> QED BY <1>4, <1>5, <1>6, ShapeStart DEF RetryInv

(* What a step may do to the count of faults.                              *)
LEMMA FaultsGrow ==
  ASSUME FaultsInv,
         \/ faults' = faults
         \/ faults' = [faults EXCEPT !.lost = @ + 1]
         \/ faults' = [faults EXCEPT !.restarts = @ + 1]
         \/ faults' = [faults EXCEPT !.corrupt = @ + 1]
  PROVE  /\ FaultsInv'
         /\ faults'.lost = 0 => faults.lost = 0
         /\ Untouched' => faults' = faults /\ faults.lost = 0 /\ faults.corrupt = 0
<1> DEFINE a == faults.lost
           b == faults.restarts
           c == faults.corrupt
<1>1. faults = [lost |-> a, restarts |-> b, corrupt |-> c] /\ a \in Nat /\ b \in Nat /\ c \in Nat
  BY DEF FaultsInv
<1>2. \/ faults' = [lost |-> a, restarts |-> b, corrupt |-> c]
      \/ faults' = [lost |-> a + 1, restarts |-> b, corrupt |-> c]
      \/ faults' = [lost |-> a, restarts |-> b + 1, corrupt |-> c]
      \/ faults' = [lost |-> a, restarts |-> b, corrupt |-> c + 1]
  BY <1>1
<1> HIDE DEF a, b, c
<1>3. FaultsInv' /\ (faults'.lost = 0 => faults.lost = 0)
  BY <1>1, <1>2 DEF FaultsInv
<1>4. ASSUME Untouched' PROVE faults' = faults /\ faults.lost = 0 /\ faults.corrupt = 0
  <2>1. faults' = [lost |-> 0, restarts |-> 0, corrupt |-> 0]
    BY <1>4 DEF Untouched
  <2>2. faults'.lost = 0 /\ faults'.restarts = 0 /\ faults'.corrupt = 0
    BY <2>1
  <2> QED BY <1>1, <1>2, <2>2
<1> QED BY <1>3, <1>4

LEMMA SampleKeepsRetry ==
  ASSUME RetryInv, NEW intact \in BOOLEAN, Sample(intact)
  PROVE  RetryInv'
<1> DEFINE new == NewRecord(intact)
<1>1. ShapeInv' /\ NodeInv /\ ShapeInv
  BY SampleKeepsShape DEF RetryInv, ShapeInv
<1>2. ToSet(buffer)' = (ToSet(buffer) \ Erased) \cup {new}
  BY <1>1, SampleIs DEF ToSet
<1>3. /\ new.seq = nextSeq /\ new.signed = intact /\ nextSeq \in Nat /\ samples \in Nat
      /\ new.digest = samples + 1 /\ new.prev = prevDigest
  BY <1>1, NewReading DEF NodeInv
<1> HIDE DEF new
<1>4. /\ post = None /\ appended = None /\ appended' = new /\ samples' = samples + 1
      /\ InFlight' = InFlight /\ UNCHANGED <<chain, log, nextSeq, prevDigest, post>>
      /\ evicted' = evicted \cup Erased
      /\ faults' = IF intact THEN faults ELSE [faults EXCEPT !.corrupt = @ + 1]
  BY DEF Sample, netVars, gatewayVars, InFlight, new
<1>5. /\ FaultsInv' /\ (faults'.lost = 0 => faults.lost = 0)
      /\ Untouched' => faults' = faults /\ faults.lost = 0 /\ faults.corrupt = 0
  BY <1>4, FaultsGrow DEF RetryInv
<1>6. ASSUME faults.lost = 0 PROVE LinkedInv'
  <2>1. LinkedInv
    BY <1>6 DEF RetryInv
  <2>2. Linked(new)
    BY <1>3, <1>4, <2>1 DEF LinkedInv, Linked
  <2>3. \A r \in ToSet(buffer)' : Linked(r)
    BY <1>2, <2>1, <2>2 DEF LinkedInv
  <2>4. samples' = nextSeq' + 1 /\ new # None
    BY <1>4, <2>1 DEF LinkedInv, None, new, NewRecord
  <2> QED BY <1>4, <2>1, <2>2, <2>3, <2>4 DEF LinkedInv
<1>7. ASSUME Untouched' PROVE WholeInv'
  <2>1. Untouched /\ Erased = {}
    BY <1>4, <1>5, <1>7 DEF Untouched
  <2>2. WholeInv /\ LinkedInv
    BY <1>5, <1>7, <2>1 DEF RetryInv
  <2>3. intact
    BY <1>4, <1>5, <1>7 DEF RetryInv, FaultsInv
  <2>4. \A r \in ToSet(buffer)' : r.signed
    BY <1>2, <1>3, <2>2, <2>3 DEF WholeInv
  <2>5. \A k \in Nat : chain[node].seq < k /\ k < samples + 1 => \E r \in ToSet(buffer)' : r.seq = k
    <3> SUFFICES ASSUME NEW k \in Nat, chain[node].seq < k, k < samples + 1
                 PROVE  \E r \in ToSet(buffer)' : r.seq = k
      OBVIOUS
    <3>1. CASE k < samples
      BY <1>2, <2>1, <2>2, <3>1 DEF WholeInv
    <3>2. CASE k = samples
      BY <1>2, <1>3, <1>4, <2>2, <3>2 DEF LinkedInv
    <3> QED BY <1>3, <3>1, <3>2
  <2> QED BY <1>4, <2>2, <2>4, <2>5 DEF WholeInv
<1> QED BY <1>1, <1>5, <1>6, <1>7 DEF RetryInv

LEMMA SavingKeepsRetry ==
  ASSUME RetryInv, Advance \/ LoseAdvance \/ TearAdvance
  PROVE  RetryInv'
<1>1. ShapeInv' /\ NodeInv
  BY SavingKeepsShape DEF RetryInv, ShapeInv
<1>2. /\ appended # None /\ appended' = None
      /\ UNCHANGED <<chain, log, post, late, buffer, samples, evicted>>
      /\ \/ faults' = faults /\ nextSeq' = nextSeq + 1 /\ prevDigest' = appended.digest
         \/ faults' = [faults EXCEPT !.lost = @ + 1]
  BY DEF Advance, LoseAdvance, TearAdvance, gatewayVars, netVars
<1>3. /\ FaultsInv' /\ (faults'.lost = 0 => faults.lost = 0)
      /\ Untouched' => faults' = faults /\ faults.lost = 0 /\ faults.corrupt = 0
  BY <1>2, FaultsGrow DEF RetryInv
<1>4. InFlight' = InFlight /\ ToSet(buffer)' = ToSet(buffer)
  BY <1>2 DEF InFlight, ToSet
<1>5. ASSUME faults'.lost = 0 PROVE LinkedInv'
  <2>1. LinkedInv /\ faults.lost = 0
    BY <1>3, <1>5 DEF RetryInv
  <2>2. nextSeq' = nextSeq + 1 /\ prevDigest' = appended.digest
    <3> SUFFICES ASSUME faults' = [faults EXCEPT !.lost = @ + 1] PROVE FALSE
      BY <1>2
    <3>1. faults' = [lost |-> faults.lost + 1, restarts |-> faults.restarts, corrupt |-> faults.corrupt]
      BY DEF RetryInv, FaultsInv
    <3> QED BY <1>5, <2>1, <3>1
  <2>3. appended.seq = nextSeq /\ nextSeq \in Nat /\ Linked(appended)
    BY <1>1, <1>2, <2>1 DEF NodeInv, LinkedInv
  <2>4. prevDigest' = nextSeq + 1 /\ nextSeq + 1 # 0
    BY <2>2, <2>3 DEF Linked
  <2> QED BY <1>2, <1>4, <2>1, <2>2, <2>4 DEF LinkedInv
<1>6. ASSUME Untouched' PROVE WholeInv'
  <2>1. Untouched
    BY <1>2, <1>3, <1>6 DEF Untouched
  <2> QED BY <1>2, <1>4, <2>1 DEF RetryInv, WholeInv
<1> QED BY <1>1, <1>3, <1>5, <1>6 DEF RetryInv

LEMMA UploadKeepsRetry ==
  ASSUME RetryInv, Upload
  PROVE  RetryInv'
<1>1. ShapeInv' /\ NodeInv
  BY UploadKeepsShape DEF RetryInv, ShapeInv
<1>2. /\ post' = Pending(Batch) /\ late' = late /\ appended = None
      /\ UNCHANGED <<chain, log, nextSeq, prevDigest, appended, buffer, samples, evicted, faults>>
  BY DEF Upload, gatewayVars, nodeVars
<1>3. Pending(Batch).batch = Batch /\ Pending(Batch).code # 200
  BY DEF Pending
<1>4. \A b \in InFlight' : b \in InFlight \/ b = Batch
  BY <1>2, <1>3 DEF InFlight
<1>5. ToSet(buffer)' = ToSet(buffer) /\ (Untouched' <=> Untouched)
  BY <1>2 DEF ToSet, Untouched
<1>6. /\ buffer \in Seq(Reading) /\ InOrder(buffer) /\ InOrder(Batch)
      /\ ToSet(Batch) \subseteq ToSet(buffer) /\ nextSeq \in Nat
  BY <1>1, BatchIs DEF NodeInv
<1>7. ASSUME LinkedInv PROVE LinkedInv'
  BY <1>2, <1>4, <1>5, <1>6, <1>7 DEF LinkedInv
<1>8. ASSUME LinkedInv, WholeInv PROVE Whole(Batch, chain[node].seq)
  <2> SUFFICES ASSUME NEW q \in ToSet(Batch), NEW k \in Nat, chain[node].seq < k, k < q.seq
               PROVE  \E p \in ToSet(Batch) : p.seq = k
    BY <1>6, <1>8 DEF Whole, WholeInv
  <2>1. q \in ToSet(buffer) /\ q.seq \in Nat /\ q.seq <= nextSeq
    BY <1>1, <1>6, InBufferIs DEF NodeInv
  <2>2. k < samples
    BY <1>2, <1>6, <1>8, <2>1 DEF LinkedInv
  <2>3. PICK p \in ToSet(buffer) : p.seq = k
    BY <1>8, <2>2 DEF WholeInv
  <2> QED BY <1>1, <2>3, BatchIsPrefix
<1>9. ASSUME LinkedInv, WholeInv PROVE WholeInv'
  BY <1>2, <1>3, <1>4, <1>5, <1>8, <1>9 DEF WholeInv
<1>10. FaultsInv' /\ faults'.lost = faults.lost
  BY <1>2 DEF RetryInv, FaultsInv
<1>11. Untouched => faults.lost = 0
  BY DEF Untouched
<1> QED BY <1>1, <1>5, <1>7, <1>9, <1>10, <1>11 DEF RetryInv

LEMMA ReplyKeepsRetry ==
  ASSUME RetryInv, HandleReply
  PROVE  RetryInv'
<1>1. /\ ShapeInv' /\ ToSet(buffer') \subseteq ToSet(buffer) /\ InFlight' \subseteq InFlight
      /\ NodeInv
  BY ReplyKeepsShape DEF RetryInv, ShapeInv
<1>2. /\ post # None /\ post' = None
      /\ UNCHANGED <<chain, log, nextSeq, prevDigest, appended, samples, evicted, faults>>
      /\ buffer' = buffer \/ (post.code = 200 /\ buffer' = Without(buffer, Acknowledged))
  BY DEF HandleReply, gatewayVars
<1>3. ToSet(buffer)' = ToSet(buffer') /\ (Untouched' <=> Untouched)
  BY <1>2 DEF ToSet, Untouched
<1>4. ASSUME LinkedInv PROVE LinkedInv'
  BY <1>1, <1>2, <1>3, <1>4 DEF LinkedInv
<1>5. ASSUME WholeInv PROVE WholeInv'
  <2>1. \A r \in ToSet(buffer) : chain[node].seq < r.seq => r \in ToSet(buffer')
    <3> SUFFICES ASSUME NEW r \in ToSet(buffer), chain[node].seq < r.seq, post.code = 200,
                        buffer' = Without(buffer, Acknowledged)
                 PROVE  r \in ToSet(buffer')
      BY <1>2
    <3>1. ToSet(buffer') = ToSet(buffer) \ Acknowledged
      BY <1>1, WithoutInOrder DEF NodeInv
    <3>2. r.seq \in Nat /\ chain[node].seq \in Nat \cup {-1}
      BY <1>1, InBufferIs, NodeAssumption DEF RetryInv, ShapeInv, GateInv, Tip, NoSeq
    <3>3. ~ (r.seq <= post.ack)
      BY <1>2, <1>5, <3>2 DEF WholeInv
    <3> QED BY <3>1, <3>3 DEF Acknowledged, Releases
  <2>2. \A k \in Nat : chain[node].seq < k /\ k < samples => \E r \in ToSet(buffer') : r.seq = k
    BY <1>5, <2>1 DEF WholeInv
  <2> QED BY <1>1, <1>2, <1>3, <1>5, <2>2 DEF WholeInv
<1>6. FaultsInv' /\ faults'.lost = faults.lost
  BY <1>2 DEF RetryInv, FaultsInv
<1> QED BY <1>1, <1>3, <1>4, <1>5, <1>6 DEF RetryInv

LEMMA GiveUpKeepsRetry ==
  ASSUME RetryInv, GiveUp
  PROVE  RetryInv'
<1>1. ShapeInv' /\ InFlight' \subseteq InFlight
  BY GiveUpKeepsShape DEF RetryInv
<1>2. /\ post' = None
      /\ UNCHANGED <<chain, log, nextSeq, prevDigest, appended, buffer, samples, evicted, faults>>
  BY DEF GiveUp, gatewayVars, nodeVars
<1>3. ToSet(buffer)' = ToSet(buffer) /\ (Untouched' <=> Untouched)
  BY <1>2 DEF ToSet, Untouched
<1>4. ASSUME LinkedInv PROVE LinkedInv'
  BY <1>1, <1>2, <1>3, <1>4 DEF LinkedInv
<1>5. ASSUME WholeInv PROVE WholeInv'
  BY <1>1, <1>2, <1>3, <1>5 DEF WholeInv
<1>6. FaultsInv' /\ faults'.lost = faults.lost
  BY <1>2 DEF RetryInv, FaultsInv
<1> QED BY <1>1, <1>3, <1>4, <1>5, <1>6 DEF RetryInv

(* A batch that is whole above the tip is whole above a later one.         *)
LEMMA WholeStays ==
  ASSUME NEW b, NEW m \in Int, NEW n \in Int, m <= n, Whole(b, m)
  PROVE  Whole(b, n)
BY DEF Whole

LEMMA ServeKeepsLinked ==
  ASSUME ShapeInv, LinkedInv, NEW b \in InFlight, Serve(b), InFlight' \subseteq InFlight,
         UNCHANGED nodeVars
  PROVE  LinkedInv' /\ chain[node].seq <= chain'[node].seq
<1>1. /\ b \in Seq(Reading) /\ chain \in [Device -> Tip] /\ Tied(chain[node])
      /\ \A q \in ToSet(b) : Linked(q)
  BY DEF ShapeInv, NetInv, GateInv, LinkedInv
<1>2. /\ Tied(chain'[node]) /\ chain[node].seq <= chain'[node].seq
      /\ VerdictsOf(log') \subseteq VerdictsOf(log) \cup {"ACCEPT", "DUPLICATE", "CHAIN_GAP"}
  <2>1. CASE Store(b)
    BY <1>1, <2>1, LinkedStoreIs
  <2>2. CASE UNCHANGED <<gatewayVars, everStored>>
    <3>1. chain[node].seq \in Int
      BY <1>1, NodeAssumption DEF Tip, NoSeq
    <3> QED BY <1>1, <2>2, <3>1 DEF gatewayVars
  <2> QED BY <2>1, <2>2, ServeIs
<1>3. "CHAIN_FORK" \notin VerdictsOf(log)'
  <2>1. VerdictsOf(log)' = VerdictsOf(log')
    BY DEF VerdictsOf
  <2> QED BY <1>2, <2>1 DEF LinkedInv
<1>4. Tied(chain[node])'
  BY <1>2 DEF Tied
<1> QED BY <1>2, <1>3, <1>4 DEF LinkedInv, nodeVars, ToSet

LEMMA ServeKeepsWhole ==
  ASSUME ShapeInv, ShapeInv', LinkedInv, WholeInv, NEW b \in InFlight, Serve(b),
         InFlight' \subseteq InFlight, UNCHANGED nodeVars
  PROVE  /\ ToSet(buffer)' = ToSet(buffer) /\ \A r \in ToSet(buffer) : r.signed
         /\ \A k \in Nat : chain'[node].seq < k /\ k < samples => \E r \in ToSet(buffer) : r.seq = k
         /\ \A d \in InFlight' : Whole(d, chain'[node].seq)
         /\ VerdictsOf(log') \subseteq {"ACCEPT", "DUPLICATE"}
<1>1. /\ b \in Seq(Reading) /\ chain \in [Device -> Tip] /\ Tied(chain[node])
      /\ (\A q \in ToSet(b) : Linked(q)) /\ Whole(b, chain[node].seq)
  BY DEF ShapeInv, NetInv, GateInv, LinkedInv, WholeInv
<1>2. /\ chain[node].seq <= chain'[node].seq
      /\ VerdictsOf(log') \subseteq VerdictsOf(log) \cup {"ACCEPT", "DUPLICATE"}
  <2>1. CASE Store(b)
    BY <1>1, <2>1, LinkedStoreIs
  <2>2. CASE UNCHANGED <<gatewayVars, everStored>>
    <3>1. chain[node].seq \in Int
      BY <1>1, NodeAssumption DEF Tip, NoSeq
    <3> QED BY <1>1, <2>2, <3>1 DEF gatewayVars
  <2> QED BY <2>1, <2>2, ServeIs
<1>3. chain[node].seq \in Int /\ chain'[node].seq \in Int
  BY NodeAssumption DEF ShapeInv, GateInv, Tip, NoSeq
<1>4. \A d \in InFlight' : Whole(d, chain'[node].seq)
  BY <1>2, <1>3, WholeStays DEF WholeInv
<1>5. ToSet(buffer)' = ToSet(buffer)
  BY DEF nodeVars, ToSet
<1>6. \A k \in Nat : chain'[node].seq < k => chain[node].seq < k
  BY <1>2, <1>3
<1> QED BY <1>2, <1>4, <1>5, <1>6 DEF WholeInv

LEMMA ServePostKeepsRetry ==
  ASSUME RetryInv, ServePost
  PROVE  RetryInv'
<1>1. ShapeInv' /\ InFlight' = InFlight /\ ShapeInv
  BY ServePostKeepsShape DEF RetryInv
<1>2. /\ post # None /\ Serve(post.batch) /\ UNCHANGED <<nodeVars, faults>>
      /\ post' = [post EXCEPT !.code = StatusCode(post.batch), !.ack = AckSeq(node)']
      /\ post = [batch |-> post.batch, code |-> post.code, ack |-> post.ack]
      /\ post.batch = Batch /\ post.batch \in InFlight
  BY <1>1 DEF ServePost, ShapeInv, NetInv, InFlight
<1>3. post'.code = StatusCode(post.batch) /\ post'.ack = AckSeq(node)'
  BY <1>2
<1>4. ASSUME LinkedInv PROVE LinkedInv'
  BY <1>1, <1>2, <1>4, ServeKeepsLinked
<1>5. ASSUME LinkedInv, WholeInv PROVE WholeInv'
  <2>1. /\ ToSet(buffer)' = ToSet(buffer) /\ \A r \in ToSet(buffer) : r.signed
        /\ \A k \in Nat : chain'[node].seq < k /\ k < samples => \E r \in ToSet(buffer) : r.seq = k
        /\ \A d \in InFlight' : Whole(d, chain'[node].seq)
        /\ VerdictsOf(log') \subseteq {"ACCEPT", "DUPLICATE"}
    BY <1>1, <1>2, <1>5, ServeKeepsWhole
  <2>2. StatusCode(post.batch) = 200 => \A r \in ToSet(buffer) : r.seq <= AckSeq(node)' => r.seq <= chain'[node].seq
    <3> SUFFICES ASSUME StatusCode(post.batch) = 200, NEW r \in ToSet(buffer) PROVE chain'[node].seq # NoSeq
      BY DEF AckSeq
    <3>1. /\ buffer \in Seq(Reading) /\ InOrder(buffer) /\ DOMAIN buffer = 1 .. Len(buffer)
          /\ Len(buffer) \in Nat
      BY <1>1 DEF ShapeInv, NodeInv
    <3>2. 1 \in 1 .. Len(buffer)
      BY <3>1 DEF ToSet
    <3>3. /\ Batch \in Seq(Reading) /\ 1 \in 1 .. Len(Batch) /\ ToSet(Batch) \subseteq ToSet(buffer)
          /\ DOMAIN Batch = 1 .. Len(Batch)
      <4>1. /\ Batch \in Seq(Reading) /\ ToSet(Batch) \subseteq ToSet(buffer)
            /\ Len(Batch) = IF Len(buffer) < MaxBatch THEN Len(buffer) ELSE MaxBatch
        BY <3>1, BatchIs
      <4> QED BY <3>1, <3>2, <4>1, BufferAssumption
    <3>4. Batch[1] \in ToSet(Batch)
      BY <3>3 DEF ToSet
    <3>5. node \in active /\ active \subseteq known
      BY <1>1 DEF StatusCode, ShapeInv, GateInv
    <3>6. Admitted(Batch[1])
      BY <2>1, <3>3, <3>4, <3>5, InSequenceIs DEF Admitted
    <3>7. StartsAtZero(ToSet(post.batch)) /\ chain \in [Device -> Tip]
      BY <1>1, <1>2 DEF ShapeInv, NetInv, GateInv
    <3>8. Store(post.batch)
      BY <1>2 DEF StatusCode, Serve
    <3> QED BY <1>2, <3>3, <3>4, <3>6, <3>7, <3>8, StoreIs
  <2>3. samples' = samples /\ VerdictsOf(log)' = VerdictsOf(log')
    BY <1>2 DEF nodeVars, VerdictsOf
  <2> QED BY <1>3, <2>1, <2>2, <2>3 DEF WholeInv
<1>6. FaultsInv' /\ faults'.lost = faults.lost /\ (Untouched' <=> Untouched)
  BY <1>2 DEF RetryInv, FaultsInv, Untouched, nodeVars
<1>7. Untouched => faults.lost = 0
  BY DEF Untouched
<1> QED BY <1>1, <1>4, <1>5, <1>6, <1>7 DEF RetryInv

LEMMA ServeLateKeepsRetry ==
  ASSUME RetryInv, ServeLate
  PROVE  RetryInv'
<1>1. ShapeInv' /\ InFlight' \subseteq InFlight /\ ShapeInv
  BY ServeLateKeepsShape DEF RetryInv
<1>2. PICK b \in late : Serve(b) /\ UNCHANGED <<nodeVars, post, faults>>
  BY DEF ServeLate
<1>3. b \in InFlight
  BY DEF InFlight
<1>4. ASSUME LinkedInv PROVE LinkedInv' /\ chain[node].seq <= chain'[node].seq
  BY <1>1, <1>2, <1>3, <1>4, ServeKeepsLinked
<1>5. ASSUME LinkedInv, WholeInv PROVE WholeInv'
  <2>1. /\ ToSet(buffer)' = ToSet(buffer) /\ \A r \in ToSet(buffer) : r.signed
        /\ \A k \in Nat : chain'[node].seq < k /\ k < samples => \E r \in ToSet(buffer) : r.seq = k
        /\ \A d \in InFlight' : Whole(d, chain'[node].seq)
        /\ VerdictsOf(log') \subseteq {"ACCEPT", "DUPLICATE"}
    BY <1>1, <1>2, <1>3, <1>5, ServeKeepsWhole
  <2>2. \A r \in ToSet(buffer) : r.seq <= chain[node].seq => r.seq <= chain'[node].seq
    <3>1. chain[node].seq \in Int /\ chain'[node].seq \in Int
      BY <1>1, NodeAssumption DEF ShapeInv, GateInv, Tip, NoSeq
    <3>2. \A r \in ToSet(buffer) : r.seq \in Nat
      BY <1>1, InBufferIs DEF ShapeInv
    <3> QED BY <1>4, <1>5, <3>1, <3>2
  <2>3. samples' = samples /\ VerdictsOf(log)' = VerdictsOf(log') /\ post' = post
    BY <1>2 DEF nodeVars, VerdictsOf
  <2> QED BY <1>5, <2>1, <2>2, <2>3 DEF WholeInv
<1>6. FaultsInv' /\ faults'.lost = faults.lost /\ (Untouched' <=> Untouched)
  BY <1>2 DEF RetryInv, FaultsInv, Untouched, nodeVars
<1>7. Untouched => faults.lost = 0
  BY DEF Untouched
<1> QED BY <1>1, <1>4, <1>5, <1>6, <1>7 DEF RetryInv

LEMMA GatewayKeepsRetry ==
  ASSUME RetryInv, Commission \/ Restart \/ UNCHANGED vars
  PROVE  RetryInv'
<1>1. ShapeInv'
  BY GatewayKeepsShape DEF RetryInv
<1>2. UNCHANGED <<nodeVars, netVars, everStored>>
  BY DEF Commission, Restart, vars
<1>3. InFlight' = InFlight /\ ToSet(buffer)' = ToSet(buffer) /\ evicted' = evicted
  BY <1>2 DEF InFlight, nodeVars, netVars, ToSet
<1>4. /\ FaultsInv' /\ (faults'.lost = 0 => faults.lost = 0)
      /\ Untouched' => faults' = faults /\ faults.lost = 0 /\ faults.corrupt = 0
  BY FaultsGrow DEF RetryInv, Commission, Restart, vars
<1>5. \/ UNCHANGED <<chain, log>>
      \/ /\ chain' = [d \in Device |-> EmptyChain] /\ log' = {}
         /\ faults' = [faults EXCEPT !.restarts = @ + 1]
  BY DEF Commission, Restart, vars, gatewayVars, RegisterDevice, RestartGateway
<1>6. ASSUME LinkedInv PROVE LinkedInv'
  <2>1. CASE UNCHANGED <<chain, log>>
    BY <1>2, <1>3, <1>6, <2>1 DEF LinkedInv, nodeVars
  <2>2. CASE chain' = [d \in Device |-> EmptyChain] /\ log' = {}
    <3>1. Tied(chain[node])'
      BY <2>2, NodeAssumption DEF EmptyChain, Tied
    <3>2. VerdictsOf(log)' = {}
      BY <2>2 DEF VerdictsOf
    <3> QED BY <1>2, <1>3, <1>6, <3>1, <3>2 DEF LinkedInv, nodeVars
  <2> QED BY <1>5, <2>1, <2>2
<1>7. ASSUME Untouched' PROVE WholeInv'
  <2>1. Untouched /\ faults' = faults
    BY <1>3, <1>4, <1>7 DEF Untouched
  <2>2. UNCHANGED <<chain, log>>
    <3> SUFFICES ASSUME faults' = [faults EXCEPT !.restarts = @ + 1] PROVE FALSE
      BY <1>5
    <3>1. faults' = [lost |-> faults.lost, restarts |-> faults.restarts + 1, corrupt |-> faults.corrupt]
      BY DEF RetryInv, FaultsInv
    <3>2. faults'.restarts = faults.restarts + 1 /\ faults.restarts \in Nat
      BY <3>1 DEF RetryInv, FaultsInv
    <3>3. faults'.restarts = faults.restarts
      BY <2>1
    <3> QED BY <3>2, <3>3
  <2> QED BY <1>2, <1>3, <2>1, <2>2 DEF RetryInv, WholeInv, nodeVars, netVars
<1> QED BY <1>1, <1>4, <1>6, <1>7 DEF RetryInv

(* For a buffer, batches, retries, timeouts and late requests of any       *)
(* number: while no chain advance was lost, no record is judged a fork,    *)
(* and while nothing was damaged, overwritten or forgotten either, every   *)
(* record is accepted or recognised as a duplicate.                        *)
THEOREM RetriesAreHarmlessAlways == Spec => []RetriesAreHarmless
<1>1. Init => RetryInv
  BY RetryStart
<1>2. RetryInv /\ [Next]_vars => RetryInv'
  <2> SUFFICES ASSUME RetryInv, [Next]_vars PROVE RetryInv'
    OBVIOUS
  <2> QED BY SampleKeepsRetry, SavingKeepsRetry, UploadKeepsRetry, ReplyKeepsRetry, GiveUpKeepsRetry,
             ServePostKeepsRetry, ServeLateKeepsRetry, GatewayKeepsRetry DEF Next
<1>3. RetryInv => RetriesAreHarmless
  BY DEF RetryInv, LinkedInv, WholeInv, Untouched, RetriesAreHarmless, VerdictsSeen, VerdictsOf
<1> QED BY <1>1, <1>2, <1>3, PTL DEF Spec
=============================================================================
