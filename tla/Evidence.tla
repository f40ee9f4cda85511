------------------------------ MODULE Evidence -------------------------------
(***************************************************************************)
(* The gateway's evidence: records and the companions that witness them,   *)
(* whichever comes first, and the rules engine that hears both.            *)
(* apps/gateway/src/store.ts (addRecord, addCompanion), the companion      *)
(* verifier of pipeline.ts, and what POST /ingest and POST /companion do   *)
(* with the findings (index.ts handleFinding, the store's part).           *)
(*                                                                         *)
(* A POST carries one record or one companion here: nothing runs between   *)
(* the entries of a longer one.  Any verified record is stored and         *)
(* observed, whatever its verdict, so retries and replays are the same     *)
(* record posted again.                                                    *)
(***************************************************************************)
EXTENDS Consensus, SequencesExt

CONSTANTS Device,
          Lot,
          ZeroLot,        \* the lot of a node not bound to one
          Record,         \* the verified records that may be posted
          Companion       \* the signed companions that may be posted

NoLot == "none"

ASSUME EvidenceAssumption ==
  /\ \A r \in Record : /\ r.dev \in Device /\ r.lot \in Lot \cup {ZeroLot} /\ r.at \in Nat
                        /\ r.synced \in BOOLEAN /\ r.temp \in {"hot", "ok", "faulted"}
                        /\ r.flags \subseteq {"LID", "SHOCK"}
  /\ \A c \in Companion : /\ c.dev \in Device /\ c.at \in Nat /\ c.flags \subseteq {"LID", "SHOCK"}
                           /\ c.imu \in {"strong", "weak", "none"}
  /\ ZeroLot \notin Lot /\ NoLot \notin Lot \cup {ZeroLot}

(* A digest names its record.                                              *)
ASSUME DigestAssumption == \A r, s \in Record : r.digest = s.digest => r = s

VARIABLES known,          \* MemoryDeviceDirectory.known
          records,        \* GatewayStore.records, byDigest and byLot
          seen,           \* CompanionVerifier.seen
          companions,     \* GatewayStore.companions
          orphans,        \* GatewayStore.orphans: subject -> the companions without it
          engine,         \* ConsensusEngine.lots
          incidents,      \* GatewayStore.incidents
          flaggedLots     \* GatewayStore.flaggedLots

evidenceVars == <<known, records, seen, companions, orphans, engine, incidents, flaggedLots>>

Init ==
  /\ known = {}
  /\ records = {}
  /\ seen = {}
  /\ companions = {}
  /\ orphans = <<>>
  /\ engine = [l \in Lot |-> NewLotState]
  /\ incidents = {}
  /\ flaggedLots = {}

Register(d) ==
  /\ d \notin known
  /\ known' = known \cup {d}
  /\ UNCHANGED <<records, seen, companions, orphans, engine, incidents, flaggedLots>>

Flags(found) == \E f \in found : Severity(f.kind) = "breach"

(* The engine's answer for lot l: its new state, and every finding becomes *)
(* an incident; a breach latches the lot as flagged.                       *)
Conclude(l, turn) ==
  /\ engine' = [engine EXCEPT ![l] = turn.state]
  /\ incidents' = incidents \cup {[lot |-> l, kind |-> f.kind, at |-> f.at, evidence |-> f.evidence]
                                  : f \in turn.found}
  /\ flaggedLots' = IF Flags(turn.found) THEN flaggedLots \cup {l} ELSE flaggedLots

Unmoved == UNCHANGED <<engine, incidents, flaggedLots>>

Waiting(digest) == IF digest \in DOMAIN orphans THEN orphans[digest] ELSE <<>>

Adopted(turn, waiting) ==
  LET heard[n \in 0 .. Len(waiting)] ==
        IF n = 0 THEN turn ELSE ObserveCompanion(heard[n - 1], waiting[n])
  IN heard[Len(waiting)]

InLot(w, lot) == [w EXCEPT !.lot = lot]

(* Store the record, observe it, then every companion that waited for it,  *)
(* in the order they came.  A lot of zeros is no lot: nothing is observed. *)
AddRecord(r) ==
  /\ records' = records \cup {r}
  /\ companions' = {IF w \in ToSet(Waiting(r.digest)) THEN InLot(w, r.lot) ELSE w : w \in companions}
  /\ orphans' = [d \in DOMAIN orphans \ {r.digest} |-> orphans[d]]
  /\ IF r.lot = ZeroLot THEN Unmoved
     ELSE Conclude(r.lot, Adopted(ObserveRecord(engine[r.lot], r), Waiting(r.digest)))

Admitted(d) == d \in known

PostRecord(r) ==
  /\ Admitted(r.dev)
  /\ AddRecord(r)
  /\ UNCHANGED <<known, seen>>

Key(c) == <<c.dev, c.seq, c.subject>>

(* The evidence may be left out, and then a verdict is taken at its word;  *)
(* evidence that does not hash to the signed payload is refused.           *)
StoredCompanion(c, shown, lot) ==
  [dev |-> c.dev, at |-> c.at, flags |-> c.flags, subject |-> c.subject, digest |-> c.digest,
   synced |-> TRUE, imu |-> IF shown THEN c.imu ELSE "none", lot |-> lot]

HeldAlone(w) == <<w>>                          \* variant: a pool replaced, not extended

Held(w) == Append(Waiting(w.subject), w)

Hold(w) == orphans' = [d \in DOMAIN orphans \cup {w.subject} |->
                         IF d = w.subject THEN Held(w) ELSE orphans[d]]

AddCompanion(c, shown) ==
  LET subject == {r \in records : r.digest = c.subject}
  IN \/ /\ subject = {}
        /\ companions' = companions \cup {StoredCompanion(c, shown, NoLot)}
        /\ Hold(StoredCompanion(c, shown, NoLot))
        /\ Unmoved
     \/ \E r \in subject :
          /\ companions' = companions \cup {StoredCompanion(c, shown, r.lot)}
          /\ IF r.lot = ZeroLot THEN Unmoved
             ELSE Conclude(r.lot, ObserveCompanion(NewTurn(engine[r.lot]),
                                                   StoredCompanion(c, shown, r.lot)))
          /\ UNCHANGED orphans

PostCompanion(c, shown) ==
  /\ Admitted(c.dev)
  /\ Key(c) \notin seen
  /\ seen' = seen \cup {Key(c)}
  /\ AddCompanion(c, shown)
  /\ UNCHANGED <<known, records>>

Next ==
  \/ \E d \in Device : Register(d)
  \/ \E r \in Record : PostRecord(r)
  \/ \E c \in Companion, shown \in BOOLEAN : PostCompanion(c, shown)

Spec == Init /\ [][Next]_evidenceVars

-----------------------------------------------------------------------------
ObservationType(o) ==
  /\ o.signal \in BreachSignal /\ o.dev \in Device
  /\ o.at \in Nat /\ o.correlatable \in BOOLEAN

EvidenceTypeOK ==
  /\ known \subseteq Device
  /\ records \subseteq Record
  /\ \A l \in Lot :
       /\ \A o \in engine[l].observations : ObservationType(o)
       /\ engine[l].latched \subseteq FindingKind
       /\ \A e \in engine[l].excursionStart : e.dev \in known
       /\ engine[l].episodeEndsAt \in Nat
  /\ \A i \in incidents : i.lot \in Lot /\ i.kind \in FindingKind
  /\ flaggedLots \subseteq Lot

(* What was claimed of a lot, by every record and companion the gateway    *)
(* holds, whenever and in whatever order it came.                          *)
Claim(lot, signal, dev, at, trusted) ==
  [lot |-> lot, signal |-> signal, dev |-> dev, at |-> at, trusted |-> trusted]

SignalsOf(r) == r.flags \cup (IF r.temp = "hot" THEN {"TEMP"} ELSE {})
WitnessedBy(w) == IF w.imu = "weak" THEN w.flags \ {"SHOCK"} ELSE w.flags

Claims(l) ==
  UNION ({{Claim(l, g, r.dev, r.at, r.synced) : g \in SignalsOf(r)} : r \in {x \in records : x.lot = l}}
    \cup {{Claim(l, g, w.dev, w.at, TRUE) : g \in WitnessedBy(w)} : w \in {x \in companions : x.lot = l}})

Around(l, o) == {p \in Claims(l) : p.trusted /\ Distance(o.at, p.at) <= Window}

Corroborated(l) ==
  \E o \in Claims(l) : /\ Cardinality({p.signal : p \in Around(l, o)}) >= MinSignals
                        /\ Cardinality({p.dev : p \in Around(l, o)}) >= MinDevices

HotTwice(l, d) ==
  \E r, s \in records : /\ r.lot = l /\ s.lot = l /\ r.dev = d /\ s.dev = d
                         /\ r.temp = "hot" /\ s.temp = "hot" /\ s.at - r.at >= Sustain

(* "Neither can be triggered by a lone spike" (consensus.ts:20): a lot is  *)
(* flagged only on independent signals of several devices around one       *)
(* moment, by clocks that were set, or on a device out of range at two     *)
(* moments far enough apart, whatever was late, repeated or left out.      *)
FlagIsWarranted ==
  \A l \in flaggedLots : Corroborated(l) \/ \E d \in Device : HotTwice(l, d)

Independent(o, p) ==
  o.trusted /\ p.trusted /\ o.signal # p.signal /\ o.dev # p.dev /\ Distance(o.at, p.at) <= Window

(* Two independent signals within a window raise a breach in whichever     *)
(* order they arrive, a witness ahead of its record included; the one      *)
(* excuse is something of the lot heard that is newer than two windows.    *)
CorroborationIsFound ==
  \A l \in Lot : \A o, p \in Claims(l) :
    Independent(o, p) =>
      \/ \E i \in incidents : i.lot = l /\ i.kind = "CONSENSUS_BREACH"
      \/ \E x \in Claims(l) : x.at > o.at + 2 * Window \/ x.at > p.at + 2 * Window

(* "Dropping those would silently delete half the swarm's evidence"        *)
(* (store.ts:10): a companion waits as long as its subject is missing, and *)
(* no longer, and knows its lot from then on.                              *)
NoWitnessLost ==
  \A w \in companions :
    LET subject == {r \in records : r.digest = w.subject}
    IN /\ (subject = {}) <=> (w \in ToSet(Waiting(w.subject)))
       /\ (subject = {}) <=> (w.lot = NoLot)
       /\ \A r \in subject : w.lot = r.lot

-----------------------------------------------------------------------------
(* What the engine's comments say and it does not do.                      *)

(* "minSignalClasses different KINDS of signal from minDevices different   *)
(* devices inside windowSeconds" (consensus.ts:15-16).                     *)
IndependentPair(l) == \E o, p \in Claims(l) : Independent(o, p)

ConsensusIsIndependent ==
  \A i \in incidents : i.kind = "CONSENSUS_BREACH" => IndependentPair(i.lot)

(* "one episode produces one finding rather than one per record"           *)
(* (consensus.ts:123): of two excursions reported of a device, a reading   *)
(* back in range lies between.                                             *)
OneFindingPerEpisode ==
  \A i, j \in incidents : \A r, s \in records :
    /\ i.kind = "COLD_CHAIN_BREACH" /\ j.kind = "COLD_CHAIN_BREACH"
    /\ i.lot = j.lot /\ i.evidence = {r.digest} /\ j.evidence = {s.digest}
    /\ r.dev = s.dev /\ r.at < s.at
    => \E b \in records : b.dev = r.dev /\ b.temp = "ok" /\ r.at < b.at /\ b.at < s.at

(* "Back in range: this device's excursion is over" (consensus.ts:190): no *)
(* excursion is reported across a reading in range the gateway holds.      *)
ExcursionIsUnbroken ==
  [][\A s \in Record :
       [lot |-> s.lot, kind |-> "COLD_CHAIN_BREACH", at |-> s.at, evidence |-> {s.digest}]
         \in incidents' \ incidents
       => \E r \in records :
            /\ r.dev = s.dev /\ r.temp = "hot" /\ s.at - r.at >= Sustain
            /\ ~\E b \in records : /\ b.dev = r.dev /\ b.temp = "ok"
                                    /\ r.at < b.at /\ b.at < s.at]_evidenceVars
=============================================================================
