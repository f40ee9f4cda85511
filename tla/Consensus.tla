------------------------------ MODULE Consensus ------------------------------
(***************************************************************************)
(* packages/core/src/consensus.ts: the rules engine that turns readings    *)
(* and witness attestations of a lot into findings.  Operators only: the   *)
(* engine's state for one lot goes in, the next one and what was found     *)
(* come out, as a "turn".                                                  *)
(*                                                                         *)
(* Times are device times.  A temperature is "ok", "hot" (out of range, on *)
(* either side) or "faulted".                                              *)
(***************************************************************************)
EXTENDS Integers, FiniteSets

CONSTANTS Window,         \* windowSeconds
          Sustain,        \* sustainSeconds
          MinSignals,     \* minSignalClasses
          MinDevices      \* minDevices

ASSUME ConfigAssumption ==
  /\ Window \in Nat /\ Sustain \in Nat
  /\ MinSignals \in Nat \ {0} /\ MinDevices \in Nat \ {0}

BreachSignal == {"TEMP", "LID", "SHOCK"}
EpisodeKinds == {"CONSENSUS_BREACH", "SUSPECTED_BREACH", "TAMPER"}
FindingKind == EpisodeKinds \cup {"COLD_CHAIN_BREACH"}

Severity(kind) ==
  CASE kind \in {"COLD_CHAIN_BREACH", "CONSENSUS_BREACH"} -> "breach"
    [] kind = "SUSPECTED_BREACH" -> "warn"
    [] kind = "TAMPER" -> "info"

NewLotState == [observations |-> {}, latched |-> {}, excursionStart |-> {}, episodeEndsAt |-> 0]

NewTurn(state) == [state |-> state, found |-> {}]

(* At most one finding of a kind until its latch is cleared; a confirmed   *)
(* breach silences the weaker kinds with it.                               *)
Latch(turn, kind, at, evidence) ==
  IF kind \in turn.state.latched THEN turn
  ELSE [state |-> [turn.state EXCEPT !.latched =
                     @ \cup (IF kind = "CONSENSUS_BREACH" THEN EpisodeKinds ELSE {kind})],
        found |-> turn.found \cup {[kind |-> kind, at |-> at, evidence |-> evidence]}]

Distance(a, b) == IF a < b THEN b - a ELSE a - b

InWindowAny(o, p) == Distance(o.at, p.at) <= Window            \* variant: clocks trusted

InWindow(o, p) == p.correlatable /\ Distance(o.at, p.at) <= Window

KeptShort(observations, o) == {p \in observations : p.at >= o.at - Window}   \* variant: no margin

Kept(observations, o) == {p \in observations : p.at >= o.at - 2 * Window}

ClassesByDevice(observations) == {<<p.signal, p.dev>> : p \in observations}   \* variant: repeats counted

ClassesOf(observations) == {p.signal : p \in observations}
DevicesOf(observations) == {p.dev : p \in observations}
EvidenceOf(observations) == {p.evidence : p \in observations}

(* An observation after the episode's end re-arms its kinds; then it is    *)
(* added, what is too old for it is dropped, and its window is judged.     *)
Observe(turn, o) ==
  LET s == turn.state
      kept == Kept(s.observations \cup {o}, o)
      window == {p \in kept : InWindow(o, p)}
      next == [turn EXCEPT !.state =
        [s EXCEPT !.observations = kept,
                  !.latched = IF o.at > s.episodeEndsAt THEN @ \ EpisodeKinds ELSE @,
                  !.episodeEndsAt = IF o.at + Window > @ THEN o.at + Window ELSE @]]
  IN CASE Cardinality(ClassesOf(window)) >= MinSignals ->
            Latch(next, IF Cardinality(DevicesOf(window)) >= MinDevices
                        THEN "CONSENSUS_BREACH" ELSE "SUSPECTED_BREACH",
                  o.at, EvidenceOf(window))
       [] OTHER -> IF o.signal # "TEMP" THEN Latch(next, "TAMPER", o.at, {o.evidence}) ELSE next

StartOf(state, dev) == {e \in state.excursionStart : e.dev = dev}

(* Variant: every warm reading starts the excursion again.                 *)
TrackExcursionAnew(turn, r) ==
  [turn EXCEPT !.state.excursionStart = (@ \ StartOf(turn.state, r.dev)) \cup {[dev |-> r.dev, at |-> r.at]}]

TrackExcursion(turn, r) ==
  LET start == StartOf(turn.state, r.dev)
  IN IF start = {}
     THEN [turn EXCEPT !.state.excursionStart = @ \cup {[dev |-> r.dev, at |-> r.at]}]
     ELSE IF \E e \in start : r.at - e.at >= Sustain
          THEN Latch(turn, "COLD_CHAIN_BREACH", r.at, {r.digest})
          ELSE turn

(* Back in range: this device's excursion is over, and the latch that is   *)
(* cleared with it is the lot's.                                           *)
Recover(turn, r) ==
  [turn EXCEPT !.state.excursionStart = @ \ StartOf(turn.state, r.dev),
               !.state.latched = @ \ {"COLD_CHAIN_BREACH"}]

Seen(signal, r) ==
  [signal |-> signal, dev |-> r.dev, at |-> r.at, correlatable |-> r.synced, evidence |-> r.digest]

ObserveFlag(turn, signal, r) == IF signal \in r.flags THEN Observe(turn, Seen(signal, r)) ELSE turn

ObserveRecord(state, r) ==
  LET temp == CASE r.temp = "hot" -> TrackExcursion(Observe(NewTurn(state), Seen("TEMP", r)), r)
                [] r.temp = "ok" -> Recover(NewTurn(state), r)
                [] r.temp = "faulted" -> NewTurn(state)
  IN ObserveFlag(ObserveFlag(temp, "LID", r), "SHOCK", r)

(* An accelerometer's verdict is held to the numbers it sent, if it sent   *)
(* any.  A companion is always taken to know the time.                     *)
ObserveCompanion(turn, w) ==
  LET opened == ObserveFlag(turn, "LID", w)
  IN IF w.imu = "weak" THEN opened ELSE ObserveFlag(opened, "SHOCK", w)
=============================================================================
