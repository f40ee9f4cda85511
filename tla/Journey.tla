------------------------------ MODULE Journey --------------------------------
(***************************************************************************)
(* What a lot's stored readings are turned into for people and for other   *)
(* systems: the breach rule the web pages share (lib/incidents.ts), the    *)
(* chart that shades it (ColdChainChart.tsx), the timeline that collapses  *)
(* what is nominal (JourneyTimeline.tsx) and the EPCIS document            *)
(* (packages/core/src/epcis.ts).  Operators only.                          *)
(*                                                                         *)
(* "shown" is the sequence of a lot's readings as GET /lot serves them.    *)
(* Temperatures are in tenths of a degree.                                 *)
(***************************************************************************)
EXTENDS Integers, SequencesExt

CONSTANTS TempMax,        \* TEMP_MAX_C, as the gateway and the pages have it
          MaxVisible,     \* MAX_VISIBLE of the timeline
          EdgeCount       \* EDGE_COUNT of the timeline

NoSeqs == -1              \* null: no reading breached

IsBreaching(r) == r.t > TempMax

(* The first and the last breaching reading, by their seq.                 *)
DeriveIncidents(shown) ==
  LET hot == SelectSeq(shown, IsBreaching)
  IN [breached    |-> hot # <<>>,
      breachStart |-> IF hot = <<>> THEN NoSeqs ELSE Head(hot).seq,
      breachEnd   |-> IF hot = <<>> THEN NoSeqs ELSE Last(hot).seq]

-----------------------------------------------------------------------------
(* The chart.                                                              *)

(* indexBySeq: of several readings with one seq, the last.                 *)
IndexBySeq(shown, n) == Max({i \in DOMAIN shown : shown[i].seq = n})

(* The positions that lie under the shaded rectangle.                      *)
Shaded(shown) ==
  LET found == DeriveIncidents(shown)
      x1 == IndexBySeq(shown, found.breachStart)
      x2 == IndexBySeq(shown, found.breachEnd)
  IN IF found.breached THEN Min({x1, x2}) .. Max({x1, x2}) ELSE {}

-----------------------------------------------------------------------------
(* The timeline.                                                           *)

AnomalousByVerdict(r) == r.verdict # "ACCEPT" \/ "LID" \in r.flags     \* variant: warm is nominal

IsAnomalous(r) == r.verdict # "ACCEPT" \/ IsBreaching(r) \/ "LID" \in r.flags

IsEdge(shown, i) == i <= EdgeCount \/ i > Len(shown) - EdgeCount

Keep(shown) ==
  {i \in DOMAIN shown : Len(shown) <= MaxVisible \/ IsEdge(shown, i) \/ IsAnomalous(shown[i])}

(* A row is a reading, or the number of readings collapsed in its place.   *)
ReadingRow(i) == [type |-> "record", at |-> i, count |-> 1]
GapRow(n) == [type |-> "gap", at |-> 0, count |-> n]

AddRow(rows, i, kept) ==
  CASE kept -> Append(rows, ReadingRow(i))
    [] ~kept /\ rows # <<>> /\ Last(rows).type = "gap" -> [rows EXCEPT ![Len(rows)].count = @ + 1]
    [] OTHER -> Append(rows, GapRow(1))

BuildRows(shown) ==
  LET keep == Keep(shown)
      rows[i \in 0 .. Len(shown)] == IF i = 0 THEN <<>> ELSE AddRow(rows[i - 1], i, i \in keep)
  IN rows[Len(shown)]

DotColor(r) ==
  CASE r.verdict # "ACCEPT"                       -> "unverifiable"
    [] r.verdict = "ACCEPT" /\ IsBreaching(r)     -> "flagged"
    [] r.verdict = "ACCEPT" /\ ~IsBreaching(r)    -> "verified"

-----------------------------------------------------------------------------
(* The EPCIS document.                                                     *)

RecordToEpcisEvent(r) ==
  LET opened == "LID" \in r.flags
  IN [at |-> r.at, digest |-> r.digest, incident |-> "none",
      bizStep |-> IF opened THEN "inspecting" ELSE "sensor_reporting",
      disposition |-> IF opened THEN "damaged" ELSE "in_transit"]

NoDigest == <<>>          \* an incident without evidence

IncidentToEpcisEvent(i) ==
  [at |-> i.at, digest |-> IF i.evidence = {} THEN NoDigest ELSE CHOOSE d \in i.evidence : TRUE, incident |-> i.kind,
   bizStep |-> "inspecting", disposition |-> "damaged"]

(* Its event list, the order by time left out.                             *)
EpcisDocument(shown, breaches) ==
  {RecordToEpcisEvent(r) : r \in ToSet(shown)} \cup {IncidentToEpcisEvent(b) : b \in breaches}
=============================================================================
