----------------------------- MODULE RingBuffer ------------------------------
(***************************************************************************)
(* firmware/lib/krishi/ringbuffer.cpp: a node's record buffer on NOR flash *)
(* and how it finds its place again after a reboot; under it a FlashStore, *)
(* above it the loop of node-head/src/main.cpp, which appends readings of  *)
(* its own and records of leaves, and releases what is acknowledged.       *)
(*                                                                         *)
(* A write can only clear bits: what is written over other bytes is "torn", *)
(* bytes no CRC fits.  A slot is blank, torn or holds a record; its magic  *)
(* is written last, its state byte when it is released.  The statistics    *)
(* but count are left out.  Erasing a sector always succeeds here.         *)
(***************************************************************************)
EXTENDS Naturals, SequencesExt, FiniteSetsExt

CONSTANTS Device,
          own,            \* the node itself; the others are leaves it relays
          Sectors,        \* sectorCount()
          SlotsPerSector, \* kSlotsPerSector
          MaxRecords,     \* bound: appends
          MaxFaults,      \* bound: failed writes, power cuts and lost chain advances
          MaxReboots      \* bound: reboots at rest

ASSUME RingAssumption ==
  /\ own \in Device
  /\ {Sectors, SlotsPerSector} \subseteq Nat \ {0}
  /\ {MaxRecords, MaxFaults, MaxReboots} \subseteq Nat

VARIABLES flash,          \* slot -> what it holds
          head, tail, count,
          nextSeq,        \* device -> the seq of its next record
          copy,           \* device -> records it made with that seq before
          written,        \* records whose slot is complete, in the order written
          overlaid,       \* a record was written over the rest of a cut-off write
          unordered,      \* a reboot found slots their seqs do not put in order
          appends, faults, reboots

ringVars == <<flash, head, tail, count>>
callerVars == <<nextSeq, copy>>
historyVars == <<written, overlaid, unordered>>
vars == <<ringVars, callerVars, historyVars, appends, faults, reboots>>

TotalSlots == Sectors * SlotsPerSector
Slots == 0 .. TotalSlots - 1
Blank == [is |-> "blank"]
Torn == [is |-> "torn"]
Erased == [payload |-> Blank, magic |-> FALSE, live |-> TRUE]

IsRecord(payload) == payload \notin {Blank, Torn}

(* The slots peek and releaseThrough look at, and those begin counts.      *)
Live(f) == {s \in Slots : f[s].magic /\ f[s].live}
Intact(f) == {s \in Slots : f[s].magic /\ IsRecord(f[s].payload)}

(* The slots from one on, around the flash.                                *)
From(s) == [i \in 1 .. TotalSlots |-> (s + i - 1) % TotalSlots]

(* Those of a sequence that are in S, in their order.                      *)
Only(S, s) ==
  LET kept[n \in 0 .. Len(s)] ==
        IF n = 0 THEN <<>>
        ELSE IF s[n] \in S THEN Append(kept[n - 1], s[n]) ELSE kept[n - 1]
  IN kept[Len(s)]

-----------------------------------------------------------------------------
Counted(f) == Intact(f) \cap Live(f)

HeadAt(s) == s                                \* variant: the newest slot again

HeadAfter(s) == (s + 1) % TotalSlots

(* begin: the tail is the first slot of the least seq, the head comes      *)
(* after the last slot of the greatest, released ones included.            *)
Found(f) ==
  LET SeqIn(s) == f[s].payload.seq
      least == Min({SeqIn(s) : s \in Counted(f)})
      greatest == Max({SeqIn(s) : s \in Intact(f)})
  IN IF Counted(f) = {} THEN [head |-> 0, tail |-> 0, count |-> 0]
     ELSE [head |-> HeadAfter(Max({s \in Intact(f) : SeqIn(s) = greatest})),
           tail |-> Min({s \in Counted(f) : SeqIn(s) = least}),
           count |-> Cardinality(Counted(f))]

Begin(f) ==
  LET found == Found(f)
  IN head' = found.head /\ tail' = found.tail /\ count' = found.count

(* What begin takes for granted: all records are of one device, and where  *)
(* a seq was used twice the later record is in the later slot.             *)
At(r, log) == CHOOSE i \in DOMAIN log : log[i] = r

SeqsOrder(f, log) ==
  \A s, t \in Intact(f) :
    LET r == f[s].payload  q == f[t].payload
    IN r.dev = q.dev /\ (r.seq = q.seq /\ s < t => At(r, log) < At(q, log))

-----------------------------------------------------------------------------
(* append: at the first slot of a sector the sector is erased, whatever is *)
(* unreleased in it, and the tail moved past it.                           *)
Sector(s) == {t \in Slots : t \div SlotsPerSector = s \div SlotsPerSector}

TailKept(after) == tail                       \* variant: not moved

TailPast(after) ==
  LET end == (head + SlotsPerSector) % TotalSlots
      next == Only(Live(after), From(end))
  IN IF next = <<>> THEN end ELSE Head(next)

Room ==
  IF head % SlotsPerSector # 0 THEN [flash |-> flash, tail |-> tail, count |-> count]
  ELSE
    LET after == [s \in Slots |-> IF s \in Sector(head) THEN Erased ELSE flash[s]]
        lost == Cardinality(Live(flash) \cap Sector(head))
    IN [flash |-> after,
        count |-> IF count >= lost THEN count - lost ELSE 0,
        tail |-> IF lost # 0 /\ tail \in Sector(head) THEN TailPast(after) ELSE tail]

(* A write over other bytes leaves neither; released stays released.       *)
Programmed(slot, r) ==
  [slot EXCEPT !.payload = IF @ = Blank THEN r ELSE Torn, !.magic = TRUE]

(* What a write that fails or is cut off may leave: nothing, or bytes      *)
(* without a magic, which stand for torn ones however many there are.      *)
Partial(slot) == {slot, [slot EXCEPT !.payload = Torn]}

RecordOf(d) == [dev |-> d, seq |-> nextSeq[d], copy |-> copy[d]]

(* The caller.  A reading whose append failed, or whose chain advance was  *)
(* lost, is followed by another one with its seq; a leaf's next record has *)
(* the next seq either way.                                                *)
Advances(d) == nextSeq' = [nextSeq EXCEPT ![d] = @ + 1] /\ copy' = [copy EXCEPT ![d] = 0]
Stays(d) == nextSeq' = nextSeq /\ copy' = [copy EXCEPT ![d] = @ + 1]

Fault == faults < MaxFaults /\ faults' = faults + 1

Complete(f, d) ==
  /\ flash' = [f EXCEPT ![head] = Programmed(@, RecordOf(d))]
  /\ written' = Append(written, RecordOf(d))
  /\ overlaid' = (overlaid \/ (f[head].payload = Torn /\ ~f[head].magic))

AddOne(n) == IF n < TotalSlots THEN n + 1 ELSE n

AppendRecord(d) ==
  /\ appends < MaxRecords /\ appends' = appends + 1
  /\ Complete(Room.flash, d)
  /\ head' = (head + 1) % TotalSlots
  /\ tail' = Room.tail
  /\ count' = AddOne(Room.count)
  /\ \/ Advances(d) /\ UNCHANGED faults
     \/ d = own /\ Stays(d) /\ Fault
  /\ UNCHANGED <<unordered, reboots>>

NotAppended(d) == IF d = own THEN Stays(d) ELSE Advances(d)

AppendFails(d) ==
  /\ Fault
  /\ \E slot \in Partial(Room.flash[head]) : flash' = [Room.flash EXCEPT ![head] = slot]
  /\ tail' = Room.tail /\ count' = Room.count
  /\ NotAppended(d)
  /\ UNCHANGED <<head, historyVars, appends, reboots>>

Reopen ==
  /\ Begin(flash')
  /\ unordered' = (unordered \/ ~SeqsOrder(flash', written'))

(* Power is lost while a record is appended: before its slot is complete,  *)
(* or after, the chain not having advanced.                                *)
PowerCut(d) ==
  /\ Fault
  /\ \/ /\ \E slot \in Partial(Room.flash[head]) : flash' = [Room.flash EXCEPT ![head] = slot]
        /\ UNCHANGED <<written, overlaid>>
     \/ Complete(Room.flash, d)
  /\ NotAppended(d)
  /\ Reopen
  /\ UNCHANGED <<appends, reboots>>

Reboot ==
  /\ reboots < MaxReboots /\ reboots' = reboots + 1
  /\ UNCHANGED <<flash, callerVars, written, overlaid, appends, faults>>
  /\ Reopen

-----------------------------------------------------------------------------
(* peekCanonical, with room for all.                                       *)
Offered ==
  IF count = 0 THEN <<>>
  ELSE LET live == Only(Live(flash), From(tail))
       IN [i \in DOMAIN live |-> flash[live[i]].payload]

Below(d, n) == {s \in Live(flash) : IsRecord(flash[s].payload)
                                     /\ flash[s].payload.dev = d /\ flash[s].payload.seq <= n}

(* How far the tail moves: over released slots, at most count of them.     *)
Passed(f) ==
  LET Over(n) == \A i \in 1 .. n : f[From(tail)[i]].magic /\ ~f[From(tail)[i]].live
  IN Max({n \in 0 .. Min({count, TotalSlots}) : Over(n)})

(* releaseThrough, on the acknowledgement of what was offered.  A torn     *)
(* slot may read as a record of the device that is old enough.             *)
Release(d, n) ==
  /\ count # 0
  /\ \E r \in ToSet(Offered) : IsRecord(r) /\ r.dev = d
  /\ \E torn \in SUBSET {s \in Live(flash) : ~IsRecord(flash[s].payload)} :
       flash' = [s \in Slots |-> IF s \in Below(d, n) \cup torn THEN [flash[s] EXCEPT !.live = FALSE]
                                 ELSE flash[s]]
  /\ tail' = (tail + Passed(flash')) % TotalSlots
  /\ count' = count - Passed(flash')
  /\ UNCHANGED <<head, callerVars, historyVars, appends, faults, reboots>>

Init ==
  /\ flash = [s \in Slots |-> Erased]
  /\ head = 0 /\ tail = 0 /\ count = 0
  /\ nextSeq = [d \in Device |-> 0] /\ copy = [d \in Device |-> 0]
  /\ written = <<>> /\ overlaid = FALSE /\ unordered = FALSE
  /\ appends = 0 /\ faults = 0 /\ reboots = 0

(* Bound: a buffer that is spoiled (see below) is followed no further.     *)
Spoiled == overlaid \/ unordered

Next ==
  /\ ~Spoiled
  /\ \/ \E d \in Device : \/ AppendRecord(d) \/ AppendFails(d) \/ PowerCut(d)
                          \/ \E r \in ToSet(written) : Release(d, r.seq)
     \/ Reboot

RingSpec == Init /\ [][Next]_vars

-----------------------------------------------------------------------------
(* What begin cannot put right: a record written over the rest of a cut-   *)
(* off one, and slots whose seqs do not order them, as those of a head     *)
(* with a leaf and of a seq used twice.                                    *)
Gone == LET offered == IF count = 0 THEN {} ELSE {flash[s].payload : s \in Live(flash)}
        IN {i \in DOMAIN written : written[i] \notin offered}

Promise == INSTANCE RecordBuffer WITH
  Promised <- (Sectors - 1) * SlotsPerSector, gone <- Gone, broken <- Spoiled

(* The ring buffer implements RecordBuffer: power cuts and reboots between *)
(* any two writes, and coming round the flash, lose no record but those    *)
(* of the oldest sector, and nothing acknowledged comes back               *)
(* ("the buffer is the source of truth", docs/ARCHITECTURE.md:123).        *)
KeepsItsPromise == Promise!BufferSpec

(* "Drain buffer oldest-first" (docs/ARCHITECTURE.md:124), in the order    *)
(* records were written, after a reboot too: a batch sent out of order is  *)
(* a gap, and duplicates, to the gateway.                                  *)
DrainsInOrder ==
  ~Spoiled => Offered = Only(ToSet(Offered), written)

-----------------------------------------------------------------------------
(* What the documents say and the code does not do.                        *)

(* "A torn write fails CRC and the slot is skipped on recovery"            *)
(* (docs/ARCHITECTURE.md:130): what is offered is what was written.  The   *)
(* next record is written over the torn slot.                              *)
TornIsSkipped == ToSet(Offered) \subseteq ToSet(written)

(* "Buffer: scan flash ring buffer, find head/tail" (ARCHITECTURE.md:120). *)
(* The greatest seq of a head's flash may be its own and the newest record *)
(* a leaf's: the next one is written over that.                            *)
RebootFindsItsPlace ==
  [][reboots' # reboots /\ Live(flash) # {} => head' = head]_vars
=============================================================================
