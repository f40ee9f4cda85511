----------------------------- MODULE DeviceUplink ----------------------------
(***************************************************************************)
(* A node and the gateway it uploads to: the node's hash chain             *)
(* (firmware/lib/krishi/chain.cpp), its loop and upload cycle              *)
(* (firmware/node-head/src/main.cpp, uplink.cpp), the POST in flight, and  *)
(* the gateway of Verifier answering it.                                   *)
(*                                                                         *)
(* The node runs one loop: it neither samples nor uploads while a POST is  *)
(* open.  A POST that times out may still reach the gateway, later.  The   *)
(* node may lose power, the gateway process may restart.  The ring buffer  *)
(* is a sequence of records in slots; that a reboot finds its place in     *)
(* flash again, and torn writes, are RingBuffer's.                          *)
(***************************************************************************)
EXTENDS Verifier, SequencesExt

CONSTANTS node,           \* the device
          MaxSamples,     \* bound: readings taken
          BufferSlots,    \* capacity of the ring buffer
          SectorSlots,    \* slots erased together (kSlotsPerSector)
          MaxBatch,       \* kMaxUplinkBatch
          BodyRecords,    \* how many records the JSON buffer of a POST holds
          MaxLate,        \* bound: timed-out requests still on their way
          MaxDamage,      \* bound: lost chain advances and records damaged in flash
          MaxRestarts     \* bound: restarts of the gateway process

ASSUME NodeAssumption == Device = {node}
ASSUME BufferAssumption ==
  /\ SectorSlots \in 1 .. BufferSlots /\ BufferSlots % SectorSlots = 0
  /\ MaxBatch \in Nat \ {0} /\ BodyRecords \in Nat

VARIABLES nextSeq,        \* Chain.next_seq_, as saved in NVS
          prevDigest,     \* Chain.prev_digest_, as saved in NVS
          appended,       \* the record stored but not yet advanced past
          buffer,         \* unreleased records, oldest first
          post,           \* the POST the node waits on
          late,           \* batches of POSTs given up on that may still arrive
          samples,        \* how many readings were taken
          freed,          \* records released on an acknowledgement
          evicted,        \* records overwritten before they were released
          everStored,     \* records any gateway process ever put in its store
          faults          \* how often each fault struck

nodeVars == <<nextSeq, prevDigest, appended, buffer, samples, freed, evicted>>
netVars == <<post, late>>
vars == <<gatewayVars, nodeVars, netVars, everStored, faults>>

None == <<>>
Pending(batch) == [batch |-> batch, code |-> 0, ack |-> 0]

UplinkTypeOK ==
  /\ VerifierTypeOK
  /\ nextSeq \in Nat
  /\ prevDigest \in Digest \cup {ZeroDigest}
  /\ appended = None \/ appended \in Record
  /\ buffer \in Seq(Record) /\ Len(buffer) <= BufferSlots
  /\ post = None \/ (post.batch \in Seq(Record) /\ post.code \in {0, 200, 400, 401})
  /\ \A b \in late : b \in Seq(Record) /\ Len(b) \in 1 .. MaxBatch
  /\ freed \cup evicted \cup everStored \subseteq Record

Init ==
  /\ GatewayInit
  /\ nextSeq = 0
  /\ prevDigest = ZeroDigest
  /\ appended = None
  /\ buffer = <<>>
  /\ post = None
  /\ late = {}
  /\ samples = 0
  /\ freed = {}
  /\ evicted = {}
  /\ everStored = {}
  /\ faults = [lost |-> 0, restarts |-> 0, corrupt |-> 0]

-----------------------------------------------------------------------------
(* The node.                                                               *)

(* A reading is stamped, signed and appended.  Readings differ (they carry *)
(* the time), so the digest is the number of the reading.                  *)
NewRecord(intact) ==
  [dev |-> node, seq |-> nextSeq, prev |-> prevDigest, digest |-> samples + 1, signed |-> intact]

(* The slots are written in turn, so the k-th reading is in slot k - 1,    *)
(* around and around.                                                      *)
Slot(k) == (k - 1) % BufferSlots
Sector(k) == Slot(k) \div SectorSlots

(* A sector is erased when the first of its slots is written again,        *)
(* whatever is still unreleased in it.                                     *)
Erased ==
  IF Slot(samples + 1) % SectorSlots = 0
  THEN {r \in ToSet(buffer) : Sector(r.digest) = Sector(samples + 1)}
  ELSE {}

Without(records, gone) ==
  LET left[n \in 0 .. Len(records)] ==
        IF n = 0 THEN <<>>
        ELSE IF records[n] \in gone THEN left[n - 1] ELSE Append(left[n - 1], records[n])
  IN left[Len(records)]

Sample(intact) ==
  /\ samples < MaxSamples
  /\ post = None /\ appended = None
  /\ ~intact => faults.lost + faults.corrupt < MaxDamage
  /\ samples' = samples + 1
  /\ appended' = NewRecord(intact)
  /\ buffer' = Append(Without(buffer, Erased), NewRecord(intact))
  /\ evicted' = evicted \cup Erased
  /\ faults' = IF intact THEN faults ELSE [faults EXCEPT !.corrupt = @ + 1]
  /\ UNCHANGED <<gatewayVars, netVars, nextSeq, prevDigest, freed, everStored>>

(* Chain::advance, after the append.                                       *)
Advance ==
  /\ appended # None
  /\ nextSeq' = nextSeq + 1
  /\ prevDigest' = appended.digest
  /\ appended' = None
  /\ UNCHANGED <<gatewayVars, netVars, buffer, samples, freed, evicted, everStored, faults>>

(* The save fails, or power fails before it: the record is in the buffer   *)
(* and the chain still stands before it.                                   *)
LoseAdvance ==
  /\ appended # None
  /\ faults.lost + faults.corrupt < MaxDamage
  /\ appended' = None
  /\ faults' = [faults EXCEPT !.lost = @ + 1]
  /\ UNCHANGED <<gatewayVars, netVars, nextSeq, prevDigest, buffer, samples, freed, evicted, everStored>>

(* Power fails between the two NVS writes of NvsChainStore::save.          *)
TearAdvance ==
  /\ appended # None
  /\ faults.lost + faults.corrupt < MaxDamage
  /\ nextSeq' = nextSeq + 1
  /\ appended' = None
  /\ faults' = [faults EXCEPT !.lost = @ + 1]
  /\ UNCHANGED <<gatewayVars, netVars, prevDigest, buffer, samples, freed, evicted, everStored>>

(* Variant: the newest record is left for the next time.                   *)
BatchButNewest == SubSeq(buffer, 1, IF Len(buffer) <= MaxBatch THEN Len(buffer) - 1 ELSE MaxBatch)

Batch == SubSeq(buffer, 1, IF Len(buffer) < MaxBatch THEN Len(buffer) ELSE MaxBatch)

Upload ==
  /\ post = None /\ appended = None
  /\ buffer # <<>>
  /\ post' = Pending(Batch)
  /\ UNCHANGED <<gatewayVars, nodeVars, late, everStored, faults>>

(* RingBuffer::releaseThrough: every record of the device up to ackSeq.    *)
Releases(r, ack) == r.seq <= ack

Acknowledged == {r \in ToSet(buffer) : Releases(r, post.ack)}

HandleReply ==
  /\ post # None /\ post.code # 0
  /\ IF post.code = 200
     THEN /\ buffer' = Without(buffer, Acknowledged)
          /\ freed' = freed \cup Acknowledged
     ELSE UNCHANGED <<buffer, freed>>
  /\ post' = None
  /\ UNCHANGED <<gatewayVars, late, nextSeq, prevDigest, appended, samples, evicted, everStored, faults>>

(* No answer in time, or power fails while waiting.  An unserved request   *)
(* is lost or still on its way; an answer given is lost.                   *)
GiveUp ==
  /\ post # None
  /\ post' = None
  /\ \/ UNCHANGED late
     \/ post.code = 0 /\ Cardinality(late) < MaxLate /\ late' = late \cup {post.batch}
  /\ UNCHANGED <<gatewayVars, nodeVars, everStored, faults>>

-----------------------------------------------------------------------------
(* The gateway.                                                            *)

(* POST /ingest takes the records of a request in turn.                    *)
IngestOne(g, r) ==
  IF Admitted(r) THEN [chain |-> NextChain(g.chain, r), log |-> Logged(g.log, g.chain, r)] ELSE g

IngestAll(batch) ==
  LET ingested[n \in 0 .. Len(batch)] ==
        IF n = 0 THEN [chain |-> chain[node], log |-> log]
        ELSE IngestOne(ingested[n - 1], batch[n])
  IN ingested[Len(batch)]

(* A body longer than the JSON buffer is cut off, and the request is not   *)
(* parsed: in the code the buffer has 320 bytes for a record that takes    *)
(* 338, so 94 of a batch of 100 fit.                                       *)
Parsed(batch) == Len(batch) <= BodyRecords

Store(batch) ==
  /\ chain' = [chain EXCEPT ![node] = IngestAll(batch).chain]
  /\ log' = IngestAll(batch).log
  /\ everStored' = everStored \cup {r \in ToSet(batch) : Admitted(r)}
  /\ UNCHANGED <<known, active>>

Serve(batch) ==
  IF Parsed(batch) THEN Store(batch) ELSE UNCHANGED <<gatewayVars, everStored>>

StatusCodeParsed(batch) == IF Parsed(batch) THEN 200 ELSE 400    \* variant: 401 forgotten

(* 401 for a device not known and active; a bad signature alone is a 200.  *)
StatusCode(batch) ==
  CASE ~Parsed(batch)                   -> 400
    [] Parsed(batch) /\ node \in active -> 200
    [] OTHER                            -> 401

ServePost ==
  /\ post # None /\ post.code = 0
  /\ Serve(post.batch)
  /\ post' = [post EXCEPT !.code = StatusCode(post.batch), !.ack = AckSeq(node)']
  /\ UNCHANGED <<nodeVars, late, faults>>

ServeLate ==
  \E b \in late :
    /\ Serve(b)
    /\ late' = late \ {b}
    /\ UNCHANGED <<nodeVars, post, faults>>

Commission ==
  /\ node \notin active
  /\ RegisterDevice(node)
  /\ UNCHANGED <<nodeVars, netVars, everStored, faults>>

Restart ==
  /\ faults.restarts < MaxRestarts
  /\ RestartGateway
  /\ faults' = [faults EXCEPT !.restarts = @ + 1]
  /\ UNCHANGED <<nodeVars, netVars, everStored>>

-----------------------------------------------------------------------------
Next ==
  \/ \E intact \in BOOLEAN : Sample(intact)
  \/ Advance \/ LoseAdvance \/ TearAdvance
  \/ Upload \/ HandleReply \/ GiveUp
  \/ ServePost \/ ServeLate
  \/ Commission \/ Restart

Spec == Init /\ [][Next]_vars

(* The loop keeps running and the device is commissioned in time.  A POST  *)
(* may be given up at any moment, but one that is opened again and again   *)
(* is served, and answered, once.                                          *)
Fairness ==
  /\ WF_vars(Advance) /\ WF_vars(Upload) /\ WF_vars(Commission)
  /\ SF_vars(ServePost) /\ SF_vars(HandleReply)

FairSpec == Spec /\ Fairness

-----------------------------------------------------------------------------
(* "The node frees everything up to this, so it must never run ahead of    *)
(* what we stored" (pipeline.ts:136-138): what the acknowledgement frees   *)
(* has been stored, or its signature did not verify, or a record with the  *)
(* same seq was stored in its place.                                       *)
SeqWasStored(r) == \E s \in everStored : s.seq = r.seq

FreedWasStored ==
  \A r \in freed : r \in everStored \/ ~r.signed \/ SeqWasStored(r)

(* Retries, timeouts, late requests and lost answers accuse nobody: as     *)
(* long as no advance was lost there is no fork, and as long as nothing    *)
(* was damaged, overwritten or forgotten either there is no gap.           *)
VerdictsSeen == {e.verdict : e \in log}

RetriesAreHarmless ==
  /\ faults.lost = 0 => "CHAIN_FORK" \notin VerdictsSeen
  /\ faults = [lost |-> 0, restarts |-> 0, corrupt |-> 0] /\ evicted = {}
       => VerdictsSeen \subseteq {"ACCEPT", "DUPLICATE"}

(* An intact reading in the buffer is eventually stored, unless it is      *)
(* overwritten or its seq was stored before it, or the backlog has come to *)
(* more records than a POST holds: from then on the same batch is posted,  *)
(* and refused, for ever.                                                  *)
InBuffer(k) == \E i \in DOMAIN buffer : buffer[i].digest = k /\ buffer[i].signed

Settled(k) ==
  \/ \E r \in everStored \cup evicted : r.digest = k
  \/ \E r \in freed : r.digest = k /\ SeqWasStored(r)

Clogged == ~Parsed(Batch)

BufferedIsStored == \A k \in 1 .. MaxSamples : InBuffer(k) ~> (Settled(k) \/ []Clogged)

-----------------------------------------------------------------------------
(* "A crash between the two replays one record, which is idempotent on the *)
(* gateway" (chain.h:9-12).  The reading taken after the crash is another  *)
(* record with the same seq, and the gateway sees a fork.                  *)
LostAdvanceIsIdempotent ==
  faults.corrupt = 0 => "CHAIN_FORK" \notin VerdictsSeen

(* "It must never run ahead of what we stored", without the exemption.     *)
AckIsBehindStore == \A r \in freed : r.signed => r \in everStored

(* "Up to 100 records per request.  The node drains its buffer oldest-     *)
(* first" (docs/PROTOCOL.md:148), and drops a malformed batch (uplink.h:8).*)
BacklogDrains == \A k \in 1 .. MaxSamples : InBuffer(k) ~> Settled(k)
=============================================================================
