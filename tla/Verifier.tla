------------------------------ MODULE Verifier -------------------------------
(***************************************************************************)
(* The gateway's ingest of one record: apps/gateway/src/pipeline.ts        *)
(* (Verifier and the device directory) and the part of POST /ingest in     *)
(* index.ts that stores what was accepted.  Whatever reaches the endpoint  *)
(* is ingested: retries, old records, divergent histories, forgeries.      *)
(*                                                                         *)
(* Everything here lives in the gateway's memory and is gone after a       *)
(* restart.                                                                *)
(***************************************************************************)
EXTENDS HashChain, FiniteSets

CONSTANT Record           \* the records that may be posted

ASSUME RecordAssumption == \A r \in Record : IsRecord(r)

VARIABLES known,          \* MemoryDeviceDirectory.known
          active,         \* MemoryDeviceDirectory.active
          chain,          \* Verifier.chains: what is held of each device's chain
          log             \* the store's records, each with its verdict

gatewayVars == <<known, active, chain, log>>

Entry == [rec : Record, verdict : Verdicts]

GatewayInit ==
  /\ known = {}
  /\ active = {}
  /\ chain = [d \in Device |-> EmptyChain]
  /\ log = {}

RegisterDevice(d) ==
  /\ known' = known \cup {d}
  /\ active' = active \cup {d}
  /\ UNCHANGED <<chain, log>>

RevokeDevice(d) ==
  /\ active' = active \ {d}
  /\ UNCHANGED <<known, chain, log>>

(* Membership first, then the signature: a record that fails either is     *)
(* quarantined and reaches neither the chain nor the store.                *)
Admitted(r) == r.dev \in known /\ r.dev \in active /\ r.signed

Logged(entries, st, r) == entries \cup {[rec |-> r, verdict |-> Verdict(st, r)]}

Ingest(r) ==
  /\ Admitted(r)
  /\ log' = Logged(log, chain[r.dev], r)
  /\ chain' = [chain EXCEPT ![r.dev] = NextChain(chain[r.dev], r)]
  /\ UNCHANGED <<known, active>>

(* A new process: the directory, the chains and the store start empty.     *)
RestartGateway ==
  /\ known' = {}
  /\ active' = {}
  /\ chain' = [d \in Device |-> EmptyChain]
  /\ log' = {}

(* The highest seq the gateway acknowledges; `?? 0` when it holds none.    *)
AckSeq(d) == IF chain[d].seq = NoSeq THEN 0 ELSE chain[d].seq

VerifierNext ==
  \/ \E d \in Device : RegisterDevice(d) \/ RevokeDevice(d)
  \/ \E r \in Record : Ingest(r)
  \/ RestartGateway

VerifierSpec == GatewayInit /\ [][VerifierNext]_gatewayVars

-----------------------------------------------------------------------------
(* The chain held of a device is the newest record stored of it, and no    *)
(* forged or foreign record is in the store.                               *)
VerifierTypeOK ==
  /\ active \subseteq known /\ known \subseteq Device
  /\ chain \in [Device -> ChainState]
  /\ log \subseteq Entry
  /\ \A e \in log : e.rec.signed

LinkedIn(entries, d, n, digest) ==
  \E e \in entries : /\ e.rec.dev = d /\ e.rec.seq = n /\ e.rec.digest = digest
                     /\ Advances(e.verdict)

(* Where the gateway believes a device's chain to be, it has the record.   *)
TipIsStored ==
  \A d \in Device : chain[d].seq # NoSeq => LinkedIn(log, d, chain[d].seq, chain[d].digest)

(* Whatever order records arrive in, an accepted record's predecessor is   *)
(* in the store, is the one its prev names, and was accepted or recorded   *)
(* as following a gap: accepted records form linked runs.                  *)
AcceptedIsLinked ==
  \A e \in log : e.verdict = "ACCEPT" =>
    \/ e.rec.seq = 0 /\ e.rec.prev = ZeroDigest
    \/ LinkedIn(log, e.rec.dev, e.rec.seq - 1, e.rec.prev)

(* "An omission becomes a visible, recorded event rather than silence"     *)
(* (chain.ts:5-7): every seq up to the tip is either in the store or       *)
(* covered by a gap recorded above it.                                     *)
Stored(d, n) == \E e \in log : e.rec.dev = d /\ e.rec.seq = n /\ Advances(e.verdict)

GapAbove(d, n) ==
  \E e \in log : e.rec.dev = d /\ e.rec.seq > n /\ e.verdict = "CHAIN_GAP"

OmissionIsVisible ==
  \A d \in Device : \A n \in 0 .. chain[d].seq : Stored(d, n) \/ GapAbove(d, n)

-----------------------------------------------------------------------------
(* What the protocol says and the code does not do: a record whose seq was *)
(* seen with another digest is a CHAIN_FORK (PROTOCOL.md section 2; the    *)
(* comment of chain.ts:16-20).  Below the newest seq the digest is not     *)
(* compared.                                                               *)
DivergenceIsVisible ==
  \A e, f \in log :
    /\ e.rec.dev = f.rec.dev
    /\ e.rec.seq = f.rec.seq
    /\ e.rec.digest # f.rec.digest
    => \E g \in log : g.rec.dev = e.rec.dev /\ g.verdict \in {"CHAIN_FORK", "CHAIN_GAP"}
=============================================================================
