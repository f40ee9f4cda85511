------------------------------ MODULE HashChain ------------------------------
(***************************************************************************)
(* packages/core/src/chain.ts: how the gateway judges one record against   *)
(* what it holds of the device's hash chain.                               *)
(*                                                                         *)
(* A record keeps the fields the judgement reads.  Its digest (keccak-256  *)
(* of the canonical bytes) is an opaque value; "signed" says whether the   *)
(* signature that came with it verifies.                                   *)
(***************************************************************************)
EXTENDS Integers

CONSTANTS Device, Digest, ZeroDigest

ASSUME DigestAssumption == ZeroDigest \notin Digest

NoSeq == -1      \* lastSeq === null: no record of the device seen yet

IsRecord(r) ==
  /\ r.dev \in Device
  /\ r.seq \in Nat
  /\ r.prev \in Digest \cup {ZeroDigest}
  /\ r.digest \in Digest
  /\ r.signed \in BOOLEAN

ChainState == [seq : Nat \cup {NoSeq}, digest : Digest \cup {ZeroDigest}]

EmptyChain == [seq |-> NoSeq, digest |-> ZeroDigest]

Verdicts == {"ACCEPT", "DUPLICATE", "CHAIN_GAP", "CHAIN_FORK"}

(* Variant: a successor's prev is not compared with the last digest.       *)
VerdictPrevUnchecked(st, r) ==
  IF st.seq = NoSeq
  THEN IF r.seq = 0 THEN "ACCEPT" ELSE "CHAIN_GAP"
  ELSE CASE r.seq > st.seq + 1 -> "CHAIN_GAP"
         [] r.seq = st.seq + 1 -> "ACCEPT"
         [] OTHER -> "DUPLICATE"

(* Variant: >= where > is meant, so a device is joined mid-stream silently.*)
VerdictGapUnnoticed(st, r) ==
  IF st.seq = NoSeq
  THEN IF r.seq = 0 /\ r.prev # ZeroDigest THEN "CHAIN_FORK" ELSE "ACCEPT"
  ELSE CASE r.seq >= st.seq + 1 -> IF r.prev = st.digest THEN "ACCEPT" ELSE "CHAIN_FORK"
         [] r.seq = st.seq /\ r.digest # st.digest -> "CHAIN_FORK"
         [] OTHER -> "DUPLICATE"

(* Variant: an expected retry of the last record is taken for a fork.      *)
VerdictRetryIsFork(st, r) ==
  IF st.seq = NoSeq
  THEN CASE r.seq # 0 -> "CHAIN_GAP"
         [] r.seq = 0 /\ r.prev = ZeroDigest -> "ACCEPT"
         [] OTHER -> "CHAIN_FORK"
  ELSE CASE r.seq > st.seq + 1 -> "CHAIN_GAP"
         [] r.seq = st.seq + 1 /\ r.prev = st.digest -> "ACCEPT"
         [] OTHER -> "CHAIN_FORK"

Verdict(st, r) ==
  IF st.seq = NoSeq
  THEN CASE r.seq # 0 -> "CHAIN_GAP"
         [] r.seq = 0 /\ r.prev = ZeroDigest -> "ACCEPT"
         [] OTHER -> "CHAIN_FORK"
  ELSE CASE r.seq > st.seq + 1 -> "CHAIN_GAP"
         [] r.seq = st.seq + 1 -> IF r.prev = st.digest THEN "ACCEPT" ELSE "CHAIN_FORK"
         [] r.seq = st.seq /\ r.digest # st.digest -> "CHAIN_FORK"
         [] OTHER -> "DUPLICATE"

(* Variant: nothing that follows a gap is taken.                           *)
AdvancesOnAccept(verdict) == verdict = "ACCEPT"

(* The verdicts that come with a "next" state.                             *)
Advances(verdict) == verdict \in {"ACCEPT", "CHAIN_GAP"}

NextChain(st, r) ==
  IF Advances(Verdict(st, r)) THEN [seq |-> r.seq, digest |-> r.digest] ELSE st
=============================================================================
