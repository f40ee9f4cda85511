---------------------------- MODULE RecordBuffer -----------------------------
(***************************************************************************)
(* What a node's record buffer promises, without its flash: whatever was   *)
(* written is offered until it is acknowledged or so old that it may be    *)
(* overwritten, whenever the node restarts (firmware/lib/krishi/           *)
(* ringbuffer.h; "power-cycle mid-buffer: no records lost",                *)
(* docs/PRD.md:201).                                                       *)
(***************************************************************************)
EXTENDS Naturals, Sequences

CONSTANT Promised         \* how many of the newest records are never overwritten

VARIABLES written,        \* all records written, oldest first
          gone,           \* the positions of those no longer offered
          broken          \* the promise is off

bufferVars == <<written, gone, broken>>

MayOverwrite(S) == S \subseteq 1 .. (Len(written) - Promised)

BufferInit == written = <<>> /\ gone = {} /\ broken = FALSE

Write ==
  /\ Len(written') = Len(written) + 1
  /\ SubSeq(written', 1, Len(written)) = written
  /\ gone \subseteq gone' /\ MayOverwrite(gone' \ gone)

Overwrite == written' = written /\ gone \subseteq gone' /\ MayOverwrite(gone' \ gone)

Acknowledge ==
  /\ written' = written
  /\ \E i \in DOMAIN written :
       gone' = gone \cup {j \in DOMAIN written : written[j].dev = written[i].dev
                                                  /\ written[j].seq <= written[i].seq}

BufferSpec ==
  BufferInit /\ [][broken' \/ ((Write \/ Overwrite \/ Acknowledge) /\ ~broken')]_bufferVars
=============================================================================
