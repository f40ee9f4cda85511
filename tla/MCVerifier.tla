------------------------------ MODULE MCVerifier -----------------------------
(* One device with two histories that part after seq 0, a false genesis    *)
(* record, an orphan and a forgery; and a second device with one record.   *)
EXTENDS Verifier

CONSTANTS node, leaf

Rec(dev, seq, prev, digest) ==
  [dev |-> dev, seq |-> seq, prev |-> prev, digest |-> digest, signed |-> TRUE]

MCDigest == {"a0", "a1", "a2", "b1", "b2", "g0", "x3", "l0", "f1", "lost"}

MCRecord ==
  { Rec(node, 0, "zero", "a0"), Rec(node, 1, "a0", "a1"), Rec(node, 2, "a1", "a2"),
    Rec(node, 1, "a0", "b1"), Rec(node, 2, "b1", "b2"),
    Rec(node, 0, "a1", "g0"), Rec(node, 3, "lost", "x3"),
    Rec(leaf, 0, "zero", "l0"),
    [Rec(node, 1, "a0", "f1") EXCEPT !.signed = FALSE] }
=============================================================================
