------------------------------ MODULE MCEvidence -----------------------------
(* Two nodes and a camera on one lot.  The node box warms up, recovers and *)
(* warms up again; the node lid, whose lid opens, is warm once with a      *)
(* clock that was never set; the camera sees the lid, and an impact its    *)
(* own numbers do not bear out.  Window 2, sustain 3.                      *)
EXTENDS Evidence

CONSTANTS box, lid, cam, lot, zero

Reading(d, n, ts, t, fl) ==
  [dev |-> d, digest |-> n, at |-> ts, synced |-> TRUE, lot |-> lot, temp |-> t, flags |-> fl]

MCRecord ==
  { Reading(box, "b0", 1, "hot", {}), Reading(box, "b1", 3, "ok", {}),
    Reading(box, "b2", 5, "hot", {"LID"}),
    Reading(lid, "l0", 3, "ok", {"LID"}),
    [Reading(lid, "l1", 6, "hot", {}) EXCEPT !.synced = FALSE],
    [Reading(lid, "l2", 9, "faulted", {"SHOCK"}) EXCEPT !.lot = zero] }

Witness(n, subject, ts, fl, numbers) ==
  [dev |-> cam, seq |-> n, subject |-> subject, digest |-> <<"c", n, subject>>, at |-> ts,
   flags |-> fl, imu |-> numbers]

MCCompanion ==
  { Witness(0, "l0", 3, {"LID"}, "none"), Witness(1, "b2", 7, {"SHOCK"}, "weak"),
    Witness(1, "l2", 9, {"LID"}, "none"), Witness(2, "l0", 4, {"LID"}, "none") }

(* The lid of box opens, box warms up, and the node lid beside it reads    *)
(* warm four seconds after that lid.                                       *)
MCSpan ==
  { Reading(box, "b0", 1, "ok", {"LID"}), Reading(box, "b1", 3, "hot", {}),
    Reading(lid, "l0", 5, "hot", {}) }

(* A node that stays warm beside one that stays cold. *)
MCBeside ==
  { Reading(box, "b0", 1, "hot", {}), Reading(box, "b1", 4, "hot", {}),
    Reading(box, "b2", 5, "hot", {}), Reading(lid, "l0", 4, "ok", {}) }
=============================================================================
