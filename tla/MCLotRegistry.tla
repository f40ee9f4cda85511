---------------------------- MODULE MCLotRegistry ----------------------------
(* Small instances of LotRegistry: lots other than the zero lot and the    *)
(* addresses are interchangeable.                                          *)
EXTENDS LotRecall, TLC

Symmetry == Permutations(LotId \ {ZeroLot}) \cup Permutations(Address)
=============================================================================
