------------------------------ MODULE MCLotPage ------------------------------
(* One record of each of two lots, one of them hot.                        *)
EXTENDS LotPage

CONSTANTS warm, cool, crate, pallet

MCLeaf == {<<"leaf", warm>>, <<"leaf", cool>>}
MCLot == {crate, pallet}
MCLotOf == [d \in MCLeaf |-> IF d = <<"leaf", warm>> THEN crate ELSE pallet]
MCHot == {<<"leaf", warm>>}
MCPath == {<<>>}
=============================================================================
