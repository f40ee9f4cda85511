\* Two actors, two lots (one of them the zero lot), handoffs and revocations.
SPECIFICATION Spec
CONSTANTS
  Address = {farmer, carrier}
  LotId = {zero, crate}
  ZeroLot = zero
  NoAddress = nobody
  MaxSignatures = 2
SYMMETRY Symmetry
INVARIANTS
  NoUnsolicitedCustody
PROPERTY
  InactiveCustodianFrozen
CHECK_DEADLOCK FALSE
