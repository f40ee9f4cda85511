\* A crate and a truck; one failed call or restart, one outside transaction.
SPECIFICATION ServiceSpec
CONSTANTS
  Address = {gateway}
  Gateway = gateway
  LotId = {zero, crate, truck}
  ZeroLot = zero
  NoAddress = nobody
  MaxSignatures = 0
  MaxFaults = 1
  MaxOutside = 1
INVARIANTS
  ShownIsWarranted
  BreachIsCarried
PROPERTY
  CondemnedIsShown
CHECK_DEADLOCK FALSE
