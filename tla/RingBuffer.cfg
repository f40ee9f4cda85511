\* A node that relays nobody, two sectors of two slots, two faults, two reboots.
SPECIFICATION RingSpec
CONSTANTS
  Device = {node}
  own = node
  Sectors = 2
  SlotsPerSector = 2
  MaxRecords = 6
  MaxFaults = 2
  MaxReboots = 2
INVARIANT
  DrainsInOrder
PROPERTY
  KeepsItsPromise
CHECK_DEADLOCK FALSE
