\* Four readings, a buffer of three, uploads of up to three, of which a body holds two;
\* one fault of each side and one timed-out request.  A body holds more records than
\* can be damaged.
SPECIFICATION FairSpec
CONSTANTS
  node = node
  Device = {node}
  Digest <- MCDigest
  ZeroDigest = 0
  Record <- MCRecord
  MaxSamples = 4
  BufferSlots = 3
  SectorSlots = 1
  MaxBatch = 3
  BodyRecords = 2
  MaxLate = 1
  MaxDamage = 1
  MaxRestarts = 1
INVARIANTS
  FreedWasStored
  RetriesAreHarmless
PROPERTY
  BufferedIsStored
CHECK_DEADLOCK FALSE
