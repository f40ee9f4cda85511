\* Two records and their retries in batches of one or two, every call failing at
\* will, one restart of the gateway: batches of equal and of different roots.
SPECIFICATION ReconcilingSpec
CONSTANTS
  Leaf = {la, lb}
  ZeroRoot = zero
  MaxLeaves = 2
  MaxAdds = 3
  MaxRestarts = 1
  Retries = TRUE
INVARIANTS
  AnchoredIsCommitted
  AnchoredIsInPlace
  FailedIsNotThere
  NoBatchSkipped
PROPERTIES
  AnchorsOnce
  LandedIsReported
CHECK_DEADLOCK FALSE
