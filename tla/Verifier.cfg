\* Two devices, nine records: two histories, a false genesis, an orphan, a forgery.
SPECIFICATION VerifierSpec
CONSTANTS
  node = node
  leaf = leaf
  Device = {node, leaf}
  Digest <- MCDigest
  ZeroDigest = "zero"
  Record <- MCRecord
INVARIANTS
  AcceptedIsLinked
  OmissionIsVisible
CHECK_DEADLOCK FALSE
