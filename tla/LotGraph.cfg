\* One actor, three lots and the zero lot: every aggregation graph on four lots.
SPECIFICATION Spec
CONSTANTS
  Address = {ops}
  LotId = {zero, lotA, lotB, truck}
  ZeroLot = zero
  NoAddress = nobody
  MaxSignatures = 0
SYMMETRY Symmetry
INVARIANTS
  FamilyConsistent
  FlagIsTraceable
  ReportedTaintsParent
  RecallFindsCulprit
PROPERTY
  EvidencePermanent
CHECK_DEADLOCK FALSE
