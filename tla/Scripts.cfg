\* The swarm, the node, the seed and the end-to-end test, two runs on one gateway.
SPECIFICATION ScriptSpec
CONSTANTS
  ZeroLot = ZeroLot
  Device <- MCDevice
  Lot <- MCLot
  Options <- MCOptions
  Record = {}
  Companion = {}
  Window = 60
  Sustain = 30
  MinSignals = 2
  MinDevices = 2
  TempMax = 100
  MaxVisible = 25
  EdgeCount = 3
  DeviceLimit = 8
  StepSeconds = 10
  Pauses = {5, 600}
  Meetings = {2, 5}
  MaxRuns = 2
  MaxRestarts = 1
INVARIANTS
  OnlyBreachesFlag
  BreachIsFound
  DropIsNoticed
  E2ePasses
  EveryViewTells
CHECK_DEADLOCK FALSE
