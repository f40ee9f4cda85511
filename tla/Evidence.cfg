\* Two nodes and a camera, in every order, with replays.
SPECIFICATION Spec
CONSTANTS
  box = box
  lid = lid
  cam = cam
  lot = lot
  zero = zero
  Device = {box, lid, cam}
  Lot = {lot}
  ZeroLot = zero
  Record <- MCRecord
  Companion <- MCCompanion
  Window = 2
  Sustain = 3
  MinSignals = 2
  MinDevices = 2
INVARIANTS
  FlagIsWarranted
  CorroborationIsFound
  NoWitnessLost
