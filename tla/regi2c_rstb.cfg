\* From every combination of the bits around the bus.
SPECIFICATION Spec
CONSTANTS
  InitialBytes <- MCInitialBytes
  MaxSpins = 2
  MaxResets = 0
INVARIANTS
  EngineOutOfReset
