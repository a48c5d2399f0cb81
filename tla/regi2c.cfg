\* A calibration wait of 2 polls and two warm resets.
SPECIFICATION FairSpec
CONSTANTS
  InitialBytes <- MCInitialBytes
  MaxSpins = 2
  MaxResets = 2
INVARIANTS
  TypeOK
  CommandsReach
  RoutedToMspi
PROPERTIES
  LatchedAtTarget
  RstbPulsedWhileStarted
  ImplementsAnalogBus
  BringupEnds
