\* Two warm resets, also between the start and the end of a transaction.
SPECIFICATION FairSpec
CONSTANTS
  Found <- MCFound
  RomSets <- MCRomSets
  MaxResets = 2
INVARIANTS
  TypeOK
  SetupRestored
  SentAsAsked
PROPERTIES
  ImplementsFlashChip
  InitEnds
