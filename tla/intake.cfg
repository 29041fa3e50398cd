SPECIFICATION FairIntakeSpec
CONSTANTS
  File <- MCFile
  Content <- MCContent
  Audio <- MCAudio
  None = None
  Torn = Torn
  StableTime = 1
  MaxWrites = 3
  MaxFaults = 1
  IntakeFaults = {"io", "probe", "vanish", "crash"}
INVARIANTS
  RegisteredOnce
  OnlyWholeAudio
PROPERTIES
  EveryFileAnswered
