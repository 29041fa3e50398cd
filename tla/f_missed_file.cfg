SPECIFICATION FairIntakeSpec
CONSTANTS
  File <- MCFile
  Content <- MCContent
  Audio <- MCAudio
  None = None
  Torn = Torn
  StableTime = 1
  MaxWrites = 1
  MaxFaults = 1
  IntakeFaults = {"io", "probe"}
PROPERTIES
  EveryAudioRegistered
