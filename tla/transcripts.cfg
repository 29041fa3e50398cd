SPECIFICATION Spec
CONSTANTS
  Voice = {1, 2}
  Text <- MCText
  Length <- MCLength
  None = None
  Duration = 12
  Rank <- MCRank
  HeardAnswers <- MCHeard
  AlignedAnswers <- MCAligned
  TurnAnswers <- MCTurns
  MinSegment = 2
  MinCenterGap = 4
  MaxClip = 4
  MaxClips = 3
  MaxContext = 3
  MaxAttempts = 2
  Stranger = Stranger
INVARIANTS
  SchemaHolds
  AttributedByVoice
  ClipsUsable
  EverythingShown
  EvidenceHolds
  RequestsBounded
PROPERTIES
  CallEnds
\* a transcription or a call that has ended
CHECK_DEADLOCK FALSE
