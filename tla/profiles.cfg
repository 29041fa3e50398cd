SPECIFICATION Spec
CONSTANTS
  first = first
  second = second
  Recording = {first, second}
  Speaker = {"alice", "bob", "host"}
  Clip = {"a1", "a2", "b1", "b2", "h1", "h2"}
  Person = {p, q}
  Home <- MCHome
  SpeakerOf <- MCSpeakerOf
  None = None
  Requests = {"speaker", "segments", "other", "retranscribe"}
  MaxEvents = 3
SYMMETRY People
INVARIANTS
  TypeOK
  ProfilesConfirmed
  SamplesComplete
PROPERTIES
  OneSpeakerPerPerson
  RejectedForGood
CHECK_DEADLOCK FALSE
