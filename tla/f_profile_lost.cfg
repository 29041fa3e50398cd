SPECIFICATION Spec
CONSTANTS
  first = first
  second = second
  Recording = {first, second}
  Speaker = {"alice", "bob", "host"}
  Clip = {"a1", "a2", "b1", "b2", "h1", "h2"}
  Person = {p, q}
  Home <- MCHome
  SpeakerOf <- MCSpeakerOf
  None = None
  Requests = {"speaker", "segments"}
  MaxEvents = 3
INVARIANT ProfilesRebuilt
CHECK_DEADLOCK FALSE
