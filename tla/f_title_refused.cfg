SPECIFICATION IdSpec
CONSTANTS
  new = new
  earlier = earlier
  Recording = {new, earlier}
  Legacy = {earlier}
  Text <- MCText
  Slug <- MCSlug
  MaxTitle = 5
  None = None
INVARIANTS
  TitleAccepted
