SPECIFICATION Spec
CONSTANTS
  None = None
  Off = Off
  owner = owner
  member = member
  c1 = c1
  c2 = c2
  p1 = p1
  p2 = p2
  Parts = {"messages", "both", "meta", "writer", "notify", "quiet", "media",
           "timeline", "rooms", "slow", "mentions", "public", "post", "feed",
           "share", "person", "abuse", "security", "registry"}
INVARIANTS Types   
PROPERTY NoMoreThan
CHECK_DEADLOCK FALSE
