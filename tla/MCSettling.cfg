SPECIFICATION Spec
CONSTANTS
  None = None
  Off = Off
  Parts = {"session", "native", "proof", "centre", "profile", "security",
           "abuse", "wizard", "mailbox", "room", "typing", "board"}
PROPERTIES WaitingEnds Converges InOrder
CHECK_DEADLOCK FALSE
