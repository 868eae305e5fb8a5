SPECIFICATION Spec
CONSTANTS
  None = None
  Off = Off
  Parts = {"composer", "sends", "files", "mailbox", "threads", "pair", "drive",
           "overlap", "contacts", "group", "shared", "settings", "drop", "write", "auth", "alone",
           "devices", "rotations", "web", "work", "leave", "names", "wizard",
           "proof", "centre", "profile", "privacy"}
INVARIANTS Types     AskedFirst
PROPERTY NeverTakenBack
CHECK_DEADLOCK FALSE
