CONSTANTS
  c1 = c1
  c2 = c2
  c3 = c3
  here = here
  there = there
  Connections = {c1, c2, c3}
  Addresses = {here, there}
  AddressOf <- MCAddressOf
  Users = {"root", "ghost"}
  Names <- MCNames
  Tried <- MCTried
  Allowed = {"root"}
  Passwords = {"", "toor"}
  Empty = ""
  Weak = {"toor"}
  Methods = {"password", "keyboard-interactive", "publickey", "none"}
  Window = 2
  MaxPerIP = 2
  MaxEntries = 2
  MaxAuthTries = 2
  MaxTries <- MCMaxTries
  MaxTime = 2
SPECIFICATION Spec
INVARIANTS RateBounded LoginExplained CredentialsRecorded
PROPERTIES RefusedOnlyWhenFull
CHECK_DEADLOCK FALSE
