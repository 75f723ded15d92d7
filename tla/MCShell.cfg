SPECIFICATION ShellSpec
CONSTANTS
  s1 = s1
  s2 = s2
  Channels = {s1, s2}
  Users = {"root", "bob"}
  Home <- HomeValue
  Dirs = {"/", "/root", "/tmp"}
  Locked <- LockedValue
  Files0 <- FilesValue
  Tree <- TreeValue
  Scripts <- ScriptsValue
  Shorts <- ShortsValue
  Together <- TogetherValue
  MaxLines = 3
  MaxDepth = 2
  MaxOutput = 4
  MaxHistory = 2
SYMMETRY Symmetric
INVARIANTS LinesHold HistoryIsTail LockedUnchanged
CHECK_DEADLOCK FALSE
