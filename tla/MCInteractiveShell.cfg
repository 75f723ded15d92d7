CONSTANTS
  MaxChunks = 3
  Timeout = 1
  MaxRecordingBytes = 40
  MagicSize = 1
  HeaderSize = 2
  Text <- MCText
  Sep = " "
  Lead = "x1"
  Cont = "x2"
  Finals <- MCFinals
  Prompt <- MCPrompt
  Names <- MCNames
  Cols = 5
  MaxInteractiveLine = 5
  MaxEscLen = 4
  MaxSessionHistory = 2
  Farewells <- MCFarewells
  Forget <- MCForget
  Unended <- MCUnended
  Chunks <- MCChunks
SPECIFICATION FairSpec
INVARIANTS InputInOrder NothingLeftBehind EditorSound SeenIsRun ReplayIsPrefix
PROPERTIES IdleMeansQuiet ImplementsRecord Unwinds
CHECK_DEADLOCK FALSE
