CONSTANTS
  Names <- MCNames
  Paths <- MCPaths
  Lengths = {0, 1, 2}
  MaxFileSize = 1
  MaxTotalBytes = 1
  MaxTotalNodes = 4
SPECIFICATION VfsSpec
INVARIANTS TreeCounted
PROPERTIES AttributesHold
CHECK_DEADLOCK FALSE
