SPECIFICATION Spec
CONSTANTS
  Paths <- MCPaths
  Folder <- MCFolder
  Name <- MCName
INVARIANTS AllAreNamed OnlyThoseAreNamed
\* once all paths are asked for
CHECK_DEADLOCK FALSE
