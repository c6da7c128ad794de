SPECIFICATION Spec
CONSTANTS
  Paths <- MCPaths
  Files <- MCFiles
  Start <- MCStart
  Renames <- MCRenames
  VirtualHeads = {".claude", ".venv"}
  Nothing = Nothing
  Slots = {1, 2}
  Ticks = {1}
  MaxTime = 2
  MaxTexts = 2
  MaxCalls = 3
INVARIANTS TreeWellFormed 
PROPERTY SaveReplacesRead
CHECK_DEADLOCK FALSE
