SPECIFICATION AgentSpec
CONSTANTS
  Calls = {c1, c2}
  MaxBlocks = 2
  MaxLen = 2
  MaxTurns = 2
  MaxEdits = 1
  Nothing = Nothing
INVARIANTS ShownOnceInOrder NothingWithheld ParentsDiffer 
SYMMETRY CallsAlike
CHECK_DEADLOCK FALSE
