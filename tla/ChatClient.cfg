SPECIFICATION FairSpec
CONSTANTS
  Turns = {1, 2}
  OldTurns = 1
  PageSize = 1
  MaxChunks = 2
  MaxBreaks = 1
  Sockets = {s1, s2}
  Requests = {q1, q2}
  Impatient = FALSE
  Nothing = Nothing
INVARIANTS AgentMessagesOnce 
PROPERTY Reconnects
CHECK_DEADLOCK FALSE
